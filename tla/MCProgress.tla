----------------------------- MODULE MCProgress -----------------------------
(***************************************************************************)
(* The parts of the system that must come to an end whoever else acts,     *)
(* checked side by side: a behaviour picks one of them and runs that one   *)
(* alone, under the fairness of its own specification.                     *)
(*   "topics"   LazyTopic, two threads that read one topic                 *)
(*   "warmers"  IndexWarming, two children that walk the same trees        *)
(*   "index"    PagedIndex, one index of one container                     *)
(***************************************************************************)
EXTENDS LazyTopic, Naturals, TLC

CONSTANTS h1, c1, c2,
          MaxGeneration,                            \* of IndexWarming
          FirstTable, Records, NoTable, NoWord, Reading  \* of PagedIndex

VARIABLES
  part,
  generation, gone, marker, lock, gen, stop, pc, task, walk,         \* of IndexWarming
  file, expected, terminal, table, values, visited, starts           \* of PagedIndex

\* Two members of one topic, which both need its lowering.
Members == {<<h1, "link_targets">>, <<h1, "rendered">>}

\* Two trees of one directory; the index of the first is on.
W == INSTANCE IndexWarming WITH Children <- {c1, c2}, Roots <- <<"top", "other">>,
       Dirs <- {"top", "other"}, Sub <- [d \in {"top", "other"} |-> {}], Plain <- {},
       Enabled <- {"top"}, MaxVisited <- 3, MaxDepth <- 1, Faults <- {"stop"}

\* Two tables, which may form a cycle, be empty, or lie past the end.
Tables == {t \in [values : {<<>>, <<10>>, <<20, 30>>}, next : {1, 2, 3, NoTable},
                  whole : BOOLEAN, terminal : {40, NoWord}] : t.terminal = NoWord \/ t.whole}
Pages  == [1..2 -> Tables]

\* Nobody is no child, and no place in a tree.
ASSUME WalkersAssumption == /\ MaxGeneration \in Nat \ {0}
                            /\ None \notin {c1, c2} /\ None \notin {"top", "other"} \X Nat

X == INSTANCE PagedIndex WITH Files <- Pages, Expected <- 0..3, Root <- FirstTable
-----------------------------------------------------------------------------
warming == <<generation, gone, marker, lock, gen, stop, pc, task, walk>>
reading == <<file, expected, terminal, table, values, visited, starts>>
all     == <<part, vars, warming, reading>>

Topics(step)  == part = "topics"  /\ step /\ UNCHANGED <<part, warming, reading>>
Warmers(step) == part = "warmers" /\ step /\ UNCHANGED <<part, vars, reading>>
Index(step)   == part = "index"   /\ step /\ UNCHANGED <<part, vars, warming>>

NoReading == /\ file = 0 /\ expected = 0 /\ terminal = 0 /\ table = 0
             /\ values = 0 /\ visited = 0 /\ starts = 0

MCInit == /\ part \in {"topics", "warmers", "index"}
          /\ Init /\ W!Init
          /\ IF part = "index" THEN X!Init ELSE NoReading

\* Threads never block one another; only the warmers and the index come to rest.
MCNext == \/ Topics(Next) \/ Warmers(W!Next) \/ Index(X!Next)
          \/ part # "topics" /\ UNCHANGED all

MCSpec == /\ MCInit /\ [][MCNext]_all
          /\ \A t \in Threads : WF_all(Topics(Step(t)))
          /\ \A c \in {c1, c2} : WF_all(Warmers(W!Run(c)))
          /\ WF_all(Index(X!Next))
-----------------------------------------------------------------------------
\* The properties of the instances.
NoRepeat         == W!NoRepeat
WarmersEnd       == W!WarmersEnd
GenerationWalked == W!GenerationWalked
IndexesAreRead   == <>[](part = "index" => X!WhollyRead)
=============================================================================
