---------------------------- MODULE IndexWarming ----------------------------
(***************************************************************************)
(* Background index warming (src/apache/index_warming.cpp).  Each httpd    *)
(* child runs one warmer thread that walks the configured trees, one after *)
(* another.  A lock file per tree elects one child, and a marker file per  *)
(* tree records the configuration generation whose walk is complete.       *)
(* Children of several generations overlap during a graceful reload.       *)
(*                                                                         *)
(* The warming of one shelf is one step here: ShelfIndex is its detail.    *)
(***************************************************************************)
EXTENDS Naturals, Sequences

CONSTANTS Children,       \* httpd children; each starts at most once
          MaxGeneration,  \* bound: configuration loads
          Roots,          \* sequence of the trees to walk
          Dirs,           \* directories, and entries that are no directory
          Sub,            \* [Dirs -> SUBSET Dirs]: the entries of each
          Plain,          \* the entries that are links or files
          Enabled,        \* directories with BooIndex On
          MaxVisited, MaxDepth,   \* the limits of a walk
          Faults,         \* the faults that may happen in this instance
          None

ASSUME TreeAssumption   == /\ Roots \in Seq(Dirs)
                           /\ Sub \in [Dirs -> SUBSET Dirs]
                           /\ Plain \subseteq Dirs /\ Enabled \subseteq Dirs
ASSUME LimitsAssumption == /\ MaxGeneration \in Nat \ {0}
                           /\ MaxVisited \in Nat /\ MaxDepth \in Nat
ASSUME WarmingFaults    == Faults \subseteq {"crash", "stop", "store", "throw", "vanish", "list"}
ASSUME NobodyAssumption == None \notin Children /\ None \notin Dirs \X Nat

Unmarked    == 0
Generations == 1..MaxGeneration

VARIABLES
  generation,  \* of the server's configuration
  gone,        \* directories removed since the start
  marker,      \* [Dirs -> Generations or Unmarked]: marker file of each root
  lock,        \* [Dirs -> Children or None]: holder of each walk lock
  gen,         \* [Children -> Generations]: WalkTask::generation
  stop,        \* [Children -> BOOLEAN]: Warmer::stop
  pc,          \* [Children -> Places]
  task,        \* [Children -> 1..Len(Roots)+1]
  walk         \* [Children -> Walks]: the locals of a walk

Places == {"unborn", "task", "wait", "try", "locked", "walk", "shelf", "list", "mark", "ended"}

(* warmed and missed are history: the shelves that this walk has done, and *)
(* the directories that were gone or hidden by an error when it came by.   *)
Walks == [pending  : Seq(Dirs \X Nat),
          visited  : Nat,
          complete : BOOLEAN,
          path     : (Dirs \X Nat) \cup {None},
          entries  : SUBSET Dirs,
          warmed   : SUBSET Dirs,
          missed   : SUBSET Dirs]
NoWalk == [pending |-> <<>>, visited |-> 0, complete |-> TRUE,
           path |-> None, entries |-> {}, warmed |-> {}, missed |-> {}]

server == <<generation, gone>>
files  == <<marker, lock>>
vars   == <<server, files, gen, stop, pc, task, walk>>

Init == /\ generation = 1
        /\ gone = {}
        /\ marker = [d \in Dirs |-> Unmarked]
        /\ lock = [d \in Dirs |-> None]
        /\ gen = [c \in Children |-> 1]
        /\ stop = [c \in Children |-> FALSE]
        /\ pc = [c \in Children |-> "unborn"]
        /\ task = [c \in Children |-> 1]
        /\ walk = [c \in Children |-> NoWalk]

At(c, place)   == pc[c] = place
Goto(c, place) == pc' = [pc EXCEPT ![c] = place]
Running(c, place) == At(c, place) /\ ~stop[c]
Fault(k)       == k \in Faults
Root(c)        == Roots[task[c]]

(* Mutant: the lock file stays open.                                       *)
ScopeEndsOpen(c) == walk' = [walk EXCEPT ![c] = NoWalk] /\ UNCHANGED <<server, lock, gen, stop>>

(* The lock and the locals go out of scope with the task, or the thread.   *)
ScopeEnds(c) == /\ lock' = [d \in Dirs |-> IF lock[d] = c THEN None ELSE lock[d]]
                /\ walk' = [walk EXCEPT ![c] = NoWalk]
                /\ UNCHANGED <<server, gen, stop>>
TaskEnds(c)   == ScopeEnds(c) /\ task' = [task EXCEPT ![c] = @ + 1] /\ Goto(c, "task")
ThreadEnds(c) == ScopeEnds(c) /\ Goto(c, "ended") /\ UNCHANGED <<marker, task>>
-----------------------------------------------------------------------------

(* start_index_warming, in a child of the current generation.              *)
Start(c) ==
  /\ At(c, "unborn")
  /\ gen' = [gen EXCEPT ![c] = generation]
  /\ Goto(c, "task")
  /\ UNCHANGED <<server, files, stop, task, walk>>

TaskStarts(c) ==
  /\ Running(c, "task")
  /\ task[c] <= Len(Roots)
  /\ Goto(c, "wait")
  /\ UNCHANGED <<server, files, gen, stop, task, walk>>

RunReturns(c) ==
  /\ At(c, "task")
  /\ task[c] > Len(Roots) \/ stop[c]
  /\ ThreadEnds(c)

(* The cache directory or the lock file cannot be opened.                  *)
RootSkipped(c) ==
  /\ Fault("store")
  /\ \/ Running(c, "task") /\ task[c] <= Len(Roots)
     \/ At(c, "try")
  /\ TaskEnds(c)
  /\ UNCHANGED marker

(* CacheStore::read of the marker: equal to this generation's, or not, as  *)
(* when the read fails.                                                    *)
MarkerEqual(c)  == marker[Root(c)] = gen[c]
MarkerDiffers(c) == marker[Root(c)] # gen[c] \/ Fault("store")

(* The loop that waits for the marker or the lock.                         *)
AlreadyWalked(c) ==
  /\ At(c, "wait")
  /\ stop[c] \/ MarkerEqual(c)
  /\ TaskEnds(c)
  /\ UNCHANGED marker

NotYetWalked(c) ==
  /\ Running(c, "wait")
  /\ MarkerDiffers(c)
  /\ Goto(c, "try")
  /\ UNCHANGED <<server, files, gen, stop, task, walk>>

Elected(c) ==
  /\ At(c, "try")
  /\ lock[Root(c)] = None
  /\ lock' = [lock EXCEPT ![Root(c)] = c]
  /\ Goto(c, "locked")
  /\ UNCHANGED <<server, marker, gen, stop, task, walk>>

(* Mutant: a child that finds the lock taken leaves the tree to the other. *)
ContendedGivesUp(c) ==
  /\ At(c, "try")
  /\ lock[Root(c)] # None
  /\ TaskEnds(c)
  /\ UNCHANGED marker

(* Mutant: the lock is not looked at when it is refused.                   *)
ContendedWalks(c) ==
  /\ At(c, "try")
  /\ lock[Root(c)] # None
  /\ Goto(c, "locked")
  /\ UNCHANGED <<server, files, gen, stop, task, walk>>

(* Sleep, then look at the marker and the lock again.                      *)
Contended(c) ==
  /\ At(c, "try")
  /\ lock[Root(c)] # None
  /\ Goto(c, "wait")
  /\ UNCHANGED <<server, files, gen, stop, task, walk>>

(* The marker may have been written between the first look and the lock.   *)
NotNeeded(c) ==
  /\ At(c, "locked")
  /\ stop[c] \/ MarkerEqual(c)
  /\ TaskEnds(c)
  /\ UNCHANGED marker

(* Mutant: the marker is not read again under the lock.                    *)
WalkStartsAnyway(c) ==
  /\ Running(c, "locked")
  /\ walk' = [walk EXCEPT ![c].pending = << <<Root(c), 0>> >>]
  /\ Goto(c, "walk")
  /\ UNCHANGED <<server, files, gen, stop, task>>

WalkStarts(c) ==
  /\ Running(c, "locked")
  /\ MarkerDiffers(c)
  /\ walk' = [walk EXCEPT ![c].pending = << <<Root(c), 0>> >>]
  /\ Goto(c, "walk")
  /\ UNCHANGED <<server, files, gen, stop, task>>

Directory(d) == d \notin Plain /\ d \notin gone

(* is_directory(symlink_status(d)): an error looks like no directory.      *)
Status(d) == {Directory(d)} \cup (IF Fault("list") THEN {FALSE} ELSE {})

(* pending.back(), counted and held against the limits.                    *)
Visit(c) ==
  /\ Running(c, "walk")
  /\ walk[c].pending # <<>>
  /\ LET last  == Len(walk[c].pending)
         next  == walk[c].pending[last]
         count == walk[c].visited + 1
         limit == count > MaxVisited \/ next[2] > MaxDepth
     IN \E is \in Status(next[1]) :
          /\ walk' = [walk EXCEPT ![c].pending = SubSeq(@, 1, last - 1),
                                  ![c].visited = count,
                                  ![c].complete = ~limit,
                                  ![c].path = next,
                                  ![c].missed = IF is \/ limit THEN @ ELSE @ \cup {next[1]}]
          /\ Goto(c, IF limit THEN "mark" ELSE IF is THEN "shelf" ELSE "walk")
  /\ UNCHANGED <<server, files, gen, stop, task>>

(* Mutant: a directory whose index is off is not searched.                 *)
WarmShelfPrunes(c) ==
  /\ At(c, "shelf")
  /\ LET d == walk[c].path[1]
     IN walk' = [walk EXCEPT ![c].warmed = IF d \in Enabled /\ ~stop[c] THEN @ \cup {d} ELSE @,
                             ![c].entries = IF d \in Enabled \ gone THEN Sub[d] ELSE {}]
  /\ Goto(c, "list")
  /\ UNCHANGED <<server, files, gen, stop, task>>

(* scan_shelf, shelf_entries and forget_missing where the index is on; a   *)
(* stop cuts them short.  Then the directory is opened for its entries:    *)
(* none if it is gone by now, cannot be opened, or may not be read.        *)
WarmShelf(c) ==
  /\ At(c, "shelf")
  /\ LET d == walk[c].path[1]
     IN \E found \in {IF d \in gone THEN {} ELSE Sub[d]}
                        \cup (IF Fault("list") THEN {{}} ELSE {}) :
          walk' = [walk EXCEPT ![c].warmed = IF d \in Enabled /\ ~stop[c] THEN @ \cup {d} ELSE @,
                               ![c].entries = found,
                               ![c].missed = @ \cup (Sub[d] \ found)]
  /\ Goto(c, "list")
  /\ UNCHANGED <<server, files, gen, stop, task>>

(* Any exception ends the thread, and its lock with it.                    *)
Throws(c) ==
  /\ At(c, "shelf")
  /\ Fault("throw")
  /\ ThreadEnds(c)

(* The limit is tested at every entry, whatever the entry is.              *)
Full(c) == Len(walk[c].pending) + walk[c].visited >= MaxVisited

ReadEntry(c) ==
  /\ Running(c, "list")
  /\ ~Full(c)
  /\ \E d \in walk[c].entries : \E is \in Status(d) :
       walk' = [walk EXCEPT ![c].entries = @ \ {d},
                            ![c].pending = IF is THEN Append(@, <<d, walk[c].path[2] + 1>>) ELSE @,
                            ![c].missed = IF is THEN @ ELSE @ \cup {d}]
  /\ UNCHANGED <<server, files, gen, stop, pc, task>>

TooManyEntries(c) ==
  /\ Running(c, "list")
  /\ Full(c)
  /\ walk[c].entries # {}
  /\ walk' = [walk EXCEPT ![c].complete = FALSE]
  /\ Goto(c, "mark")
  /\ UNCHANGED <<server, files, gen, stop, task>>

(* The entries are used up, or increment has failed.                       *)
ListEnds(c) ==
  /\ At(c, "list")
  /\ walk[c].entries = {} \/ stop[c] \/ Fault("list")
  /\ walk' = [walk EXCEPT ![c].entries = {}, ![c].missed = @ \cup walk[c].entries]
  /\ Goto(c, "walk")
  /\ UNCHANGED <<server, files, gen, stop, task>>

WalkEnds(c) ==
  /\ At(c, "walk")
  /\ walk[c].pending = <<>> \/ stop[c]
  /\ Goto(c, "mark")
  /\ UNCHANGED <<server, files, gen, stop, task, walk>>

WalkStopped(c) ==
  /\ At(c, "mark")
  /\ stop[c]
  /\ ThreadEnds(c)

(* A complete walk is recorded for the children to come.                   *)
Mark(c) ==
  /\ Running(c, "mark")
  /\ walk[c].complete
  /\ marker' = [marker EXCEPT ![Root(c)] = gen[c]]
  /\ TaskEnds(c)

NoMark(c) ==
  /\ Running(c, "mark")
  /\ ~walk[c].complete \/ Fault("store")
  /\ TaskEnds(c)
  /\ UNCHANGED marker
-----------------------------------------------------------------------------
(* geist_post_config: a restart or graceful reload is a new generation.    *)
Reload == /\ generation < MaxGeneration
          /\ generation' = generation + 1
          /\ UNCHANGED <<gone, files, gen, stop, pc, task, walk>>

Alive(c) == pc[c] \notin {"unborn", "ended"}

(* stop_warmer: the child exits once its thread has ended.                 *)
Stop(c) == /\ Fault("stop")
           /\ Alive(c)
           /\ stop' = [stop EXCEPT ![c] = TRUE]
           /\ UNCHANGED <<server, files, gen, pc, task, walk>>

(* A child dies: the kernel releases its lock.                             *)
Crash(c) == Fault("crash") /\ Alive(c) /\ ThreadEnds(c)

Vanish == /\ Fault("vanish")
          /\ \E d \in Dirs \ gone : gone' = gone \cup {d}
          /\ UNCHANGED <<generation, files, gen, stop, pc, task, walk>>

Run(c) == \/ TaskStarts(c) \/ RunReturns(c) \/ RootSkipped(c)
          \/ AlreadyWalked(c) \/ NotYetWalked(c) \/ Elected(c) \/ Contended(c)
          \/ NotNeeded(c) \/ WalkStarts(c)
          \/ Visit(c) \/ WarmShelf(c) \/ Throws(c)
          \/ ReadEntry(c) \/ TooManyEntries(c) \/ ListEnds(c) \/ WalkEnds(c)
          \/ WalkStopped(c) \/ Mark(c) \/ NoMark(c)

Next == \/ Reload \/ Vanish
        \/ \E c \in Children : Start(c) \/ Stop(c) \/ Crash(c) \/ Run(c)

Spec     == Init /\ [][Next]_vars
LiveSpec == Spec /\ \A c \in Children : WF_vars(Run(c))
-----------------------------------------------------------------------------
TypeOK ==
  /\ generation \in Generations
  /\ gone \subseteq Dirs
  /\ marker \in [Dirs -> Generations \cup {Unmarked}]
  /\ lock \in [Dirs -> Children \cup {None}]
  /\ gen \in [Children -> Generations]
  /\ stop \in [Children -> BOOLEAN]
  /\ pc \in [Children -> Places]
  /\ task \in [Children -> 1..Len(Roots)+1]
  /\ walk \in [Children -> Walks]

Walking(c) == pc[c] \in {"locked", "walk", "shelf", "list", "mark"}

(* index_warming.cpp:173: two children never walk one tree at a time,      *)
(* whatever generations they belong to.                                    *)
OneWalker == \A c, d \in Children :
               Walking(c) /\ Walking(d) /\ Root(c) = Root(d) => c = d

(* The directories under r that are found without following a link, or     *)
(* going through a hidden one.                                             *)
Under(r, hidden) ==
  {d \in Dirs \ (Plain \cup hidden) :
     \A S \in SUBSET Dirs :
       r \in S /\ (\A e \in S \ (Plain \cup hidden) : Sub[e] \subseteq S) => d \in S}

Marks(c) == At(c, "mark") /\ marker' # marker /\ pc'[c] = "task"

(* index_warming.cpp:227-228: a marker is written only after a walk that   *)
(* warmed every enabled shelf of the tree but those hidden from it,        *)
(* whatever stops, exceptions and limits cut walks short.  What an error   *)
(* hides is not made good: a directory that cannot be examined or listed,  *)
(* and the rest of a listing that breaks off (:198, :218-222), leave the   *)
(* walk complete, and no child of the generation looks there again.        *)
MarkersAreEarned ==
  [][\A c \in Children : Marks(c) =>
       Under(Root(c), walk[c].missed) \cap Enabled \subseteq walk[c].warmed]_vars

(* index_warming.cpp:185: the second look at the marker, under the lock.   *)
(* A child whose tree is marked for its own generation does not walk it.   *)
NoRepeat ==
  \A c \in Children : pc[c] \in {"walk", "shelf", "list", "mark"} => marker[Root(c)] # gen[c]

(* Every warmer thread ends: stop_warmer's join returns, and no child      *)
(* waits for the walk lock for ever.                                       *)
WarmersEnd == \A c \in Children : Alive(c) ~> pc[c] = "ended"

(* index_warming.cpp:180-182: another child may exit early, or belong to   *)
(* an older generation, so the lock is tried again.  A child that is not   *)
(* stopped sees its own generation's walk through.                         *)
GenerationWalked ==
  \A c \in Children, i \in 1..Len(Roots) :
    At(c, "wait") /\ task[c] = i ~> marker[Roots[i]] = gen[c] \/ stop[c]

(* README.md:291 says that a generation marker prevents later children     *)
(* from repeating a completed startup walk: once a tree is marked for a    *)
(* generation, no child of that generation would walk it again.            *)
CompletedOnce ==
  \A c \in Children, i \in 1..Len(Roots), g \in Generations :
    [](marker[Roots[i]] = g => [](At(c, "walk") /\ task[c] = i => gen[c] # g))
=============================================================================
