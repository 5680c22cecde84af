----------------------------- MODULE LazyTopic ------------------------------
(***************************************************************************)
(* The lazy caches of an opened book, and the threads that read them with  *)
(* no lock (libgeist, src/src).  A TocEntry handle owns three slots:       *)
(* lowering, rendered, link_targets; the loader behind it owns a fourth,   *)
(* loaded (records and positioned source).  The book owns two more: the    *)
(* source dictionary of its decode context and the font definitions.       *)
(* Computing one slot dereferences others, so a thread is a stack of       *)
(* publish_once calls.  A call loads the slot, computes a fresh object     *)
(* when it is empty, and exchanges it into the slot if it is still empty;  *)
(* a call that loses that race must go on with the object of the winner.   *)
(***************************************************************************)
EXTENDS Sequences

CONSTANTS Threads,  \* threads that call const members of one document
          Handles,  \* TocEntry handles (copies of one entry share a handle)
          Book,     \* the document itself, the owner of the book-wide slots
          Asked,    \* the slots the callers' members start from
          None

HandleKinds == {"loaded", "lowering", "rendered", "link_targets"}
BookKinds   == {"source_dictionary", "font_definitions"}
Slots == (Handles \X HandleKinds) \cup ({Book} \X BookKinds)

(* An object is named by the thread that built it and the slot it is for:  *)
(* a thread that has built one finds the slot filled from then on.         *)
Values == Threads \X Slots

ASSUME NoneAssumption == None \notin Values /\ None \notin Slots
ASSUME BookAssumption == Book \notin Handles
(* Markdown, HTML, diagnostics, link targets, trace readers and font       *)
(* definitions are the public ways in; "loaded" is only reached through a  *)
(* loader.                                                                 *)
ASSUME AskedAssumption == Asked \subseteq {k \in Slots : k[2] # "loaded"}

VARIABLES slot,   \* [Slots -> Values \cup {None}]: the published object
          from,   \* [Values -> Values \cup {None}]: what it was computed from
          stack,  \* [Threads -> Seq(Frames)]: calls in progress, innermost first
          refs    \* [Threads -> SUBSET Values]: references handed out so far

vars == <<slot, from, stack, refs>>

(* The slot a member dereferences before it calls publish_once.            *)
Before(k) == IF k[2] = "link_targets" THEN <<k[1], "rendered">> ELSE None

(* The slot its compute function dereferences.                             *)
Uses(k) ==
  IF k[2] \in {"link_targets", "rendered"} THEN <<k[1], "lowering">>
  ELSE IF k[2] = "lowering" THEN <<k[1], "loaded">>
  ELSE IF k[2] = "loaded" THEN <<Book, "source_dictionary">>
  ELSE None

Places == {"before", "load", "compute", "exchange"}
Frames == [slot : Slots, at : Places, got : Values \cup {None}]

Call(k) == [slot |-> k,
            at   |-> IF Before(k) = None THEN "load" ELSE "before",
            got  |-> None]

Init == /\ slot  = [k \in Slots |-> None]
        /\ from  = [v \in Values |-> None]
        /\ stack = [t \in Threads |-> <<>>]
        /\ refs  = [t \in Threads |-> {}]

Running(t, place) == stack[t] # <<>> /\ Head(stack[t]).at = place

(* The innermost call moves on to place p.                                 *)
MovedTo(t, p) == <<[Head(stack[t]) EXCEPT !.at = p]>> \o Tail(stack[t])

(* The innermost call ends with object v: the thread has a reference to it *)
(* and a compute function that asked for it has its input.                 *)
Outer(t, v) ==
  LET rest == Tail(stack[t])
  IN  IF rest # <<>> /\ Head(rest).at = "compute"
      THEN <<[Head(rest) EXCEPT !.got = v]>> \o Tail(rest)
      ELSE rest

Return(t, v) == /\ stack' = [stack EXCEPT ![t] = Outer(t, v)]
                /\ refs'  = [refs EXCEPT ![t] = @ \cup {v}]

Enter(t) == /\ stack[t] = <<>>
            /\ \E k \in Asked : stack' = [stack EXCEPT ![t] = <<Call(k)>>]
            /\ UNCHANGED <<slot, from, refs>>

CallBefore(t) ==
  /\ Running(t, "before")
  /\ stack' = [stack EXCEPT ![t] =
                 <<Call(Before(Head(stack[t]).slot))>> \o MovedTo(t, "load")]
  /\ UNCHANGED <<slot, from, refs>>

LoadFilled(t) ==
  /\ Running(t, "load")
  /\ slot[Head(stack[t]).slot] # None
  /\ Return(t, slot[Head(stack[t]).slot])
  /\ UNCHANGED <<slot, from>>

LoadEmpty(t) ==
  /\ Running(t, "load")
  /\ slot[Head(stack[t]).slot] = None
  /\ stack' = [stack EXCEPT ![t] = MovedTo(t, "compute")]
  /\ UNCHANGED <<slot, from, refs>>

ComputeNeeds(t) ==
  /\ Running(t, "compute")
  /\ Head(stack[t]).got = None
  /\ Uses(Head(stack[t]).slot) # None
  /\ stack' = [stack EXCEPT ![t] = <<Call(Uses(Head(stack[t]).slot))>> \o stack[t]]
  /\ UNCHANGED <<slot, from, refs>>


ComputeDone(t) ==
  LET k == Head(stack[t]).slot
  IN  /\ Running(t, "compute")
      /\ Uses(k) # None => Head(stack[t]).got # None
      /\ from'  = [from EXCEPT ![<<t, k>>] = Head(stack[t]).got]
      /\ stack' = [stack EXCEPT ![t] = MovedTo(t, "exchange")]
      /\ UNCHANGED <<slot, refs>>

(* A decode or lowering error, or a failed allocation, unwinds every call  *)
(* of the thread: nothing in between catches it and nothing is published.  *)
ComputeThrows(t) ==
  /\ Running(t, "compute")
  /\ stack' = [stack EXCEPT ![t] = <<>>]
  /\ UNCHANGED <<slot, from, refs>>

(* Mutants of the exchange. *)
ExchangeKeepsOwn(t) ==
  LET k == Head(stack[t]).slot
  IN  /\ Running(t, "exchange")
      /\ slot' = [slot EXCEPT ![k] = IF @ = None THEN <<t, k>> ELSE @]
      /\ Return(t, <<t, k>>)
      /\ UNCHANGED from

ExchangeStores(t) ==
  LET k == Head(stack[t]).slot
  IN  /\ Running(t, "exchange")
      /\ slot' = [slot EXCEPT ![k] = <<t, k>>]
      /\ Return(t, <<t, k>>)
      /\ UNCHANGED from

ExchangeWaits(t) ==
  LET k == Head(stack[t]).slot
  IN  /\ Running(t, "exchange")
      /\ slot[k] = None
      /\ slot' = [slot EXCEPT ![k] = <<t, k>>]
      /\ Return(t, <<t, k>>)
      /\ UNCHANGED from

Exchange(t) ==
  LET k == Head(stack[t]).slot
  IN  /\ Running(t, "exchange")
      /\ slot' = [slot EXCEPT ![k] = IF @ = None THEN <<t, k>> ELSE @]
      /\ Return(t, slot'[k])
      /\ UNCHANGED from

Step(t) == \/ CallBefore(t) \/ LoadFilled(t) \/ LoadEmpty(t)
           \/ ComputeNeeds(t) \/ ComputeDone(t) \/ ComputeThrows(t)
           \/ Exchange(t)

Next == \E t \in Threads : Enter(t) \/ Step(t)

(* Each thread that is in a call goes on with it; nobody has to call.      *)
Spec == Init /\ [][Next]_vars /\ \A t \in Threads : WF_vars(Step(t))
-----------------------------------------------------------------------------
TypeOK == /\ slot \in [Slots -> Values \cup {None}]
          /\ from \in [Values -> Values \cup {None}]
          /\ stack \in [Threads -> Seq(Frames)]
          /\ refs \in [Threads -> SUBSET Values]

(* A reference a thread was handed is to the object its slot still holds,  *)
(* so it never dangles and all threads that asked for one slot look at one *)
(* object (atomic_cache.hpp 18-20, toc.hpp 89-93).                         *)
RefsLive == \A t \in Threads : \A v \in refs[t] : slot[v[2]] = v

(* What is published was computed from what is published: the Markdown,    *)
(* the diagnostic and the link targets of a topic all come from the one    *)
(* lowering later callers see, and that from the one source decode, even   *)
(* when a thread lost the race for one of them half way down.              *)
OneLineage == \A k \in Slots :
                 slot[k] # None /\ Uses(k) # None => from[slot[k]] = slot[Uses(k)]

(* Nobody waits for anybody: a thread that entered a call leaves it.       *)
CallsReturn == \A t \in Threads : stack[t] # <<>> ~> stack[t] = <<>>

(* The promise of atomic_cache.hpp, by the obvious mapping. *)
Cells == INSTANCE OnceCell WITH cell <- slot, held <- refs
OnceCells == Cells!Spec
=============================================================================
