------------------------- MODULE IndexWarming_proofs -------------------------
(***************************************************************************)
(* The election of the warmers, proved for every number of children,       *)
(* configuration loads and trees, whatever the limits and the faults.      *)
(***************************************************************************)
EXTENDS IndexWarming, Integers, TLAPS

(* A child walks a tree of its list, and holds the lock of that tree.      *)
Holding ==
  \A c \in Children :
    /\ pc[c] \in {"wait", "try"} => task[c] <= Len(Roots)
    /\ Walking(c) => task[c] <= Len(Roots) /\ lock[Root(c)] = c
    /\ pc[c] \in {"shelf", "list"} => walk[c].path # None
    /\ pc[c] # "mark" => walk[c].complete

(* Only an unreadable marker lets a child walk again.                      *)
Unrepeated == Fault("store") \/ NoRepeat

(* The directories a walk has still to search: those pending, the one it   *)
(* has just taken, and the entries it has not read.                        *)
Ahead(c) == {walk[c].pending[i][1] : i \in 1..Len(walk[c].pending)}
              \cup (IF pc[c] = "shelf" THEN {walk[c].path[1]} ELSE {})
              \cup (IF pc[c] = "list" THEN walk[c].entries ELSE {})

(* What it does not follow, or did not come by. *)
Hidden(c) == Plain \cup walk[c].missed

(* The directories done with: each enabled one is warmed, and the entries  *)
(* of each are done with, still ahead, or hidden, as is the root.          *)
Covered(c) ==
  \E S \in SUBSET Dirs :
    /\ Root(c) \in S \cup Ahead(c) \cup Hidden(c)
    /\ S \cap Enabled \subseteq walk[c].warmed
    /\ \A e \in S : Sub[e] \subseteq S \cup Ahead(c) \cup Hidden(c)

Searching == {"walk", "shelf", "list", "mark"}

EarnedBy(c) ==
  pc[c] \in Searching /\ walk[c].complete /\ ~stop[c] =>
    /\ Covered(c)
    /\ pc[c] = "mark" => walk[c].pending = <<>>

Earned == \A c \in Children : EarnedBy(c)

IInv == TypeOK /\ Holding /\ Unrepeated /\ Earned

LEMMA Rooted ==
  ASSUME NEW i \in Nat, i # 0, i <= Len(Roots)
  PROVE  Roots[i] \in Dirs
BY TreeAssumption

-----------------------------------------------------------------------------
(* How the steps of a walk change its locals.                              *)
Started(c, w) ==
  /\ walk' = [walk EXCEPT ![c] = w]
  /\ w.pending = << <<Root(c), 0>> >>
  /\ w.complete = walk[c].complete
  /\ w.path = walk[c].path
  /\ w.warmed = walk[c].warmed
  /\ w.missed = walk[c].missed

Popped(c, w, next, limit, is) ==
  /\ walk' = [walk EXCEPT ![c] = w]
  /\ Len(walk[c].pending) \in Nat \ {0}
  /\ next = walk[c].pending[Len(walk[c].pending)]
  /\ w.pending \in Seq(Dirs \X Nat)
  /\ Len(w.pending) = Len(walk[c].pending) - 1
  /\ \A i \in 1..Len(w.pending) : w.pending[i] = walk[c].pending[i]
  /\ w.complete = ~limit
  /\ w.path = next
  /\ w.warmed = walk[c].warmed
  /\ walk[c].missed \subseteq w.missed
  /\ is \/ limit \/ next[1] \in w.missed
  /\ pc' = [pc EXCEPT ![c] = IF limit THEN "mark" ELSE IF is THEN "shelf" ELSE "walk"]

Warmed(c, w, d) ==
  /\ walk' = [walk EXCEPT ![c] = w]
  /\ d = walk[c].path[1]
  /\ w.pending = walk[c].pending
  /\ w.complete = walk[c].complete
  /\ w.path = walk[c].path
  /\ walk[c].missed \subseteq w.missed
  /\ Sub[d] \subseteq w.entries \cup w.missed
  /\ w.warmed = IF d \in Enabled /\ ~stop[c] THEN walk[c].warmed \cup {d}
                                             ELSE walk[c].warmed

EntryRead(c, w, d, n, is) ==
  /\ walk' = [walk EXCEPT ![c] = w]
  /\ d \in Dirs
  /\ w.pending = IF is THEN Append(walk[c].pending, <<d, n>>) ELSE walk[c].pending
  /\ w.complete = walk[c].complete
  /\ w.path = walk[c].path
  /\ w.entries = walk[c].entries \ {d}
  /\ w.warmed = walk[c].warmed
  /\ walk[c].missed \subseteq w.missed
  /\ is \/ d \in w.missed

Unfinished(c, w) ==
  /\ walk' = [walk EXCEPT ![c] = w]
  /\ w.complete = FALSE
  /\ w.path = walk[c].path

Closed(c, w) ==
  /\ walk' = [walk EXCEPT ![c] = w]
  /\ w.pending = walk[c].pending
  /\ w.complete = walk[c].complete
  /\ w.path = walk[c].path
  /\ w.warmed = walk[c].warmed
  /\ w.missed = walk[c].missed \cup walk[c].entries

LEMMA NoWalkTyped == NoWalk \in Walks
BY DEF NoWalk, Walks

(* A walk starts with the root alone; *)
LEMMA StartsWith ==
  ASSUME IInv, NEW c \in Children, WalkStarts(c)
  PROVE  \E w \in Walks : Started(c, w)
<1>1. walk[c] \in Walks
  BY DEF IInv, TypeOK
<1>2. << <<Root(c), 0>> >> \in Seq(Dirs \X Nat)
  BY TreeAssumption DEF WalkStarts, Running, At, IInv, TypeOK, Holding, Walking, Root
<1>3. PICK w \in Walks : w = [walk[c] EXCEPT !.pending = << <<Root(c), 0>> >>]
  BY <1>1, <1>2 DEF Walks
<1>4. /\ w.pending = << <<Root(c), 0>> >>
      /\ w.complete = walk[c].complete
      /\ w.path = walk[c].path
      /\ w.warmed = walk[c].warmed
      /\ w.missed = walk[c].missed
  BY <1>1, <1>3 DEF Walks
<1>5. walk' = [walk EXCEPT ![c] = w]
  BY <1>3 DEF WalkStarts
<1> QED
  BY <1>4, <1>5 DEF Started

(* takes the last directory from the pending ones *)
LEMMA Pops ==
  ASSUME IInv, NEW c \in Children, Visit(c)
  PROVE  \E w \in Walks, next \in Dirs \X Nat, limit \in BOOLEAN, is \in BOOLEAN : Popped(c, w, next, limit, is)
<1> DEFINE last  == Len(walk[c].pending)
           top   == walk[c].pending[last]
           count == walk[c].visited + 1
           over  == count > MaxVisited \/ top[2] > MaxDepth
<1>1. /\ walk[c] \in Walks
      /\ walk[c].pending \in Seq(Dirs \X Nat)
      /\ walk[c].visited \in Nat
  BY DEF IInv, TypeOK, Walks
<1>2. walk[c].pending # <<>>
  BY DEF Visit
<1>3. last \in Nat \ {0} /\ top \in Dirs \X Nat
  BY <1>1, <1>2
<1>4. PICK rest : rest = SubSeq(walk[c].pending, 1, last - 1)
  OBVIOUS
<1>5. /\ rest \in Seq(Dirs \X Nat)
      /\ Len(rest) = last - 1
      /\ \A i \in 1..Len(rest) : rest[i] = walk[c].pending[i]
  BY <1>1, <1>3, <1>4
<1>6. PICK next \in Dirs \X Nat : next = top
  BY <1>3
<1>7. PICK limit \in BOOLEAN : limit = over
  OBVIOUS
<1>8. PICK n \in Nat : n = count
  BY <1>1
<1>9. PICK is \in Status(top[1]) :
        /\ walk' = [walk EXCEPT ![c].pending = SubSeq(@, 1, last - 1),
                                ![c].visited = count,
                                ![c].complete = ~over,
                                ![c].path = top,
                                ![c].missed = IF is \/ over THEN @ ELSE @ \cup {top[1]}]
        /\ pc' = [pc EXCEPT ![c] = IF over THEN "mark" ELSE IF is THEN "shelf" ELSE "walk"]
  BY DEF Visit, Goto
<1>10. is \in BOOLEAN
  BY DEF Status, Directory
<1>11. PICK hidden \in SUBSET Dirs :
         hidden = IF is \/ limit THEN walk[c].missed ELSE walk[c].missed \cup {next[1]}
  BY <1>1 DEF Walks
<1>12. PICK w \in Walks : w = [walk[c] EXCEPT !.pending = rest, !.visited = n,
                             !.complete = ~limit, !.path = next, !.missed = hidden]
  BY <1>1, <1>5 DEF Walks
<1>13. /\ w.pending = rest
       /\ w.complete = ~limit
       /\ w.path = next
       /\ w.warmed = walk[c].warmed
       /\ w.missed = hidden
  BY <1>1, <1>12 DEF Walks
<1>14. walk' = [walk EXCEPT ![c] = w]
  BY <1>4, <1>6, <1>7, <1>8, <1>9, <1>11, <1>12
<1>15. pc' = [pc EXCEPT ![c] = IF limit THEN "mark" ELSE IF is THEN "shelf" ELSE "walk"]
  BY <1>7, <1>9
<1>16. walk[c].missed \subseteq w.missed /\ (is \/ limit \/ next[1] \in w.missed)
  BY <1>11, <1>13
<1> QED
  BY <1>3, <1>5, <1>6, <1>10, <1>13, <1>14, <1>15, <1>16 DEF Popped

(* warms the shelf of a directory and open it *)
LEMMA Warms ==
  ASSUME IInv, NEW c \in Children, WarmShelf(c)
  PROVE  \E w \in Walks, d \in Dirs : Warmed(c, w, d)
<1>1. walk[c] \in Walks /\ walk[c].path \in Dirs \X Nat
  BY DEF IInv, TypeOK, Holding, WarmShelf, At, Walks
<1>2. PICK d \in Dirs : d = walk[c].path[1]
  BY <1>1
<1>3. PICK done \in SUBSET Dirs :
        done = IF d \in Enabled /\ ~stop[c] THEN walk[c].warmed \cup {d} ELSE walk[c].warmed
  BY <1>1 DEF Walks
<1>4. PICK found \in SUBSET Dirs :
        walk' = [walk EXCEPT ![c].warmed = IF d \in Enabled /\ ~stop[c] THEN @ \cup {d} ELSE @,
                             ![c].entries = found,
                             ![c].missed = @ \cup (Sub[d] \ found)]
  BY <1>2, TreeAssumption DEF WarmShelf
<1>5. PICK hidden \in SUBSET Dirs : hidden = walk[c].missed \cup (Sub[d] \ found)
  BY <1>1, TreeAssumption DEF Walks
<1>6. PICK w \in Walks : w = [walk[c] EXCEPT !.warmed = done, !.entries = found, !.missed = hidden]
  BY <1>1 DEF Walks
<1>7. /\ w.pending = walk[c].pending
      /\ w.complete = walk[c].complete
      /\ w.path = walk[c].path
      /\ w.entries = found
      /\ w.warmed = done
      /\ w.missed = hidden
  BY <1>1, <1>6 DEF Walks
<1>8. walk' = [walk EXCEPT ![c] = w]
  BY <1>3, <1>4, <1>5, <1>6
<1> QED
  BY <1>2, <1>3, <1>5, <1>7, <1>8 DEF Warmed

(* reads one entry of it *)
LEMMA Reads ==
  ASSUME IInv, NEW c \in Children, ReadEntry(c)
  PROVE  \E w \in Walks, d \in walk[c].entries, n \in Nat, is \in BOOLEAN :
           EntryRead(c, w, d, n, is)
<1>1. walk[c] \in Walks /\ walk[c].path \in Dirs \X Nat /\ walk[c].pending \in Seq(Dirs \X Nat)
  BY DEF IInv, TypeOK, Holding, ReadEntry, Running, At, Walks
<1>2. PICK d \in walk[c].entries : \E is \in Status(d) :
        walk' = [walk EXCEPT ![c].entries = @ \ {d},
                             ![c].pending = IF is THEN Append(@, <<d, walk[c].path[2] + 1>>) ELSE @,
                             ![c].missed = IF is THEN @ ELSE @ \cup {d}]
  BY DEF ReadEntry
<1>3. PICK is \in Status(d) :
        walk' = [walk EXCEPT ![c].entries = @ \ {d},
                             ![c].pending = IF is THEN Append(@, <<d, walk[c].path[2] + 1>>) ELSE @,
                             ![c].missed = IF is THEN @ ELSE @ \cup {d}]
  BY <1>2
<1>4. d \in Dirs /\ is \in BOOLEAN
  BY <1>1 DEF Walks, Status, Directory
<1>5. PICK n \in Nat : n = walk[c].path[2] + 1
  BY <1>1
<1>6. PICK more \in Seq(Dirs \X Nat) :
        more = IF is THEN Append(walk[c].pending, <<d, n>>) ELSE walk[c].pending
  <2>1. <<d, n>> \in Dirs \X Nat
    BY <1>4
  <2>2. Append(walk[c].pending, <<d, n>>) \in Seq(Dirs \X Nat)
    BY <1>1, <2>1
  <2> QED
    BY <1>1, <2>2
<1>7. PICK hidden \in SUBSET Dirs :
        hidden = IF is THEN walk[c].missed ELSE walk[c].missed \cup {d}
  BY <1>1, <1>4 DEF Walks
<1>8. PICK w \in Walks : w = [walk[c] EXCEPT !.entries = @ \ {d}, !.pending = more, !.missed = hidden]
  BY <1>1 DEF Walks
<1>9. /\ w.pending = more
      /\ w.complete = walk[c].complete
      /\ w.path = walk[c].path
      /\ w.entries = walk[c].entries \ {d}
      /\ w.warmed = walk[c].warmed
      /\ w.missed = hidden
  BY <1>1, <1>8 DEF Walks
<1>10. walk' = [walk EXCEPT ![c] = w]
  BY <1>3, <1>5, <1>6, <1>7, <1>8
<1> QED
  BY <1>4, <1>6, <1>7, <1>9, <1>10 DEF EntryRead

(* leaves it unfinished *)
LEMMA GivesUp ==
  ASSUME IInv, NEW c \in Children, TooManyEntries(c)
  PROVE  \E w \in Walks : Unfinished(c, w)
<1>1. walk[c] \in Walks
  BY DEF IInv, TypeOK
<1>2. FALSE \in BOOLEAN
  OBVIOUS
<1>3. PICK w \in Walks : w = [walk[c] EXCEPT !.complete = FALSE]
  BY <1>1, <1>2 DEF Walks
<1>4. w.complete = FALSE /\ w.path = walk[c].path
  BY <1>1, <1>3 DEF Walks
<1>5. walk' = [walk EXCEPT ![c] = w]
  BY <1>3 DEF TooManyEntries
<1> QED
  BY <1>4, <1>5 DEF Unfinished

(* or closes it. *)
LEMMA Closes ==
  ASSUME IInv, NEW c \in Children, ListEnds(c)
  PROVE  \E w \in Walks : Closed(c, w)
<1>1. walk[c] \in Walks
  BY DEF IInv, TypeOK
<1>2. {} \subseteq Dirs
  OBVIOUS
<1>3. PICK hidden \in SUBSET Dirs : hidden = walk[c].missed \cup walk[c].entries
  BY <1>1 DEF Walks
<1>4. PICK w \in Walks : w = [walk[c] EXCEPT !.entries = {}, !.missed = hidden]
  BY <1>1, <1>2 DEF Walks
<1>5. /\ w.pending = walk[c].pending
      /\ w.complete = walk[c].complete
      /\ w.path = walk[c].path
      /\ w.warmed = walk[c].warmed
      /\ w.missed = hidden
  BY <1>1, <1>4 DEF Walks
<1>6. walk' = [walk EXCEPT ![c] = w]
  BY <1>3, <1>4 DEF ListEnds
<1> QED
  BY <1>3, <1>5, <1>6 DEF Closed

-----------------------------------------------------------------------------
(* Type correctness. *)
LEMMA TypeStep ==
  ASSUME IInv, [Next]_vars
  PROVE  TypeOK'
<1> USE TreeAssumption, LimitsAssumption, NobodyAssumption, NoWalkTyped
      DEF IInv, TypeOK, Holding, Walking, Root, vars, server, files, At, Goto, Places,
          Generations, Unmarked
<1>1. ASSUME NEW c \in Children, Start(c) PROVE TypeOK'
  BY <1>1 DEF Start
<1>2. ASSUME NEW c \in Children, Stop(c) PROVE TypeOK'
  BY <1>2 DEF Stop, Alive
<1>3. ASSUME NEW c \in Children, Crash(c) PROVE TypeOK'
  BY <1>3 DEF Crash, ThreadEnds, ScopeEnds, Alive
<1>4. ASSUME NEW c \in Children, TaskStarts(c) PROVE TypeOK'
  BY <1>4 DEF TaskStarts, Running
<1>5. ASSUME NEW c \in Children, RunReturns(c) PROVE TypeOK'
  BY <1>5 DEF RunReturns, ThreadEnds, ScopeEnds
<1>6. ASSUME NEW c \in Children, RootSkipped(c) PROVE TypeOK'
  <2>1. task[c] <= Len(Roots)
    BY <1>6 DEF RootSkipped, TaskEnds, ScopeEnds, Running
  <2> QED
    BY <1>6, <2>1 DEF RootSkipped, TaskEnds, ScopeEnds, Running
<1>7. ASSUME NEW c \in Children, AlreadyWalked(c) PROVE TypeOK'
  BY <1>7 DEF AlreadyWalked, TaskEnds, ScopeEnds
<1>8. ASSUME NEW c \in Children, NotYetWalked(c) PROVE TypeOK'
  BY <1>8 DEF NotYetWalked, Running
<1>9. ASSUME NEW c \in Children, Elected(c) PROVE TypeOK'
  BY <1>9 DEF Elected
<1>10. ASSUME NEW c \in Children, Contended(c) PROVE TypeOK'
  BY <1>10 DEF Contended
<1>11. ASSUME NEW c \in Children, NotNeeded(c) PROVE TypeOK'
  BY <1>11 DEF NotNeeded, TaskEnds, ScopeEnds
<1>12. ASSUME NEW c \in Children, WalkStarts(c) PROVE TypeOK'
  <2>1. PICK w \in Walks : Started(c, w)
    BY <1>12, StartsWith
  <2>2. walk' \in [Children -> Walks]
    BY <2>1 DEF Started
  <2> QED
    BY <1>12, <2>2 DEF WalkStarts, Running
<1>13. ASSUME NEW c \in Children, Visit(c) PROVE TypeOK'
  <2>1. PICK w \in Walks, next \in Dirs \X Nat, limit \in BOOLEAN, is \in BOOLEAN : Popped(c, w, next, limit, is)
    BY <1>13, Pops
  <2>2. walk' \in [Children -> Walks]
    BY <2>1 DEF Popped
  <2> QED
    BY <1>13, <2>2 DEF Visit, Running
<1>14. ASSUME NEW c \in Children, WarmShelf(c) PROVE TypeOK'
  <2>1. PICK w \in Walks, d \in Dirs : Warmed(c, w, d)
    BY <1>14, Warms
  <2>2. walk' \in [Children -> Walks]
    BY <2>1 DEF Warmed
  <2> QED
    BY <1>14, <2>2 DEF WarmShelf
<1>15. ASSUME NEW c \in Children, Throws(c) PROVE TypeOK'
  BY <1>15 DEF Throws, ThreadEnds, ScopeEnds
<1>16. ASSUME NEW c \in Children, ReadEntry(c) PROVE TypeOK'
  <2>1. PICK w \in Walks, d \in walk[c].entries, n \in Nat, is \in BOOLEAN :
           EntryRead(c, w, d, n, is)
    BY <1>16, Reads
  <2>2. walk' \in [Children -> Walks]
    BY <2>1 DEF EntryRead
  <2> QED
    BY <1>16, <2>2 DEF ReadEntry, Running
<1>17. ASSUME NEW c \in Children, TooManyEntries(c) PROVE TypeOK'
  <2>1. PICK w \in Walks : Unfinished(c, w)
    BY <1>17, GivesUp
  <2>2. walk' \in [Children -> Walks]
    BY <2>1 DEF Unfinished
  <2> QED
    BY <1>17, <2>2 DEF TooManyEntries, Running
<1>18. ASSUME NEW c \in Children, ListEnds(c) PROVE TypeOK'
  <2>1. PICK w \in Walks : Closed(c, w)
    BY <1>18, Closes
  <2>2. walk' \in [Children -> Walks]
    BY <2>1 DEF Closed
  <2> QED
    BY <1>18, <2>2 DEF ListEnds
<1>19. ASSUME NEW c \in Children, WalkEnds(c) PROVE TypeOK'
  BY <1>19 DEF WalkEnds
<1>20. ASSUME NEW c \in Children, WalkStopped(c) PROVE TypeOK'
  BY <1>20 DEF WalkStopped, ThreadEnds, ScopeEnds
<1>21. ASSUME NEW c \in Children, Mark(c) PROVE TypeOK'
  BY <1>21 DEF Mark, TaskEnds, ScopeEnds, Running
<1>22. ASSUME NEW c \in Children, NoMark(c) PROVE TypeOK'
  BY <1>22 DEF NoMark, TaskEnds, ScopeEnds, Running
<1>23. CASE Reload
  BY <1>23 DEF Reload
<1>24. CASE Vanish
  BY <1>24 DEF Vanish
<1>25. CASE UNCHANGED vars
  BY <1>25
<1> QED
  BY <1>1, <1>2, <1>3, <1>4, <1>5, <1>6, <1>7, <1>8, <1>9, <1>10, <1>11, <1>12, <1>13, <1>14, <1>15, <1>16, <1>17, <1>18, <1>19, <1>20, <1>21, <1>22, <1>23, <1>24, <1>25 DEF Next, Run

-----------------------------------------------------------------------------
(* The lock is held throughout a walk. *)
LEMMA HoldingStep ==
  ASSUME IInv, [Next]_vars
  PROVE  Holding'
<1> USE TreeAssumption, LimitsAssumption, NobodyAssumption
      DEF IInv, TypeOK, Holding, Walking, Root, NoWalk, vars, server, files, At, Goto
<1>1. ASSUME NEW c \in Children, Start(c) PROVE Holding'
  BY <1>1 DEF Start
<1>2. ASSUME NEW c \in Children, Stop(c) PROVE Holding'
  BY <1>2 DEF Stop, Alive
<1>3. ASSUME NEW c \in Children, Crash(c) PROVE Holding'
  BY <1>3 DEF Crash, ThreadEnds, ScopeEnds, Alive
<1>4. ASSUME NEW c \in Children, TaskStarts(c) PROVE Holding'
  BY <1>4 DEF TaskStarts, Running
<1>5. ASSUME NEW c \in Children, RunReturns(c) PROVE Holding'
  BY <1>5 DEF RunReturns, ThreadEnds, ScopeEnds
<1>6. ASSUME NEW c \in Children, RootSkipped(c) PROVE Holding'
  BY <1>6 DEF RootSkipped, TaskEnds, ScopeEnds, Running
<1>7. ASSUME NEW c \in Children, AlreadyWalked(c) PROVE Holding'
  BY <1>7 DEF AlreadyWalked, TaskEnds, ScopeEnds
<1>8. ASSUME NEW c \in Children, NotYetWalked(c) PROVE Holding'
  BY <1>8 DEF NotYetWalked, Running
<1>9. ASSUME NEW c \in Children, Elected(c) PROVE Holding'
  BY <1>9 DEF Elected
<1>10. ASSUME NEW c \in Children, Contended(c) PROVE Holding'
  BY <1>10 DEF Contended
<1>11. ASSUME NEW c \in Children, NotNeeded(c) PROVE Holding'
  BY <1>11 DEF NotNeeded, TaskEnds, ScopeEnds
<1>12. ASSUME NEW c \in Children, WalkStarts(c) PROVE Holding'
  <2>1. PICK w \in Walks : Started(c, w)
    BY <1>12, StartsWith
  <2> QED
    BY <1>12, <2>1 DEF WalkStarts, Running, Started
<1>13. ASSUME NEW c \in Children, Visit(c) PROVE Holding'
  <2>1. PICK w \in Walks, next \in Dirs \X Nat, limit \in BOOLEAN, is \in BOOLEAN : Popped(c, w, next, limit, is)
    BY <1>13, Pops
  <2>2. pc[c] = "walk" /\ UNCHANGED <<lock, task>>
    BY <1>13 DEF Visit, Running
  <2>3. limit \/ w.complete
    BY <2>1 DEF Popped
  <2>4. next # None
    OBVIOUS
  <2>5. \A b \in Children : b # c => pc'[b] = pc[b] /\ walk'[b] = walk[b]
    BY <2>1 DEF Popped
  <2>6. /\ walk'[c] = w /\ w.path = next
        /\ limit => pc'[c] = "mark"
        /\ ~limit => pc'[c] \in {"shelf", "walk"}
    BY <2>1 DEF Popped
  <2> QED
    BY <2>2, <2>3, <2>4, <2>5, <2>6
<1>14. ASSUME NEW c \in Children, WarmShelf(c) PROVE Holding'
  <2>1. PICK w \in Walks, d \in Dirs : Warmed(c, w, d)
    BY <1>14, Warms
  <2> QED
    BY <1>14, <2>1 DEF WarmShelf, Warmed
<1>15. ASSUME NEW c \in Children, Throws(c) PROVE Holding'
  BY <1>15 DEF Throws, ThreadEnds, ScopeEnds
<1>16. ASSUME NEW c \in Children, ReadEntry(c) PROVE Holding'
  <2>1. PICK w \in Walks, d \in walk[c].entries, n \in Nat, is \in BOOLEAN :
           EntryRead(c, w, d, n, is)
    BY <1>16, Reads
  <2> QED
    BY <1>16, <2>1 DEF ReadEntry, Running, EntryRead
<1>17. ASSUME NEW c \in Children, TooManyEntries(c) PROVE Holding'
  <2>1. PICK w \in Walks : Unfinished(c, w)
    BY <1>17, GivesUp
  <2> QED
    BY <1>17, <2>1 DEF TooManyEntries, Running, Unfinished
<1>18. ASSUME NEW c \in Children, ListEnds(c) PROVE Holding'
  <2>1. PICK w \in Walks : Closed(c, w)
    BY <1>18, Closes
  <2> QED
    BY <1>18, <2>1 DEF ListEnds, Closed
<1>19. ASSUME NEW c \in Children, WalkEnds(c) PROVE Holding'
  BY <1>19 DEF WalkEnds
<1>20. ASSUME NEW c \in Children, WalkStopped(c) PROVE Holding'
  BY <1>20 DEF WalkStopped, ThreadEnds, ScopeEnds
<1>21. ASSUME NEW c \in Children, Mark(c) PROVE Holding'
  BY <1>21 DEF Mark, TaskEnds, ScopeEnds, Running
<1>22. ASSUME NEW c \in Children, NoMark(c) PROVE Holding'
  BY <1>22 DEF NoMark, TaskEnds, ScopeEnds, Running
<1>23. CASE Reload
  BY <1>23 DEF Reload
<1>24. CASE Vanish
  BY <1>24 DEF Vanish
<1>25. CASE UNCHANGED vars
  BY <1>25
<1> QED
  BY <1>1, <1>2, <1>3, <1>4, <1>5, <1>6, <1>7, <1>8, <1>9, <1>10, <1>11, <1>12, <1>13, <1>14, <1>15, <1>16, <1>17, <1>18, <1>19, <1>20, <1>21, <1>22, <1>23, <1>24, <1>25 DEF Next, Run

-----------------------------------------------------------------------------
(* Nobody else marks the tree meanwhile. *)
LEMMA UnrepeatedStep ==
  ASSUME IInv, [Next]_vars
  PROVE  Unrepeated'
<1> USE TreeAssumption, LimitsAssumption, NobodyAssumption
      DEF IInv, TypeOK, Holding, Unrepeated, NoRepeat, Walking, Root, MarkerDiffers,
          vars, server, files, At, Goto
<1>1. ASSUME NEW c \in Children, Start(c) PROVE Unrepeated'
  BY <1>1 DEF Start
<1>2. ASSUME NEW c \in Children, Stop(c) PROVE Unrepeated'
  BY <1>2 DEF Stop, Alive
<1>3. ASSUME NEW c \in Children, Crash(c) PROVE Unrepeated'
  BY <1>3 DEF Crash, ThreadEnds, ScopeEnds, Alive
<1>4. ASSUME NEW c \in Children, TaskStarts(c) PROVE Unrepeated'
  BY <1>4 DEF TaskStarts, Running
<1>5. ASSUME NEW c \in Children, RunReturns(c) PROVE Unrepeated'
  BY <1>5 DEF RunReturns, ThreadEnds, ScopeEnds
<1>6. ASSUME NEW c \in Children, RootSkipped(c) PROVE Unrepeated'
  BY <1>6 DEF RootSkipped, TaskEnds, ScopeEnds, Running
<1>7. ASSUME NEW c \in Children, AlreadyWalked(c) PROVE Unrepeated'
  BY <1>7 DEF AlreadyWalked, TaskEnds, ScopeEnds
<1>8. ASSUME NEW c \in Children, NotYetWalked(c) PROVE Unrepeated'
  BY <1>8 DEF NotYetWalked, Running
<1>9. ASSUME NEW c \in Children, Elected(c) PROVE Unrepeated'
  BY <1>9 DEF Elected
<1>10. ASSUME NEW c \in Children, Contended(c) PROVE Unrepeated'
  BY <1>10 DEF Contended
<1>11. ASSUME NEW c \in Children, NotNeeded(c) PROVE Unrepeated'
  BY <1>11 DEF NotNeeded, TaskEnds, ScopeEnds
<1>12. ASSUME NEW c \in Children, WalkStarts(c) PROVE Unrepeated'
  BY <1>12 DEF WalkStarts, Running
<1>13. ASSUME NEW c \in Children, Visit(c) PROVE Unrepeated'
  <2>1. PICK w \in Walks, next \in Dirs \X Nat, limit \in BOOLEAN, is \in BOOLEAN : Popped(c, w, next, limit, is)
    BY <1>13, Pops
  <2>2. pc[c] = "walk"
    BY <1>13 DEF Visit, Running
  <2>3. \A d \in Children : pc'[d] \in {"walk", "shelf", "list", "mark"} =>
                              pc[d] \in {"walk", "shelf", "list", "mark"}
    BY <2>1, <2>2 DEF Popped
  <2> QED
    BY <1>13, <2>3 DEF Visit
<1>14. ASSUME NEW c \in Children, WarmShelf(c) PROVE Unrepeated'
  BY <1>14 DEF WarmShelf
<1>15. ASSUME NEW c \in Children, Throws(c) PROVE Unrepeated'
  BY <1>15 DEF Throws, ThreadEnds, ScopeEnds
<1>16. ASSUME NEW c \in Children, ReadEntry(c) PROVE Unrepeated'
  BY <1>16 DEF ReadEntry, Running
<1>17. ASSUME NEW c \in Children, TooManyEntries(c) PROVE Unrepeated'
  BY <1>17 DEF TooManyEntries, Running
<1>18. ASSUME NEW c \in Children, ListEnds(c) PROVE Unrepeated'
  BY <1>18 DEF ListEnds
<1>19. ASSUME NEW c \in Children, WalkEnds(c) PROVE Unrepeated'
  BY <1>19 DEF WalkEnds
<1>20. ASSUME NEW c \in Children, WalkStopped(c) PROVE Unrepeated'
  BY <1>20 DEF WalkStopped, ThreadEnds, ScopeEnds
<1>21. ASSUME NEW c \in Children, Mark(c) PROVE Unrepeated'
  BY <1>21 DEF Mark, TaskEnds, ScopeEnds, Running
<1>22. ASSUME NEW c \in Children, NoMark(c) PROVE Unrepeated'
  BY <1>22 DEF NoMark, TaskEnds, ScopeEnds, Running
<1>23. CASE Reload
  BY <1>23 DEF Reload
<1>24. CASE Vanish
  BY <1>24 DEF Vanish
<1>25. CASE UNCHANGED vars
  BY <1>25
<1> QED
  BY <1>1, <1>2, <1>3, <1>4, <1>5, <1>6, <1>7, <1>8, <1>9, <1>10, <1>11, <1>12, <1>13, <1>14, <1>15, <1>16, <1>17, <1>18, <1>19, <1>20, <1>21, <1>22, <1>23, <1>24, <1>25 DEF Next, Run

-----------------------------------------------------------------------------
(* Whatever a step of a walk takes from the directories ahead is replaced. *)
LEMMA EarnedFrame ==
  ASSUME IInv, NEW c \in Children,
         pc'[c] = pc[c], walk'[c] = walk[c], task'[c] = task[c], stop'[c] = stop[c]
  PROVE  EarnedBy(c)'
<1>1. Ahead(c)' = Ahead(c) /\ Hidden(c)' = Hidden(c) /\ Root(c)' = Root(c)
  BY DEF Ahead, Hidden, Root
<1>2. Covered(c) => Covered(c)'
  BY <1>1 DEF Covered
<1> QED
  BY <1>2 DEF IInv, Earned, EarnedBy, Searching

(* A step that does with the directories in D, and loses sight of nothing  *)
(* else, keeps the tree covered.                                           *)
LEMMA Carried ==
  ASSUME NEW c \in Children, Covered(c), Root(c)' = Root(c), NEW D \in SUBSET Dirs,
         D \cap Enabled \subseteq walk'[c].warmed,
         walk[c].warmed \subseteq walk'[c].warmed,
         walk[c].missed \subseteq walk'[c].missed,
         \A e \in Ahead(c) : e \in D \cup Ahead(c)' \cup Hidden(c)',
         \A e \in D : Sub[e] \subseteq D \cup Ahead(c)' \cup Hidden(c)'
  PROVE  Covered(c)'
<1>1. PICK S \in SUBSET Dirs :
        /\ Root(c) \in S \cup Ahead(c) \cup Hidden(c)
        /\ S \cap Enabled \subseteq walk[c].warmed
        /\ \A e \in S : Sub[e] \subseteq S \cup Ahead(c) \cup Hidden(c)
  BY DEF Covered
<1> DEFINE T == S \cup D
<1>2. T \in SUBSET Dirs /\ T \cap Enabled \subseteq walk'[c].warmed
  BY <1>1
<1>3. S \cup Ahead(c) \cup Hidden(c) \subseteq T \cup Ahead(c)' \cup Hidden(c)'
  BY DEF Hidden
<1>4. Root(c)' \in T \cup Ahead(c)' \cup Hidden(c)'
  BY <1>1, <1>3
<1>5. \A e \in T : Sub[e] \subseteq T \cup Ahead(c)' \cup Hidden(c)'
  BY <1>1, <1>3
<1> HIDE DEF T
<1> QED
  BY <1>2, <1>4, <1>5 DEF Covered

LEMMA NotSearching ==
  ASSUME NEW c \in Children, pc'[c] \notin Searching
  PROVE  EarnedBy(c)'
BY DEF EarnedBy

LEMMA EarnedStep ==
  ASSUME IInv, [Next]_vars
  PROVE  Earned'
<1>1. ASSUME NEW c \in Children, Start(c) PROVE Earned'
  <2>1. /\ pc'[c] \notin Searching
        /\ \A b \in Children : b # c => /\ pc'[b] = pc[b] /\ walk'[b] = walk[b]
                                       /\ task'[b] = task[b] /\ stop'[b] = stop[b]
    BY <1>1 DEF Start, Searching, vars, server, files, At, Goto, IInv, TypeOK
  <2> QED
    BY <2>1, EarnedFrame, NotSearching DEF Earned
<1>2. ASSUME NEW c \in Children, Stop(c) PROVE Earned'
  <2>1. stop'[c] /\ UNCHANGED <<pc, task, walk>> /\ \A b \in Children : b # c => stop'[b] = stop[b]
    BY <1>2 DEF Stop, server, IInv, TypeOK
  <2>2. \A b \in Children : b # c => EarnedBy(b)'
    BY <2>1, EarnedFrame
  <2> QED
    BY <2>1, <2>2 DEF Earned, EarnedBy
<1>3. ASSUME NEW c \in Children, Crash(c) PROVE Earned'
  <2>1. /\ pc'[c] \notin Searching
        /\ \A b \in Children : b # c => /\ pc'[b] = pc[b] /\ walk'[b] = walk[b]
                                       /\ task'[b] = task[b] /\ stop'[b] = stop[b]
    BY <1>3 DEF Crash, ThreadEnds, ScopeEnds, Alive, Searching, vars, server, files, At, Goto, IInv, TypeOK
  <2> QED
    BY <2>1, EarnedFrame, NotSearching DEF Earned
<1>4. ASSUME NEW c \in Children, TaskStarts(c) PROVE Earned'
  <2>1. /\ pc'[c] \notin Searching
        /\ \A b \in Children : b # c => /\ pc'[b] = pc[b] /\ walk'[b] = walk[b]
                                       /\ task'[b] = task[b] /\ stop'[b] = stop[b]
    BY <1>4 DEF TaskStarts, Running, Searching, vars, server, files, At, Goto, IInv, TypeOK
  <2> QED
    BY <2>1, EarnedFrame, NotSearching DEF Earned
<1>5. ASSUME NEW c \in Children, RunReturns(c) PROVE Earned'
  <2>1. /\ pc'[c] \notin Searching
        /\ \A b \in Children : b # c => /\ pc'[b] = pc[b] /\ walk'[b] = walk[b]
                                       /\ task'[b] = task[b] /\ stop'[b] = stop[b]
    BY <1>5 DEF RunReturns, ThreadEnds, ScopeEnds, Searching, vars, server, files, At, Goto, IInv, TypeOK
  <2> QED
    BY <2>1, EarnedFrame, NotSearching DEF Earned
<1>6. ASSUME NEW c \in Children, RootSkipped(c) PROVE Earned'
  <2>1. /\ pc'[c] \notin Searching
        /\ \A b \in Children : b # c => /\ pc'[b] = pc[b] /\ walk'[b] = walk[b]
                                       /\ task'[b] = task[b] /\ stop'[b] = stop[b]
    BY <1>6 DEF RootSkipped, TaskEnds, ScopeEnds, Running, Searching, vars, server, files, At, Goto, IInv, TypeOK
  <2> QED
    BY <2>1, EarnedFrame, NotSearching DEF Earned
<1>7. ASSUME NEW c \in Children, AlreadyWalked(c) PROVE Earned'
  <2>1. /\ pc'[c] \notin Searching
        /\ \A b \in Children : b # c => /\ pc'[b] = pc[b] /\ walk'[b] = walk[b]
                                       /\ task'[b] = task[b] /\ stop'[b] = stop[b]
    BY <1>7 DEF AlreadyWalked, TaskEnds, ScopeEnds, Searching, vars, server, files, At, Goto, IInv, TypeOK
  <2> QED
    BY <2>1, EarnedFrame, NotSearching DEF Earned
<1>8. ASSUME NEW c \in Children, NotYetWalked(c) PROVE Earned'
  <2>1. /\ pc'[c] \notin Searching
        /\ \A b \in Children : b # c => /\ pc'[b] = pc[b] /\ walk'[b] = walk[b]
                                       /\ task'[b] = task[b] /\ stop'[b] = stop[b]
    BY <1>8 DEF NotYetWalked, Running, Searching, vars, server, files, At, Goto, IInv, TypeOK
  <2> QED
    BY <2>1, EarnedFrame, NotSearching DEF Earned
<1>9. ASSUME NEW c \in Children, Elected(c) PROVE Earned'
  <2>1. /\ pc'[c] \notin Searching
        /\ \A b \in Children : b # c => /\ pc'[b] = pc[b] /\ walk'[b] = walk[b]
                                       /\ task'[b] = task[b] /\ stop'[b] = stop[b]
    BY <1>9 DEF Elected, Searching, vars, server, files, At, Goto, IInv, TypeOK
  <2> QED
    BY <2>1, EarnedFrame, NotSearching DEF Earned
<1>10. ASSUME NEW c \in Children, Contended(c) PROVE Earned'
  <2>1. /\ pc'[c] \notin Searching
        /\ \A b \in Children : b # c => /\ pc'[b] = pc[b] /\ walk'[b] = walk[b]
                                       /\ task'[b] = task[b] /\ stop'[b] = stop[b]
    BY <1>10 DEF Contended, Searching, vars, server, files, At, Goto, IInv, TypeOK
  <2> QED
    BY <2>1, EarnedFrame, NotSearching DEF Earned
<1>11. ASSUME NEW c \in Children, NotNeeded(c) PROVE Earned'
  <2>1. /\ pc'[c] \notin Searching
        /\ \A b \in Children : b # c => /\ pc'[b] = pc[b] /\ walk'[b] = walk[b]
                                       /\ task'[b] = task[b] /\ stop'[b] = stop[b]
    BY <1>11 DEF NotNeeded, TaskEnds, ScopeEnds, Searching, vars, server, files, At, Goto, IInv, TypeOK
  <2> QED
    BY <2>1, EarnedFrame, NotSearching DEF Earned
<1>12. ASSUME NEW c \in Children, WalkStarts(c) PROVE Earned'
  <2>1. PICK w \in Walks : Started(c, w)
    BY <1>12, StartsWith
  <2>2. walk' = [walk EXCEPT ![c] = w] /\ walk \in [Children -> Walks]
    BY <2>1 DEF Started, IInv, TypeOK
  <2>3. /\ Root(c)' = Root(c) /\ stop'[c] = stop[c]
        /\ \A b \in Children : b # c => EarnedBy(b)'
    <3>1. UNCHANGED <<stop, task>> /\ \A b \in Children : b # c => pc'[b] = pc[b]
      BY <1>12 DEF WalkStarts, Running, vars, server, files, At, Goto
    <3> QED
      BY <2>2, <3>1, EarnedFrame DEF Root
  <2>4. walk'[c].pending = << <<Root(c), 0>> >> /\ pc'[c] = "walk"
    BY <1>12, <2>1, <2>2 DEF WalkStarts, Started, Goto, IInv, TypeOK
  <2>5. Root(c) \in Ahead(c)'
    <3>1. 1 \in 1..Len(walk'[c].pending) /\ walk'[c].pending[1][1] = Root(c)
      BY <2>4
    <3> QED
      BY <3>1 DEF Ahead
  <2>6. Covered(c)'
    <3>1. {} \in SUBSET Dirs
      OBVIOUS
    <3> QED
      BY <2>3, <2>5, <3>1 DEF Covered
  <2>7. EarnedBy(c)'
    BY <2>4, <2>6 DEF EarnedBy
  <2> QED
    BY <2>3, <2>7 DEF Earned
<1>13. ASSUME NEW c \in Children, Visit(c) PROVE Earned'
  <2>1. PICK w \in Walks, next \in Dirs \X Nat, limit \in BOOLEAN, is \in BOOLEAN : Popped(c, w, next, limit, is)
    BY <1>13, Pops
  <2>2. walk' = [walk EXCEPT ![c] = w] /\ walk \in [Children -> Walks]
    BY <2>1 DEF Popped, IInv, TypeOK
  <2>3. /\ Root(c)' = Root(c) /\ stop'[c] = stop[c]
        /\ \A b \in Children : b # c => EarnedBy(b)'
    <3>1. UNCHANGED <<stop, task>> /\ \A b \in Children : b # c => pc'[b] = pc[b]
      BY <1>13 DEF Visit, Running, vars, server, files, At, Goto
    <3> QED
      BY <2>2, <3>1, EarnedFrame DEF Root
  <2>4. EarnedBy(c)'
    <3>1. SUFFICES ASSUME ~limit, ~stop[c] PROVE EarnedBy(c)'
      BY <2>1, <2>2, <2>3 DEF EarnedBy, Popped
    <3>2. /\ pc[c] = "walk"
          /\ walk'[c] = w
          /\ pc'[c] = IF is THEN "shelf" ELSE "walk"
      BY <1>13, <2>1, <2>2, <3>1 DEF Visit, Popped, Running, At, IInv, TypeOK
    <3>3. Covered(c)
      BY <3>1, <3>2 DEF IInv, Holding, Earned, EarnedBy, Searching
    <3>4. is => next[1] \in Ahead(c)'
      BY <2>1, <3>2 DEF Ahead, Popped
    <3>5. ~is => next[1] \in Hidden(c)'
      BY <2>1, <3>1, <3>2 DEF Hidden, Popped
    <3>6. ASSUME NEW e \in Ahead(c) PROVE e \in Ahead(c)' \cup Hidden(c)'
      <4>1. PICK i \in 1..Len(walk[c].pending) : e = walk[c].pending[i][1]
        BY <3>2 DEF Ahead
      <4>2. CASE i = Len(walk[c].pending)
        BY <2>1, <3>4, <3>5, <4>1, <4>2 DEF Popped
      <4>3. CASE i # Len(walk[c].pending)
        <5>1. i \in 1..Len(w.pending) /\ w.pending[i] = walk[c].pending[i]
          BY <2>1, <4>3 DEF Popped
        <5> QED
          BY <3>2, <4>1, <5>1 DEF Ahead
      <4> QED
        BY <4>2, <4>3
    <3>7. walk'[c].warmed = walk[c].warmed /\ walk[c].missed \subseteq walk'[c].missed
      BY <2>1, <3>2 DEF Popped
    <3>8. {} \in SUBSET Dirs
      OBVIOUS
    <3>9. Covered(c)'
      BY <2>3, <3>3, <3>6, <3>7, <3>8, Carried
    <3> QED
      BY <3>2, <3>9 DEF EarnedBy
  <2> QED
    BY <2>3, <2>4 DEF Earned
<1>14. ASSUME NEW c \in Children, WarmShelf(c) PROVE Earned'
  <2>1. PICK w \in Walks, d \in Dirs : Warmed(c, w, d)
    BY <1>14, Warms
  <2>2. walk' = [walk EXCEPT ![c] = w] /\ walk \in [Children -> Walks]
    BY <2>1 DEF Warmed, IInv, TypeOK
  <2>3. /\ Root(c)' = Root(c) /\ stop'[c] = stop[c]
        /\ \A b \in Children : b # c => EarnedBy(b)'
    <3>1. UNCHANGED <<stop, task>> /\ \A b \in Children : b # c => pc'[b] = pc[b]
      BY <1>14 DEF WarmShelf, vars, server, files, At, Goto
    <3> QED
      BY <2>2, <3>1, EarnedFrame DEF Root
  <2>4. EarnedBy(c)'
    <3>1. /\ pc[c] = "shelf" /\ pc'[c] = "list"
          /\ walk'[c] = w
          /\ walk[c].path[1] = d /\ walk[c].path[1] \in Dirs
      BY <1>14, <2>1, <2>2 DEF WarmShelf, Warmed, At, Goto, IInv, TypeOK
    <3>2. SUFFICES ASSUME ~stop[c] PROVE EarnedBy(c)'
      BY <2>3 DEF EarnedBy
    <3>3. Covered(c)
      BY <3>1, <3>2 DEF IInv, Holding, Earned, EarnedBy, Searching
    <3>4. \A e \in Sub[d] : e \in Ahead(c)' \cup Hidden(c)'
      BY <2>1, <3>1 DEF Ahead, Hidden, Warmed
    <3>5. \A e \in Ahead(c) : e \in {d} \cup Ahead(c)'
      BY <2>1, <3>1 DEF Ahead, Warmed
    <3>6. /\ {d} \cap Enabled \subseteq walk'[c].warmed
          /\ walk[c].warmed \subseteq walk'[c].warmed
          /\ walk[c].missed \subseteq walk'[c].missed
      BY <2>1, <3>1, <3>2 DEF Warmed
    <3>7. {d} \in SUBSET Dirs
      OBVIOUS
    <3>8. Covered(c)'
      BY <2>3, <3>3, <3>4, <3>5, <3>6, <3>7, Carried
    <3> QED
      BY <3>1, <3>8 DEF EarnedBy
  <2> QED
    BY <2>3, <2>4 DEF Earned
<1>15. ASSUME NEW c \in Children, Throws(c) PROVE Earned'
  <2>1. /\ pc'[c] \notin Searching
        /\ \A b \in Children : b # c => /\ pc'[b] = pc[b] /\ walk'[b] = walk[b]
                                       /\ task'[b] = task[b] /\ stop'[b] = stop[b]
    BY <1>15 DEF Throws, ThreadEnds, ScopeEnds, Searching, vars, server, files, At, Goto, IInv, TypeOK
  <2> QED
    BY <2>1, EarnedFrame, NotSearching DEF Earned
<1>16. ASSUME NEW c \in Children, ReadEntry(c) PROVE Earned'
  <2>1. PICK w \in Walks, d \in walk[c].entries, n \in Nat, is \in BOOLEAN :
           EntryRead(c, w, d, n, is)
    BY <1>16, Reads
  <2>2. walk' = [walk EXCEPT ![c] = w] /\ walk \in [Children -> Walks]
    BY <2>1 DEF EntryRead, IInv, TypeOK
  <2>3. /\ Root(c)' = Root(c) /\ stop'[c] = stop[c]
        /\ \A b \in Children : b # c => EarnedBy(b)'
    <3>1. UNCHANGED <<stop, task>> /\ \A b \in Children : b # c => pc'[b] = pc[b]
      BY <1>16 DEF ReadEntry, Running, vars, server, files, At, Goto
    <3> QED
      BY <2>2, <3>1, EarnedFrame DEF Root
  <2>4. EarnedBy(c)'
    <3>1. /\ pc[c] = "list" /\ pc'[c] = "list"
          /\ walk'[c] = w
          /\ walk[c].pending \in Seq(Dirs \X Nat)
      BY <1>16, <2>1, <2>2 DEF ReadEntry, EntryRead, Running, At, IInv, TypeOK, Walks
    <3>2. SUFFICES ASSUME ~stop[c] PROVE EarnedBy(c)'
      BY <2>3 DEF EarnedBy
    <3>3. Covered(c)
      BY <3>1, <3>2 DEF IInv, Holding, Earned, EarnedBy, Searching
    <3>4. is => d \in Ahead(c)'
      <4>1. SUFFICES ASSUME is PROVE d \in Ahead(c)'
        OBVIOUS
      <4>2. w.pending = Append(walk[c].pending, <<d, n>>)
        BY <2>1, <4>1 DEF EntryRead
      <4>3. /\ Len(w.pending) = Len(walk[c].pending) + 1
            /\ w.pending[Len(w.pending)] = <<d, n>>
        BY <3>1, <4>2
      <4>4. Len(w.pending) \in 1..Len(w.pending) /\ w.pending[Len(w.pending)][1] = d
        BY <3>1, <4>3
      <4> QED
        BY <3>1, <4>4 DEF Ahead
    <3>5. ~is => d \in Hidden(c)'
      BY <2>1, <3>1 DEF Hidden, EntryRead
    <3>6. ASSUME NEW e \in Ahead(c) PROVE e \in Ahead(c)' \cup Hidden(c)'
      <4>1. CASE e \in walk[c].entries
        BY <2>1, <3>1, <3>4, <3>5, <4>1 DEF Ahead, EntryRead
      <4>2. ASSUME NEW i \in 1..Len(walk[c].pending), e = walk[c].pending[i][1]
            PROVE  e \in Ahead(c)'
        <5>1. i \in 1..Len(w.pending) /\ w.pending[i] = walk[c].pending[i]
          BY <2>1, <3>1 DEF EntryRead
        <5> QED
          BY <3>1, <4>2, <5>1 DEF Ahead
      <4> QED
        BY <3>1, <4>1, <4>2 DEF Ahead
    <3>7. walk'[c].warmed = walk[c].warmed /\ walk[c].missed \subseteq walk'[c].missed
      BY <2>1, <3>1 DEF EntryRead
    <3>8. {} \in SUBSET Dirs
      OBVIOUS
    <3>9. Covered(c)'
      BY <2>3, <3>3, <3>6, <3>7, <3>8, Carried
    <3> QED
      BY <3>1, <3>9 DEF EarnedBy
  <2> QED
    BY <2>3, <2>4 DEF Earned
<1>17. ASSUME NEW c \in Children, TooManyEntries(c) PROVE Earned'
  <2>1. PICK w \in Walks : Unfinished(c, w)
    BY <1>17, GivesUp
  <2>2. ~walk'[c].complete
    BY <2>1 DEF Unfinished, IInv, TypeOK
  <2>3. ASSUME NEW b \in Children, b # c PROVE EarnedBy(b)'
    <3>1. UNCHANGED <<stop, task>> /\ pc'[b] = pc[b] /\ walk'[b] = walk[b]
      BY <1>17, <2>1, <2>3 DEF TooManyEntries, Unfinished, Goto, server
    <3> QED
      BY <3>1, EarnedFrame
  <2> QED
    BY <2>2, <2>3 DEF Earned, EarnedBy
<1>18. ASSUME NEW c \in Children, ListEnds(c) PROVE Earned'
  <2>1. PICK w \in Walks : Closed(c, w)
    BY <1>18, Closes
  <2>2. walk' = [walk EXCEPT ![c] = w] /\ walk \in [Children -> Walks]
    BY <2>1 DEF Closed, IInv, TypeOK
  <2>3. /\ Root(c)' = Root(c) /\ stop'[c] = stop[c]
        /\ \A b \in Children : b # c => EarnedBy(b)'
    <3>1. UNCHANGED <<stop, task>> /\ \A b \in Children : b # c => pc'[b] = pc[b]
      BY <1>18 DEF ListEnds, vars, server, files, At, Goto
    <3> QED
      BY <2>2, <3>1, EarnedFrame DEF Root
  <2>4. EarnedBy(c)'
    <3>1. /\ pc[c] = "list" /\ pc'[c] = "walk"
          /\ walk'[c] = w
      BY <1>18, <2>1, <2>2 DEF ListEnds, Closed, At, Goto, IInv, TypeOK
    <3>2. SUFFICES ASSUME ~stop[c] PROVE EarnedBy(c)'
      BY <2>3 DEF EarnedBy
    <3>3. Covered(c)
      BY <3>1, <3>2 DEF IInv, Holding, Earned, EarnedBy, Searching
    <3>4. \A e \in Ahead(c) : e \in Ahead(c)' \cup Hidden(c)'
      BY <2>1, <3>1 DEF Ahead, Hidden, Closed
    <3>5. walk'[c].warmed = walk[c].warmed /\ walk[c].missed \subseteq walk'[c].missed
      BY <2>1, <3>1 DEF Closed
    <3>6. {} \in SUBSET Dirs
      OBVIOUS
    <3>7. Covered(c)'
      BY <2>3, <3>3, <3>4, <3>5, <3>6, Carried
    <3> QED
      BY <3>1, <3>7 DEF EarnedBy
  <2> QED
    BY <2>3, <2>4 DEF Earned
<1>19. ASSUME NEW c \in Children, WalkEnds(c) PROVE Earned'
  <2>1. UNCHANGED <<stop, task, walk>> /\ pc' = [pc EXCEPT ![c] = "mark"] /\ pc[c] = "walk"
    BY <1>19 DEF WalkEnds, At, Goto, server
  <2>2. ASSUME NEW b \in Children, b # c PROVE EarnedBy(b)'
    BY <2>1, <2>2, EarnedFrame
  <2>3. ~stop[c] => walk[c].pending = <<>>
    BY <1>19 DEF WalkEnds
  <2>4. pc'[c] = "mark"
    BY <2>1 DEF IInv, TypeOK
  <2>5. Ahead(c)' = Ahead(c) /\ Hidden(c)' = Hidden(c) /\ Root(c)' = Root(c)
    BY <2>1, <2>4 DEF Ahead, Hidden, Root
  <2>6. Covered(c) => Covered(c)'
    BY <2>1, <2>5 DEF Covered
  <2>7. EarnedBy(c)'
    BY <2>1, <2>3, <2>4, <2>6 DEF IInv, Earned, EarnedBy, Searching
  <2> QED
    BY <2>2, <2>7 DEF Earned
<1>20. ASSUME NEW c \in Children, WalkStopped(c) PROVE Earned'
  <2>1. /\ pc'[c] \notin Searching
        /\ \A b \in Children : b # c => /\ pc'[b] = pc[b] /\ walk'[b] = walk[b]
                                       /\ task'[b] = task[b] /\ stop'[b] = stop[b]
    BY <1>20 DEF WalkStopped, ThreadEnds, ScopeEnds, Searching, vars, server, files, At, Goto, IInv, TypeOK
  <2> QED
    BY <2>1, EarnedFrame, NotSearching DEF Earned
<1>21. ASSUME NEW c \in Children, Mark(c) PROVE Earned'
  <2>1. /\ pc'[c] \notin Searching
        /\ \A b \in Children : b # c => /\ pc'[b] = pc[b] /\ walk'[b] = walk[b]
                                       /\ task'[b] = task[b] /\ stop'[b] = stop[b]
    BY <1>21 DEF Mark, TaskEnds, ScopeEnds, Running, Searching, vars, server, files, At, Goto, IInv, TypeOK
  <2> QED
    BY <2>1, EarnedFrame, NotSearching DEF Earned
<1>22. ASSUME NEW c \in Children, NoMark(c) PROVE Earned'
  <2>1. /\ pc'[c] \notin Searching
        /\ \A b \in Children : b # c => /\ pc'[b] = pc[b] /\ walk'[b] = walk[b]
                                       /\ task'[b] = task[b] /\ stop'[b] = stop[b]
    BY <1>22 DEF NoMark, TaskEnds, ScopeEnds, Running, Searching, vars, server, files, At, Goto, IInv, TypeOK
  <2> QED
    BY <2>1, EarnedFrame, NotSearching DEF Earned
<1>23. CASE Reload
  BY <1>23, EarnedFrame DEF Reload, vars, server, files, At, Goto, Earned
<1>24. CASE Vanish
  BY <1>24, EarnedFrame DEF Vanish, vars, server, files, At, Goto, Earned
<1>25. CASE UNCHANGED vars
  BY <1>25, EarnedFrame DEF vars, server, files, At, Goto, Earned
<1> QED
  BY <1>1, <1>2, <1>3, <1>4, <1>5, <1>6, <1>7, <1>8, <1>9, <1>10, <1>11, <1>12, <1>13, <1>14, <1>15, <1>16, <1>17, <1>18, <1>19, <1>20, <1>21, <1>22, <1>23, <1>24, <1>25 DEF Next, Run

-----------------------------------------------------------------------------
LEMMA Initially == Init => IInv
BY LimitsAssumption, NobodyAssumption, NoWalkTyped
   DEF Init, IInv, TypeOK, Holding, Unrepeated, NoRepeat, Earned, EarnedBy, Searching,
       Walking, NoWalk, Places, Generations, Unmarked

LEMMA Inductive == IInv /\ [Next]_vars => IInv'
<1> SUFFICES ASSUME IInv, [Next]_vars PROVE IInv'
  OBVIOUS
<1> QED
  BY TypeStep, HoldingStep, UnrepeatedStep, EarnedStep DEF IInv

LEMMA Invariance == Spec => []IInv
BY Initially, Inductive, PTL DEF Spec

(* Type correctness of the warmers.                                        *)
THEOREM Typed == Spec => []TypeOK
BY Invariance, PTL DEF IInv

(* index_warming.cpp:173: the lock file of a tree keeps every other child, *)
(* of whatever generation, out of its walk.                                *)
THEOREM WalksAlone == Spec => []OneWalker
<1>1. IInv => OneWalker
  BY NobodyAssumption DEF IInv, Holding, OneWalker
<1> QED
  BY <1>1, Invariance, PTL

(* index_warming.cpp:185: unless a marker cannot be read, nobody walks a   *)
(* tree that is marked for its own generation.                             *)
THEOREM NeverRepeats == Spec => [](Fault("store") \/ NoRepeat)
BY Invariance, PTL DEF IInv, Unrepeated

(* A walk with nothing ahead of it has done with every directory that is   *)
(* not hidden.                                                             *)
LEMMA CoveredAll ==
  ASSUME NEW c \in Children, Root(c) \in Dirs, Covered(c), Ahead(c) = {}
  PROVE  Under(Root(c), walk[c].missed) \cap Enabled \subseteq walk[c].warmed
<1>1. PICK S \in SUBSET Dirs :
        /\ Root(c) \in S \cup Hidden(c)
        /\ S \cap Enabled \subseteq walk[c].warmed
        /\ \A e \in S : Sub[e] \subseteq S \cup Hidden(c)
  BY DEF Covered
<1> DEFINE T == S \cup (Dirs \cap Hidden(c))
<1>2. T \in SUBSET Dirs /\ Root(c) \in T
  BY <1>1
<1>3. ASSUME NEW e \in T \ Hidden(c) PROVE Sub[e] \subseteq T
  <2>1. e \in S /\ Sub[e] \subseteq Dirs
    BY TreeAssumption
  <2> QED
    BY <1>1, <2>1
<1> HIDE DEF T
<1>4. Under(Root(c), walk[c].missed) \subseteq T \ Hidden(c)
  BY <1>2, <1>3 DEF Under, Hidden
<1> USE DEF T
<1> QED
  BY <1>1, <1>4

(* index_warming.cpp:227-228: a marker stands for a walk of the whole tree *)
(* but for what was gone or hidden by an error when the walk came by.      *)
THEOREM MarkersStandForWalks == Spec => MarkersAreEarned
<1>1. ASSUME IInv, [Next]_vars, NEW c \in Children, Marks(c)
      PROVE  Under(Root(c), walk[c].missed) \cap Enabled \subseteq walk[c].warmed
  <2>1. pc[c] = "mark" /\ pc'[c] = "task" /\ marker' # marker
    BY <1>1 DEF Marks, At
  <2>2. PICK b \in Children : Mark(b)
    BY <1>1, <2>1 DEF Next, Run, vars, server, files, Start, Stop, Crash, Reload, Vanish,
       TaskStarts, RunReturns, RootSkipped, AlreadyWalked, NotYetWalked, Elected, Contended,
       NotNeeded, WalkStarts, Visit, WarmShelf, Throws, ReadEntry, TooManyEntries, ListEnds,
       WalkEnds, WalkStopped, NoMark, ThreadEnds
  <2>3. b = c
    BY <1>1, <2>1, <2>2 DEF Mark, TaskEnds, Goto, IInv, TypeOK
  <2>4. ~stop[c] /\ walk[c].complete
    BY <2>2, <2>3 DEF Mark, Running
  <2>5. Covered(c) /\ walk[c].pending = <<>>
    BY <1>1, <2>1, <2>4 DEF IInv, Earned, EarnedBy, Searching
  <2>6. Ahead(c) = {}
    BY <2>1, <2>5 DEF Ahead
  <2>7. Root(c) \in Dirs
    BY <1>1, <2>1, TreeAssumption DEF IInv, TypeOK, Holding, Walking, Root
  <2> QED
    BY <2>5, <2>6, <2>7, CoveredAll
<1>2. IInv /\ [Next]_vars =>
        [\A c \in Children : Marks(c) =>
           Under(Root(c), walk[c].missed) \cap Enabled \subseteq walk[c].warmed]_vars
  BY <1>1
<1> QED
  BY <1>2, Invariance, PTL DEF Spec, MarkersAreEarned
=============================================================================
