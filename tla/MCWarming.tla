----------------------------- MODULE MCWarming ------------------------------
(***************************************************************************)
(* Background warming, checked at two levels side by side: a behaviour     *)
(* picks one of them and runs that one alone.                              *)
(*   "trees"  IndexWarming, the walks of all children (MCIndexWarming)     *)
(*   "shelf"  ShelfIndex, one shelf that a child's warmer and a request of *)
(*            the same child build while the child may be stopped or die   *)
(***************************************************************************)
EXTENDS MCIndexWarming

CONSTANTS f1, f2

VARIABLES part,
          version, made, memory, disk, lockfile, stopped, place,
          unread, scanned, todo, loaded, fresh, changed, file, identity

S == INSTANCE ShelfIndex WITH
       Procs <- {"child"}, Workers <- {"warmer", "request"}, Warmers <- {"warmer"},
       ProcOf <- [w \in {"warmer", "request"} |-> "child"],
       Files <- {f1, f2}, MaxVersion <- 1, Producer <- [p \in {"child"} |-> "revision"],
       Faults <- {"stop", "crash"},
       lock <- lockfile, files <- scanned, stop <- stopped, pc <- place

\* No child, and no file, differs from the other.
MCSymmetry == Permutations(Children) \cup Permutations({f1, f2})

shelf == <<version, made, memory, disk, lockfile, stopped, place,
           unread, scanned, todo, loaded, fresh, changed, file, identity>>

MCInit == /\ part \in {"trees", "shelf"}
          /\ Init /\ S!Init
          /\ part = "trees" => made = [f \in {f1, f2} |-> 0]

\* A shelf is never at a standstill; the walks come to an end.
MCNext == \/ part = "trees" /\ Next   /\ UNCHANGED <<part, shelf>>
          \/ part = "shelf" /\ S!Next /\ UNCHANGED <<part, vars>>
          \/ part = "trees" /\ UNCHANGED <<part, vars, shelf>>
MCSpec == MCInit /\ [][MCNext]_<<part, vars, shelf>>

\* The properties of the shelf.
SavesOverItsOwnLoad == S!SavesOverItsOwnLoad
WholeScansSaved     == S!WholeScansSaved
=============================================================================
