------------------------------ MODULE OnceCell ------------------------------
(***************************************************************************)
(* What src/src/geist/detail/core/atomic_cache.hpp promises to the callers *)
(* of publish_once: a family of write-once cells.  A call either fills an  *)
(* empty cell and takes the value it put there, or takes the value the     *)
(* cell already has.  A filled cell is never refilled and never emptied.   *)
(***************************************************************************)
CONSTANTS Threads,   \* callers
          Slots,     \* cells
          Values,    \* objects a cell may hold
          None       \* the null pointer of an empty cell

VARIABLES cell,      \* what each cell holds
          held       \* the references each thread has been given

vars == <<cell, held>>

Init == /\ cell = [k \in Slots |-> None]
        /\ held = [t \in Threads |-> {}]

Fill(t, k, v) == /\ cell[k] = None
                 /\ cell' = [cell EXCEPT ![k] = v]
                 /\ held' = [held EXCEPT ![t] = @ \cup {v}]

Take(t, k) == /\ cell[k] # None
              /\ held' = [held EXCEPT ![t] = @ \cup {cell[k]}]
              /\ UNCHANGED cell

Next == \E t \in Threads, k \in Slots :
           \/ Take(t, k)
           \/ \E v \in Values : Fill(t, k, v)

Spec == Init /\ [][Next]_vars
=============================================================================
