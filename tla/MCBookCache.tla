---------------------------- MODULE MCBookCache -----------------------------
(* BookCache on a small instance: a book of two topics, of which the       *)
(* second reports a name of the first, and which trade places in version 2.*)
EXTENDS BookCache, TLC

CONSTANTS ref, fig

MCNames   == {ref, fig}
Topics(v) == IF v = 2 THEN <<{ref, fig}, {fig}>> ELSE <<{fig}, {ref, fig}>>
MCReports == [v \in Versions |-> [e \in 1..Entries |-> Topics(v)[e]]]
MCSymmetry == Permutations(Books)
=============================================================================
