--------------------------- MODULE MCReaderWindow ---------------------------
(* Instances of ReaderWindow for TLC. *)
EXTENDS ReaderWindow, TLC

CONSTANTS q1, q2

MCSymmetry == Permutations(Windows) \cup Permutations(Queries)
=============================================================================
