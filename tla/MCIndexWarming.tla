--------------------------- MODULE MCIndexWarming ---------------------------
(* Instances of IndexWarming: small trees with a shelf below a directory   *)
(* whose index is off, with an entry that is a link, and with limits that  *)
(* one of two nested trees exceeds.                                        *)
EXTENDS IndexWarming, TLC

CONSTANTS c1, c2, c3, top, sub, leaf, link, other

\* The second tree contains the first: top (shelf) / sub (index off) /
\* leaf (shelf) and a link.  It is too deep, or has too many entries.
Deep == [d \in Dirs |-> CASE d = top -> {sub}
                          [] d = sub -> {leaf, link}
                          [] OTHER   -> {}]
Flat == [d \in Dirs |-> {}]

OneRoot  == <<top>>
TwoRoots == <<top, other>>
Nested   == <<sub, top>>
=============================================================================
