---------------------------- MODULE MCShelfIndex ----------------------------
(* Instances of ShelfIndex: httpd children that share one cache directory. *)
EXTENDS ShelfIndex, TLC

CONSTANTS p1, p2, w1, w2, f1, f2, old, new

\* Two children with one request thread each.
OnePerChild == w1 :> p1 @@ w2 :> p2

\* One child with two request threads, or with a warmer and one of them.
OneChild == w1 :> p1 @@ w2 :> p1

SameRevision == p1 :> old @@ p2 :> old
Reloaded     == p1 :> old @@ p2 :> new
=============================================================================
