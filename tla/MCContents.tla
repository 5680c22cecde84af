----------------------------- MODULE MCContents -----------------------------
(* Contents on the small books of SampleBooks.                             *)
EXTENDS Contents, SampleBooks
=============================================================================
