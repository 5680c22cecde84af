----------------------------- MODULE MCReaders ------------------------------
(***************************************************************************)
(* The parts of the readers, and of the library below them, that share no  *)
(* state, checked side by side: a behaviour picks one of them and runs     *)
(* that one alone.                                                         *)
(*   "windows"  ReaderWindow, the windows of the application               *)
(*   "source"   BookSource, the book behind one window                     *)
(*   "links"    LinkIndex, one cross reference of one book                 *)
(*   "lines", "contents", "ledger"  one of the three parts of Decoding     *)
(*   "export"   Boo2Git, one book that is exported                         *)
(*   "print"    BookPrint, one book that is printed                        *)
(*   "route"    TopicRoute, one topic that is rendered                     *)
(*   "picture"  MmrImage, one picture that is decoded                      *)
(***************************************************************************)
EXTENDS ReaderWindow, Decoding, SampleBooks

CONSTANTS q1, q2,
          Callers, Objects, BookTopics, MaxOpened,           \* of BookSource
          CrossReferences,                                   \* of LinkIndex
          Exports, Blocks, Stem,                             \* of Boo2Git
          Printed, MaxPages, PageHeight, FrontMatter,        \* of BookPrint
          Routes,                                            \* of TopicRoute
          Pictures, Failed                                   \* of MmrImage

VARIABLES part, opened, document, links, objects, rows, title, opening, call,
          reference,  \* the cross reference asked for: its book, page and id
          answer,     \* what the server and the readers make of it
          exported, stage, turn, files, targets, pngs, disk,    \* of Boo2Git
          listed, index, rendered, awaits, cancelled, answers,  \* of BookPrint
          loaded, told,                                         \* of TopicRoute
          picture, codes, image, above, scan                    \* of MmrImage

S == INSTANCE BookSource WITH Topics <- BookTopics
L == INSTANCE LinkIndex WITH NoPicture <- None
X == INSTANCE Boo2Git WITH NoPicture <- None,
       book <- exported, at <- stage, next <- turn, links <- targets
P == INSTANCE BookPrint WITH Unnumbered <- 0, rows <- listed
R == INSTANCE TopicRoute WITH Topics <- Routes
M == INSTANCE MmrImage WITH Idle <- None, reference <- above, row <- scan

\* A book has entries, and None is nothing else.
ASSUME SourceAssumption ==
  /\ MaxOpened \in Nat /\ BookTopics \in Nat \ {0}
  /\ None \notin S!Documents /\ None \notin S!Decoded /\ None \notin Objects

\* A job that awaits nothing awaits none of the callbacks.
ASSUME PrintAssumption ==
  None \notin {"start", "navigation", "fonts", "breaks", "pdf", "dispatch"}

\* The contents of a book are a sequence of topics; the pages that show no
\* topic are told apart from those that do.
ASSUME PrintedAssumption ==
  /\ MaxPages \in Nat
  /\ \A b \in Printed : /\ IsASequence(b)
                        /\ \A i \in DOMAIN b : b[i].id \notin {None, "title page"}

\* The records of a topic: only what is decoded is laid out, and an index that
\* is lowered to a heading alone has had each of its display lines typed
\* (document.cpp:148), so none of them shows words.
ASSUME RouteAssumption ==
  /\ None \notin R!Documents /\ None \notin R!Outcomes
  /\ Routes \subseteq [known : BOOLEAN, records : Seq(R!Records), laid : BOOLEAN, starts : 0..2,
                       listing : BOOLEAN, navigation : BOOLEAN, menu : BOOLEAN,
                       selectors : {"none", "read", "broken"},
                       verdict : [R!Families \cup {"prose"} -> R!Verdicts]]
  /\ \A r \in Routes :
       /\ r.laid => R!Decoded(r)
       /\ r.verdict["generated navigation"] = "bare" => ~R!ShowsWords(r)

MCSymmetry == Permutations(Windows) \cup Permutations(Queries)
-----------------------------------------------------------------------------
Resolve == /\ answer = None
           /\ answer' = [server |-> L!ServerAnchor(reference.toc, reference.topic, reference.id),
                         reader |-> L!ReaderAnchor(reference.toc, reference.topic, reference.id)]
           /\ UNCHANGED reference
-----------------------------------------------------------------------------
book   == <<opened, document, links, objects, rows, title, opening, call>>
cross  == <<reference, answer>>
export == <<exported, stage, turn, files, targets, pngs, disk>>
job    == <<listed, index, rendered, awaits, cancelled, answers>>
route  == <<loaded, told>>
fax    == <<picture, codes, image, above, scan>>
all    == <<part, vars, book, cross, line, toc, layout, export, job, route, fax>>

NoLine   == written = 0 /\ payload = 0 /\ record = 0
NoToc    == volume = 0 /\ contents = 0
NoLayout == topic = 0 /\ next = 0 /\ ledger = 0
NoExport == /\ exported = 0 /\ stage = 0 /\ turn = 0 /\ files = 0
            /\ targets = 0 /\ pngs = 0 /\ disk = 0
NoJob    == /\ listed = 0 /\ index = 0 /\ rendered = 0 /\ awaits = 0
            /\ cancelled = 0 /\ answers = 0
NoRoute  == loaded = 0 /\ told = 0
NoFax    == picture = 0 /\ codes = 0 /\ image = 0 /\ above = 0 /\ scan = 0

MCInit == /\ part \in {"windows", "source", "links", "lines", "contents", "ledger",
                       "export", "print", "route", "picture"}
          /\ Init /\ S!Init
          /\ reference \in IF part = "links" THEN CrossReferences ELSE {None}
          /\ answer = None
          /\ IF part = "lines"    THEN D!Init ELSE NoLine
          /\ IF part = "contents" THEN C!Init ELSE NoToc
          /\ IF part = "ledger"   THEN O!Init ELSE NoLayout
          /\ IF part = "export"   THEN X!Init ELSE NoExport
          /\ IF part = "print"    THEN P!Init ELSE NoJob
          /\ IF part = "route"    THEN R!Init ELSE NoRoute
          /\ IF part = "picture"  THEN M!Init ELSE NoFax
MCNext ==
  \/ /\ part = "windows" /\ Next
     /\ UNCHANGED <<part, book, cross, line, toc, layout, export, job, route, fax>>
  \/ /\ part = "source" /\ S!Next
     /\ UNCHANGED <<part, vars, cross, line, toc, layout, export, job, route, fax>>
  \/ /\ part = "links" /\ Resolve
     /\ UNCHANGED <<part, vars, book, line, toc, layout, export, job, route, fax>>
  \/ /\ part = "lines" /\ D!Decode
     /\ UNCHANGED <<part, vars, book, cross, toc, layout, export, job, route, fax>>
  \/ /\ part = "contents" /\ C!Open
     /\ UNCHANGED <<part, vars, book, cross, line, layout, export, job, route, fax>>
  \/ /\ part = "ledger" /\ O!Own
     /\ UNCHANGED <<part, vars, book, cross, line, toc, export, job, route, fax>>
  \/ /\ part = "export" /\ X!Next
     /\ UNCHANGED <<part, vars, book, cross, line, toc, layout, job, route, fax>>
  \/ /\ part = "print" /\ P!Next
     /\ UNCHANGED <<part, vars, book, cross, line, toc, layout, export, route, fax>>
  \/ /\ part = "route" /\ R!Render
     /\ UNCHANGED <<part, vars, book, cross, line, toc, layout, export, job, fax>>
  \/ /\ part = "picture" /\ M!Next
     /\ UNCHANGED <<part, vars, book, cross, line, toc, layout, export, job, route>>
MCSpec == MCInit /\ [][MCNext]_all

\* The properties of the instances.
OfItsBook          == S!OfItsBook
LinesReadBack      == part = "lines" => D!LinesReadBack
LinesKeepTheirText == part = "lines" => D!LinesKeepTheirText
TreeFollowsParents == part = "contents" => C!TreeFollowsParents
RunsOwnedWhole     == part = "ledger" => O!RunsOwnedWhole
LinksLand          == part = "export" => X!LinksLand
AnswersOnce        == part = "print" => P!AnswersOnce
NumbersAreThePages == part = "print" => P!NumbersAreThePages
RowsReachThePage   == part = "route" => R!RowsReachThePage
PicturesReadBack   == part = "picture" => M!PicturesReadBack

=============================================================================
