----------------------------- MODULE BookPrint ------------------------------
(***************************************************************************)
(* Printing a whole book from the macOS reader (macos/BookPrintJob.mm, and *)
(* printBook: in macos/ReaderWindow.mm): every topic is loaded, settled,   *)
(* measured and drawn by a web view, one after the other, and the book is  *)
(* put together from the drawings.                                         *)
(*                                                                         *)
(* A contents row is [id, height]: its topic, and how much of a contents   *)
(* page its title takes.  A page of the book is [topic, number, rows]: the *)
(* topic it shows or None for a contents page, the number printed on it or *)
(* Unnumbered, and the numbers printed beside the rows of a contents page. *)
(***************************************************************************)
EXTENDS Naturals, SequencesExt

CONSTANTS Printed,     \* the contents of the books that may be printed
          MaxPages,    \* the pages a topic may take
          PageHeight,  \* how much a contents page holds
          FrontMatter, \* the ids that stand before the contents
          Unnumbered, None

VARIABLES rows,      \* _topics: the contents of the book
          index,     \* _index: the row that is being drawn
          rendered,  \* _rendered: the drawn topics, by id, and their pages
          awaits,    \* what the web view owes the job, or None
          cancelled, \* _cancelled
          answers    \* what the completion was called with: a sequence

vars == <<rows, index, rendered, awaits, cancelled, answers>>

Live == answers = <<>>   \* _completion is still there

(* What the completion is given: the book, an error, or neither of them.   *)
Book(pages) == [answer |-> "book", pages |-> pages]
Error       == [answer |-> "error"]
Nothing     == [answer |-> "nothing"]
-----------------------------------------------------------------------------
(* assemble: the order of the topics, and where the contents come.         *)
IsTitle(row)    == row.id \in {"COVER", "TITLE"}
IsContents(row) == row.id = "CONTENTS"
Those(all, chosen) == FlattenSeq([i \in DOMAIN all |-> IF i \in chosen THEN <<all[i]>> ELSE <<>>])
Named(all, id)     == {i \in DOMAIN all : all[i].id = id}
Titles(all) == Those(all, Named(all, "COVER")) \o Those(all, Named(all, "TITLE"))
Body(all)   == Those(all, {i \in DOMAIN all : ~IsTitle(all[i]) /\ ~IsContents(all[i])})

(* How many topics of the body come before the contents: those before the  *)
(* CONTENTS topic; without one, the front matter the body begins with.     *)
BeforeContents(all) ==
  LET listed == {i \in DOMAIN all : IsContents(all[i])}
      front  == {n \in 0..Len(Body(all)) : \A i \in 1..n : Body(all)[i].id \in FrontMatter}
  IN  IF listed # {}
      THEN Len(Body(SubSeq(all, 1, CHOOSE i \in listed : \A j \in listed : i <= j)))
      ELSE CHOOSE n \in front : \A m \in front : m <= n

(* contentsPages() and contentsDocument(): the rows of each contents page. *)
WithRow(pages, row) ==
  LET last == pages[Len(pages)]
      used == FoldLeft(LAMBDA h, r : h + r.height, 0, last)
  IN  IF used + row.height > PageHeight THEN Append(pages, <<row>>)
      ELSE [pages EXCEPT ![Len(pages)] = Append(last, row)]

ContentsPages(listing) ==
  LET pages[n \in 0..Len(listing)] == IF n = 0 THEN << <<>> >> ELSE WithRow(pages[n - 1], listing[n])
  IN  pages[Len(listing)]

PagesBefore(body, i, drawn) ==
  LET sum[n \in 0..i - 1] == IF n = 0 THEN 0 ELSE sum[n - 1] + drawn[body[n].id]
  IN  sum[i - 1]

(* A mutant: the contents take one page, whatever they list. *)
PageNumbersOnePage(all, drawn) ==
  LET body == Body(all)
      number(i) == 1 + PagesBefore(body, i, drawn) + (IF i > BeforeContents(all) THEN 1 ELSE 0)
  IN  [id \in {body[i].id : i \in DOMAIN body} |->
         number(CHOOSE i \in DOMAIN body : body[i].id = id /\ \A j \in DOMAIN body : body[j].id = id => j <= i)]

(* The number of each topic's first page, of the last topic with its id.   *)
PageNumbers(all, drawn) ==
  LET body  == Body(all)
      extra == Len(ContentsPages(body))
      number(i) == 1 + PagesBefore(body, i, drawn) + (IF i > BeforeContents(all) THEN extra ELSE 0)
  IN  [id \in {body[i].id : i \in DOMAIN body} |->
         number(CHOOSE i \in DOMAIN body : body[i].id = id /\ \A j \in DOMAIN body : body[j].id = id => j <= i)]

Drawing(row, drawn)   == [p \in 1..drawn[row.id] |-> [topic |-> row.id, rows |-> <<>>]]
Drawings(some, drawn) == FlattenSeq([i \in DOMAIN some |-> Drawing(some[i], drawn)])

(* A book without a title topic gets a title page.                         *)
Assembled(all, drawn) ==
  LET body     == Body(all)
      before   == BeforeContents(all)
      beside   == PageNumbers(all, drawn)
      contents == [p \in DOMAIN ContentsPages(body) |->
                     [topic |-> None, rows |-> [r \in DOMAIN ContentsPages(body)[p] |->
                        [id |-> ContentsPages(body)[p][r].id, number |-> beside[ContentsPages(body)[p][r].id]]]]]
      numbered == Drawings(SubSeq(body, 1, before), drawn) \o contents
                    \o Drawings(SubSeq(body, before + 1, Len(body)), drawn)
      titles   == IF Titles(all) = <<>> THEN <<[topic |-> "title page", rows |-> <<>>]>>
                  ELSE Drawings(Titles(all), drawn)
      Numbered(page, n) == [topic |-> page.topic, rows |-> page.rows, number |-> n]
  IN  [i \in DOMAIN titles |-> Numbered(titles[i], Unnumbered)]
        \o [i \in DOMAIN numbered |-> Numbered(numbered[i], i)]
-----------------------------------------------------------------------------
(* loadNext: the CONTENTS topic is passed over; after the last row the     *)
(* book is assembled.                                                      *)
LoadNext(from, drawn) ==
  LET loads == {i \in DOMAIN rows : i >= from /\ ~IsContents(rows[i])}
  IN  /\ rendered' = drawn
      /\ IF loads = {}
         THEN index' = Len(rows) + 1 /\ awaits' = None /\ answers' = Append(answers, Book(Assembled(rows, drawn)))
         ELSE index' = (CHOOSE i \in loads : \A j \in loads : i <= j) /\ awaits' = "navigation" /\ UNCHANGED answers
      /\ UNCHANGED rows

Init == /\ rows \in Printed /\ index = 0 /\ rendered = <<>>
        /\ awaits = "start" /\ cancelled = FALSE /\ answers = <<>>

Start == awaits = "start" /\ LoadNext(1, rendered) /\ UNCHANGED cancelled

(* finish: the completion is called, and the web view goes.                *)
Finish(answer) == answers' = Append(answers, answer) /\ UNCHANGED <<rows, index, rendered>>

(* The Cancel button of the progress sheet.  A callback may still come, if *)
(* not for a navigation.                                                   *)
Cancel == /\ awaits # "start" /\ Live
          /\ cancelled' = TRUE /\ Finish(Nothing)
          /\ awaits' \in {None, awaits} \ {"navigation"}

(* A callback that comes after the end does nothing.                       *)
Ignored == /\ awaits # None /\ ~Live
           /\ awaits' = None /\ UNCHANGED <<rows, index, rendered, cancelled, answers>>

Goes(from, to) == /\ awaits = from /\ Live /\ ~cancelled
                  /\ awaits' = to /\ UNCHANGED <<rows, index, rendered, cancelled, answers>>

DidFinishNavigation == Goes("navigation", "fonts")
FontsReady          == Goes("fonts", "breaks")   \* whether or not it succeeded
BreaksKnown         == Goes("breaks", "pdf")

(* A mutant: an error is passed over. *)
FailsSilently == /\ awaits \in {"navigation", "breaks", "pdf"} /\ Live
                 /\ awaits' = None /\ UNCHANGED <<rows, index, rendered, cancelled, answers>>

Fails == /\ awaits \in {"navigation", "breaks", "pdf"} /\ Live
         /\ Finish(Error) /\ awaits' = None /\ UNCHANGED cancelled

(* The drawing of the topic at the index; the next one is loaded later.    *)
Rendered == /\ awaits = "pdf" /\ Live /\ ~cancelled
            /\ \E pages \in 1..MaxPages :
                 rendered' = [id \in DOMAIN rendered \cup {rows[index].id} |->
                                IF id = rows[index].id THEN pages ELSE rendered[id]]
            /\ index' = index + 1 /\ awaits' = "dispatch"
            /\ UNCHANGED <<rows, cancelled, answers>>

Dispatched == awaits = "dispatch" /\ Live /\ LoadNext(index, rendered) /\ UNCHANGED cancelled

Next == \/ Start \/ Cancel \/ Ignored \/ Fails \/ Rendered \/ Dispatched
        \/ DidFinishNavigation \/ FontsReady \/ BreaksKnown

Spec == Init /\ [][Next]_vars
-----------------------------------------------------------------------------
(* The window is answered once, with nothing if it cancelled, and a job    *)
(* that has not answered always waits for something that will come.        *)
AnswersOnce ==
  /\ Len(answers) <= 1 /\ (cancelled <=> answers = <<Nothing>>)
  /\ Live => awaits # None

(* The numbers printed beside the contents are those printed on the pages: *)
(* each row names the first page of its topic's last drawing; the pages    *)
(* after the title are numbered through; and every topic but CONTENTS is   *)
(* there with all its pages, once for each row, and is listed unless it is *)
(* a title (BookPrintJob.mm:313-402).                                      *)
NumbersAreThePages ==
  answers \notin {<<>>, <<Error>>, <<Nothing>>} =>
    LET book   == answers[1].pages
        plain  == {p \in DOMAIN book : book[p].number = Unnumbered}
        Pages(id) == {p \in DOMAIN book : book[p].topic = id}
        listed == FlattenSeq([p \in DOMAIN book |-> book[p].rows])
        Rows(id) == Cardinality({i \in DOMAIN rows : rows[i].id = id})
    IN  /\ plain = 1..Cardinality(plain) /\ plain # {}
        /\ \A p \in DOMAIN book \ plain : book[p].number = p - Cardinality(plain)
        /\ \A l \in DOMAIN listed :
             LET p == listed[l].number + Cardinality(plain)
             IN  p \in Pages(listed[l].id)
                   /\ Cardinality({q \in Pages(listed[l].id) : q >= p}) = rendered[listed[l].id]
        /\ \A i \in DOMAIN rows : ~IsContents(rows[i]) =>
             /\ Cardinality(Pages(rows[i].id)) = rendered[rows[i].id] * Rows(rows[i].id)
             /\ IsTitle(rows[i]) \/ \E l \in DOMAIN listed : listed[l].id = rows[i].id
=============================================================================
