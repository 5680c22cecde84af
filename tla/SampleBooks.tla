---------------------------- MODULE SampleBooks -----------------------------
(***************************************************************************)
(* Small books, in the form each of the models takes one: for Contents,    *)
(* LogicalRecords, Ownership, Boo2Git, LinkIndex, BookPrint, TopicRoute,    *)
(* MmrImage.                                                               *)
(***************************************************************************)
EXTENDS SequencesExt

CONSTANT Absent
-----------------------------------------------------------------------------
(* Contents: up to three topics "a", "b", "d" and their CONTENTS.          *)
BlankRecord == [header |-> Absent, number |-> FALSE, heading |-> 0, titled |-> FALSE,
                parent |-> Absent, entries |-> <<>>]

\* A topic in one record, with its controls in the next, or with a title
\* line that comes before the CPARENT.
OpeningRecords(id, heading, parent, form) ==
  LET header == [BlankRecord EXCEPT !.header = id]
      controls(r) == [r EXCEPT !.number = TRUE, !.heading = heading, !.parent = parent, !.titled = TRUE]
  IN  CASE form = "one"  -> <<controls(header)>>
        [] form = "two"  -> <<header, controls(BlankRecord)>>
        [] form = "late" -> <<[header EXCEPT !.number = TRUE, !.heading = heading, !.titled = TRUE],
                              [BlankRecord EXCEPT !.parent = parent]>>

ListingOf(lines) ==
  <<[BlankRecord EXCEPT !.header = "contents", !.number = TRUE, !.titled = TRUE, !.parent = "top"]>>
    \o [i \in DOMAIN lines |-> [BlankRecord EXCEPT !.entries = <<lines[i]>>]]

ListedIds == {ids \in UNION {[1..n -> {"a", "b", "d"}] : n \in 0..3} : IsInjective(ids)}
LinesOf(styles) ==
  UNION {{[i \in DOMAIN ids |-> [id |-> ids[i], level |-> l[i], style |-> s[i]]] :
            l \in [DOMAIN ids -> 0..2], s \in [DOMAIN ids -> styles]} : ids \in ListedIds}

Hanging == {"top"} \X {"top", "a", "d", "missing"} \X {"top", "a", "b"}
ThreeTopics(hang, form) ==
  OpeningRecords("a", 1, hang[1], "one") \o OpeningRecords("b", 1, hang[2], form)
    \o OpeningRecords("d", 1, hang[3], "one")

WithContents ==
  LET listings == {ListingOf(lines) : lines \in LinesOf({0, 1})}
      flat     == {ListingOf(lines) : lines \in {l \in LinesOf({1, 2}) :
                                                  \A i \in DOMAIN l : l[i].level = 0}}
      usual    == {ThreeTopics(hang, "two") : hang \in Hanging}
      late     == {ThreeTopics(hang, "late") : hang \in Hanging}
  IN  {[grammar |-> "nesting_and_style", records |-> t \o l] : t \in usual, l \in listings}
        \cup {[grammar |-> "style_only", records |-> t \o l] : t \in usual \cup late, l \in flat}

WithoutContents ==
  {[grammar |-> "nesting_and_style",
    records |-> OpeningRecords("a", h[1], "top", "one") \o OpeningRecords("b", h[2], "top", form)
                  \o OpeningRecords(last, h[3], "top", "one")] :
     h \in [1..3 -> 0..3], form \in {"one", "two", "late"}, last \in {"a", "d"}}

SampleVolumes == WithContents \cup WithoutContents
-----------------------------------------------------------------------------
(* LogicalRecords: one-byte and two-byte references, controls, spaces.     *)
SampleDictionary ==
  <<0>> :> <<0, 97>> @@ <<1>> :> <<98>> @@ <<2>> :> <<2>> @@ <<3>> :> <<1, 44>>
  @@ <<2, 0>> :> <<1>> @@ <<2, 1>> :> <<99, 32>> @@ <<2, 2>> :> <<32, 32>>
  @@ <<2, 3>> :> <<2, 100>> @@ <<3, 0>> :> <<0>> @@ <<3, 1>> :> <<0, 101>>

Written == {l \in UNION {[1..n -> {<<b>> : b \in 0..1} \cup {<<a, b>> : a \in 2..3, b \in 0..3}] :
                           n \in 0..3} : Len(FlattenSeq(l)) <= 3}
SampleLines  == UNION {[1..n -> Written] : n \in 0..2}
SamplePayloads == UNION {[1..n -> 0..3] : n \in 0..5}
-----------------------------------------------------------------------------
(* Ownership: one record of three tokens, and two rows drawn by one run or *)
(* by two, which may overlap, be empty or name a record that is not there. *)
LaidSources ==
  {[number |-> 1, tokens |-> <<t1, t2, t3>>, lengths |-> l, controls |-> c] :
     t1 \in {<<40>>, <<2>>, <<>>}, t2 \in {<<97>>, <<1, 98>>, <<32, 32>>},
     t3 \in {<<97>>, <<32>>, <<1, 98>>}, l \in {{}, {1}}, c \in {{}, {<<1, 2, 1>>}}}
LaidRows ==
  {r \in [record : {1}, begin : 1..3, end : 2..4, marked : BOOLEAN] : r.begin < r.end}
    \cup {[record |-> 9, begin |-> 1, end |-> 2, marked |-> FALSE]}
SampleLaid ==
  {[sources |-> <<s>>, runs |-> runs] :
     s \in LaidSources, runs \in UNION {{<<<<r>>, <<q>>>>, <<<<r, q>>>>} : r, q \in LaidRows}}
-----------------------------------------------------------------------------
(* Boo2Git: up to two topics, whose stems collide in several ways, with    *)
(* one of the ways there are to report a name.                             *)
Anchor(id, role) == [block |-> "anchor", id |-> id, role |-> role]
FigX == <<"FIG", "x">>
TblX == <<"TBL", "x">>
Y    == <<"y">>

ExportedBlocks == {
  <<>>,
  <<Anchor(FigX, "cross_reference"), [block |-> "rule"], [block |-> "figure", picture |-> <<"p">>]>>,
  <<Anchor(FigX, "figure"),
    [block |-> "drawn", picture |-> <<"q">>, anchors |-> <<[id |-> TblX, role |-> "table"]>>]>>,
  <<Anchor(FigX, "figure"), Anchor(Y, "cross_reference"), [block |-> "figure", picture |-> <<"p">>]>>,
  <<Anchor(TblX, "cross_reference"), [block |-> "text"]>>,
  <<Anchor(<<"TBL", "TBL", "x">>, "table")>>,
  <<[block |-> "list",
     items |-> << <<Anchor(<<"FTN", "y">>, "local")>>, <<Anchor(Y, "local")>> >>]>>,
  <<[block |-> "table",
     cells |-> <<[blocks |-> <<Anchor(Y, "cross_reference")>>,
                  anchors |-> <<[id |-> FigX, role |-> "figure"]>>]>>]>>}

\* What the lists and the cells of a document hold.
WithinBlocks(blocks) ==
  UNION {CASE blocks[i].block = "list"  -> Range(blocks[i].items)
           [] blocks[i].block = "table" -> {blocks[i].cells[j].blocks : j \in DOMAIN blocks[i].cells}
           [] OTHER -> {} : i \in DOMAIN blocks}
SampleBlocks == ExportedBlocks \cup UNION {WithinBlocks(blocks) : blocks \in ExportedBlocks}

TopicIds  == {<<"a">>, <<"A">>, <<"r">>, <<"a2">>}
SampleStem == [id \in TopicIds |-> CASE id = <<"r">>  -> <<"readme">>
                          [] id = <<"a2">> -> <<"a", 2>>
                          [] OTHER         -> <<"a">>]
Referred == [form : {"link", "row"},
             id : TopicIds \cup {<<>>, <<"x">>, FigX, TblX, <<"TBL", "TBL", "x">>, Y, <<"FTN", "y">>,
                            <<"z">>, <<"PIC", "p">>}]
              \cup [form : {"image"}, id : {<<"p">>, <<"q">>}]
ExportedTopics == [id : TopicIds, document : [blocks : ExportedBlocks, named : {<<>>, << <<"z">> >>}],
                   refs : {Referred}]
SampleExports ==
  {[toc |-> toc, pictures |-> {<<"p">>, <<"q">>}, drawable |-> {<<"p">>}] :
     toc \in {t \in UNION {[1..n -> ExportedTopics] : n \in 0..2} :
                \A i, j \in DOMAIN t : t[i].id = t[j].id => t[i] = t[j]}}

\* LinkIndex: a reference on one page of a book of two such topics.
Linked == {t \in ExportedTopics : t.id \in {<<"a">>, <<"r">>}}
SampleReferences ==
  {[toc |-> toc, topic |-> toc[i].id, id |-> r.id] :
     toc \in {t \in Linked \X Linked : t[1].id # t[2].id}, i \in 1..2,
     r \in {q \in Referred : q.form = "link" /\ q.id # <<>>}}
-----------------------------------------------------------------------------
(* BookPrint: up to four rows, which may come twice.                       *)
SamplePrinted == UNION {[1..n -> {[id |-> id, height |-> IF id = "a" THEN 2 ELSE 1] :
                             id \in {"COVER", "TITLE", "CONTENTS", "PREFACE", "a", "b"}}] : n \in 0..4}
-----------------------------------------------------------------------------
(* TopicRoute: one family makes something of the topic, or two prove it.   *)
(* An index is lowered to a bare heading once all its lines are typed.     *)
(* Records may have no line that parses, or none but the title's.          *)
Routed == {"comment delivery", "fixed prose", "message catalog", "trap catalog",
           "generated list", "generated navigation", "menu", "prose"}
Unclaimed == [f \in Routed \cup {"publication catalog", "glossary"} |-> "declines"]
RouteVerdicts ==
  {Unclaimed}
    \cup {[Unclaimed EXCEPT ![f] = v] :
             f \in Routed, v \in {"semantics", "document", "identity", "bare", "degraded", "proven"}}
    \cup {[Unclaimed EXCEPT ![f] = "proven", ![g] = "proven"] : f, g \in Routed}

Row(text) == [framed |-> TRUE, text |-> text]
Unframed  == [framed |-> FALSE, text |-> "words"]
SampleRecords == {<<>>, <<Unframed>>, <<Row("none")>>, <<Row("control")>>, <<Row("title"), Row("title")>>,
                  <<Unframed, Row("title"), Row("words")>>, <<Row("words"), Row("title")>>}

SampleRoutes ==
  {r \in [known : BOOLEAN, records : SampleRecords, laid : BOOLEAN, starts : 0..2, listing : BOOLEAN,
          navigation : BOOLEAN, menu : BOOLEAN, selectors : {"none", "read", "broken"},
          verdict : RouteVerdicts] :
     /\ r.laid => r.records # <<>>
     /\ r.selectors # "none" => r.listing
     /\ r.verdict["generated navigation"] = "bare" =>
          \A i \in DOMAIN r.records : r.records[i].framed => r.records[i].text # "words"}
-----------------------------------------------------------------------------
(* MmrImage: three rows of four elements, two rows of six against each     *)
(* other, and two rows of four that may end early.                         *)
RowsOf(width, height) == [1..height -> [1..width -> BOOLEAN]]
SamplePictures ==
  [rows : RowsOf(4, 3), forms : [1..3 -> {"bare"}] \cup {<<"tagged", "plain", "tagged">>}, cut : {FALSE}]
    \cup [rows : RowsOf(6, 2), forms : {<<"bare", "tagged">>}, cut : {FALSE}]
    \cup [rows : RowsOf(4, 2), forms : {<<"bare", "bare">>, <<"tagged", "plain">>, <<"plain", "tagged">>},
               cut : {TRUE}]
=============================================================================
