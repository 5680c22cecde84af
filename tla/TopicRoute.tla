----------------------------- MODULE TopicRoute -----------------------------
(***************************************************************************)
(* How a topic gets its one representation, and what is said of it: the    *)
(* typed families that are offered its records                             *)
(* (lowering/topic_document_lowering.cpp), the rows that stand in for them *)
(* (api/document.cpp), the diagnostic (render/render_diagnostic.cpp), and  *)
(* the three places that read it: Markdown, HTML and the inventory.        *)
(*                                                                         *)
(* The recognisers are abstracted to their verdicts.  A topic is           *)
(*   known      it has an entry in the topic table, hence records          *)
(*   records    what the record decoder yields, in their order: of each,   *)
(*              whether its display lines parse (framed), and the line it  *)
(*              draws: "none", one that ends in the topic's "title", the   *)
(*              bytes of a "control", or "words" (one line stands for all) *)
(*   laid       its layout and its ledger verify                           *)
(*   starts     how many messages it starts, 0..2 (2 for more)             *)
(*   listing, navigation, menu   it has the controls of such a topic       *)
(*   selectors  "none", "read", or "broken"                                *)
(*   verdict    what each family makes of the records (Verdicts)           *)
(***************************************************************************)
EXTENDS Naturals, Sequences

CONSTANTS Topics, None

VARIABLES loaded, told

vars == <<loaded, told>>
-----------------------------------------------------------------------------
Records == [framed : BOOLEAN, text : {"none", "title", "control", "words"}]

Decoded(topic) == topic.records # <<>>

(* best_effort_display_lines: a record that is not framed is passed over,  *)
(* and so is a line that ends in the title while no line is kept.          *)
Lines(topic)       == {i \in DOMAIN topic.records :
                         topic.records[i].framed /\ topic.records[i].text # "none"}
DisplayRows(topic) == {i \in Lines(topic) :
                         \E j \in Lines(topic) : j <= i /\ topic.records[j].text # "title"}
HasRows(topic)     == DisplayRows(topic) # {}
-----------------------------------------------------------------------------
Families == {"comment delivery", "publication catalog", "fixed prose", "glossary",
             "message catalog", "trap catalog", "generated list",
             "generated navigation", "menu"}

(* How far a family gets: it declines; what it recognised, the document it *)
(* lowers, or the document with its heading does not verify; a document    *)
(* with headings only, with a block taken verbatim, or proven throughout.  *)
Declined == {"declines"}
Refused  == {"semantics", "document", "identity"}
Lowered  == {"bare", "degraded", "proven"}
Verdicts == Declined \cup Refused \cup Lowered

(* The families whose candidate test the records pass.  Of the two that    *)
(* read messages the trap catalogue comes second, and alone for one.       *)
Offered(topic) ==
  {"comment delivery", "publication catalog", "fixed prose", "glossary"}
    \cup (IF topic.starts = 2 THEN {"message catalog"} ELSE {})
    \cup (IF \/ topic.starts = 2 /\ topic.verdict["message catalog"] = "declines"
             \/ topic.starts = 1 THEN {"trap catalog"} ELSE {})
    \cup (IF topic.listing /\ topic.selectors # "broken" THEN {"generated list"} ELSE {})
    \cup (IF topic.navigation THEN {"generated navigation"} ELSE {})
    \cup (IF topic.menu THEN {"menu"} ELSE {})

Claiming(topic) == {f \in Offered(topic) : topic.verdict[f] # "declines"}

(* What a family makes of the topic, once it is its only claimant.         *)
LoweredBy(topic, family) ==
  CASE topic.verdict[family] = "declines" -> [document |-> None, family |-> "none"]
    [] topic.verdict[family] \in Refused  -> [document |-> None, family |-> family]
    [] OTHER -> [family   |-> family,
                 document |-> [body |-> topic.verdict[family] # "bare",
                               degraded |-> topic.verdict[family] = "degraded"]]

(* try_lower_topic_to_document_ir: prose is offered what all decline.      *)
TypedLowering(topic) ==
  IF ~Decoded(topic) \/ ~topic.laid \/ (\E f, g \in Claiming(topic) : f # g)
  THEN [document |-> None, family |-> "none"]
  ELSE LoweredBy(topic, IF Claiming(topic) = {} THEN "prose" ELSE CHOOSE f \in Claiming(topic) : TRUE)
-----------------------------------------------------------------------------
SourceRows(topic) == [body |-> HasRows(topic), degraded |-> FALSE]

(* A mutant: what a family lowered is kept, though it be a heading only. *)
OutcomeAsTyped(topic) ==
  LET typed == TypedLowering(topic)
      rows  == typed.document = None
  IN  [claimed |-> ~rows, family |-> typed.family,
       decoded |-> Decoded(topic), rows |-> rows /\ HasRows(topic),
       representation |-> IF ~rows THEN "structured" ELSE IF Decoded(topic) THEN "source_rows" ELSE "none",
       document       |-> IF ~rows THEN typed.document ELSE IF Decoded(topic) THEN SourceRows(topic) ELSE None]

(* The loader: a typed document without body gives way to rows that have   *)
(* one, save an index, whose family types every line or declines.          *)
Outcome(topic) ==
  LET typed   == TypedLowering(topic)
      claimed == typed.document # None
      proven  == claimed /\ (typed.document.body \/ typed.family = "generated navigation")
      rows    == ~proven /\ (~claimed \/ HasRows(topic))
  IN  [claimed |-> claimed, family |-> typed.family,
       decoded |-> Decoded(topic), rows |-> ~proven /\ HasRows(topic),
       representation |-> IF ~rows THEN "structured" ELSE IF Decoded(topic) THEN "source_rows" ELSE "none",
       document       |-> IF ~rows THEN typed.document ELSE IF Decoded(topic) THEN SourceRows(topic) ELSE None]
-----------------------------------------------------------------------------
(* The documents, and the outcomes of the loader.                          *)
Documents == [body : BOOLEAN, degraded : BOOLEAN]
Outcomes  == [claimed : BOOLEAN, family : Families \cup {"prose", "none"},
              decoded : BOOLEAN, rows : BOOLEAN,
              representation : {"structured", "source_rows", "none"},
              document : Documents \cup {None}]
-----------------------------------------------------------------------------
(* classify_typed_lowering                                                 *)
Classified(document, family) ==
  CASE document = None   -> [severity |-> "best-effort", route |-> "best-effort",
                             reason |-> "typed-lowering-declined", family |-> "none"]
    [] document # None /\ document.degraded ->
                            [severity |-> "typed-degraded", route |-> "typed",
                             reason |-> "degraded-block", family |-> family]
    [] OTHER             -> [severity |-> "typed", route |-> "typed",
                             reason |-> "typed", family |-> family]

(* escalate_render_diagnostic                                              *)
Escalated(diagnostic, body, rows, decoded) ==
  CASE body -> diagnostic
    [] ~body /\ rows ->
         [diagnostic EXCEPT !.severity = "best-effort", !.route = "best-effort",
            !.reason = IF @ = "typed-lowering-declined" THEN @ ELSE "no-structured-content"]
    [] ~body /\ ~rows /\ decoded -> [diagnostic EXCEPT !.reason = "empty-topic-body"]
    [] OTHER -> [diagnostic EXCEPT !.severity = "failed", !.route = "none",
                                   !.reason = "no-recoverable-source"]

(* classify_topic_lowering; None is a topic that was never lowered.        *)
Diagnostic(outcome) ==
  IF outcome = None THEN Escalated(Classified(None, "none"), FALSE, FALSE, FALSE)
  ELSE LET typed == Classified(IF outcome.claimed THEN outcome.document ELSE None, outcome.family)
       IN  CASE outcome.representation = "structured" ->
                  Escalated(typed, outcome.document.body, FALSE, outcome.decoded)
             [] outcome.representation = "source_rows" ->
                  [Escalated(typed, FALSE, outcome.rows, outcome.decoded) EXCEPT !.family = "none"]
             [] OTHER -> Escalated(typed, FALSE, FALSE, outcome.decoded)

NotAttempted(diagnostic) == [diagnostic EXCEPT !.reason = "no-typed-lowering-attempted"]
-----------------------------------------------------------------------------
LoweringOf(topic) == IF topic.known THEN Outcome(topic) ELSE None
BodyOf(outcome)   == outcome # None /\ outcome.document # None /\ outcome.document.body

(* TocEntry::render(); an entry without a loader gets no marker.           *)
Rendered(topic) ==
  LET outcome    == LoweringOf(topic)
      diagnostic == IF topic.known THEN Diagnostic(outcome) ELSE NotAttempted(Diagnostic(outcome))
  IN  [diagnostic  |-> diagnostic,
       body        |-> BodyOf(outcome),
       placeholder |-> diagnostic.severity = "failed",
       marked      |-> topic.known /\ diagnostic.severity # "typed"]

(* TocEntry::html_fragment(): the root element names the severity.         *)
Html(topic) ==
  LET severity == Rendered(topic).diagnostic.severity
  IN  [body |-> BodyOf(LoweringOf(topic)), placeholder |-> severity = "failed", severity |-> severity]

(* BooDocument::typed_route_inventory(), one row.                          *)
Inventoried(topic) ==
  LET outcome == LoweringOf(topic)
  IN  IF ~topic.known THEN [counted |-> "legacy", family |-> "none", diagnostic |-> NotAttempted(Diagnostic(None))]
      ELSE [counted    |-> IF outcome.representation = "structured" THEN "typed" ELSE "legacy",
            family     |-> outcome.family,
            diagnostic |-> Diagnostic(outcome)]
-----------------------------------------------------------------------------
Init == loaded \in Topics /\ told = None

Render == /\ told = None
          /\ told' = [markdown |-> Rendered(loaded), html |-> Html(loaded),
                      inventory |-> Inventoried(loaded)]
          /\ UNCHANGED loaded

Spec == Init /\ [][Render]_vars
-----------------------------------------------------------------------------
(* A line of words stands in a record that is framed.                      *)
ShowsWords(topic) ==
  \E i \in DOMAIN topic.records : topic.records[i].framed /\ topic.records[i].text = "words"

(* render_diagnostic.hpp:17-23, 37-39: whatever the families make of a     *)
(* topic, a display row that does not end in its title brings its text to  *)
(* the page; a topic that yields no record is replaced by a notice, and no *)
(* other topic is.  All three places say the same of it, a page without    *)
(* text is said to be empty, and a topic passes as proven in none of them  *)
(* unless one family alone claimed it and proved it throughout.            *)
(* Words can be lost all the same: those of a record whose display lines   *)
(* do not parse, and of first rows that end in the title.  A topic that    *)
(* has no others is a bare heading, of any severity but "failed".          *)
RowsReachThePage ==
  told # None =>
    LET page == told.markdown  proven == page.diagnostic.severity = "typed"
    IN  /\ loaded.known /\ ShowsWords(loaded) => page.body /\ told.html.body
        /\ page.placeholder <=> ~(loaded.known /\ Decoded(loaded))
        /\ ~page.body /\ ~page.placeholder <=> page.diagnostic.reason = "empty-topic-body"
        /\ told.html.placeholder <=> page.placeholder
        /\ told.html.severity = page.diagnostic.severity
        /\ told.inventory.diagnostic = page.diagnostic
        /\ told.inventory.counted = "typed" <=> page.diagnostic.severity \in {"typed", "typed-degraded"}
        /\ page.marked <=> loaded.known /\ ~proven
        /\ proven => LET claims == Claiming(loaded) \cup
                                     (IF Claiming(loaded) = {} THEN {"prose"} ELSE {})
                     IN  /\ claims = {page.diagnostic.family}
                         /\ loaded.verdict[page.diagnostic.family] \in {"proven", "bare"}
=============================================================================
