----------------------------- MODULE Ownership ------------------------------
(***************************************************************************)
(* The ledger of a topic's source cells (layout/ownership_ir.cpp): which   *)
(* display run draws which word of which record, and in what column.       *)
(*                                                                         *)
(* A source is [number, tokens, lengths, controls]: the words of a logical *)
(* record, the tokens that are length bytes, and the words that control    *)
(* segments cover.  A cell is <<record, token, word>>.  A run is the       *)
(* sequence of its rows, [record, begin, end, marked]: the tokens from     *)
(* begin and before end, of which the first is its marker if it has one.   *)
(***************************************************************************)
EXTENDS Assembly

CONSTANTS Topics,  \* the topics that may be laid out: [sources, runs]
          Nobody   \* no run, no column, no conflict

VARIABLES topic,  \* the topic
          next,   \* the run to be owned next
          ledger  \* [cells, rows, conflicts, broken]

vars == <<topic, next, ledger>>
-----------------------------------------------------------------------------
Numbers(sources)     == {sources[s].number : s \in DOMAIN sources}
Source(sources, number) == sources[CHOOSE s \in DOMAIN sources : sources[s].number = number]
CellsOf(sources) ==
  UNION {UNION {{<<src.number, t, w>> : w \in DOMAIN src.tokens[t]} : t \in DOMAIN src.tokens} :
            src \in {sources[s] : s \in DOMAIN sources}}
Word(sources, cell)  == Source(sources, cell[1]).tokens[cell[2]][cell[3]]

(* A leading word below 4 controls the spacing, unless it is a length byte *)
(* that spells like one.                                                   *)
Spacing(source, t, w) == w = 1 /\ source.tokens[t][w] < 4

(* What a cell is before any run claims it.                                *)
Initially(sources) ==
  [c \in CellsOf(sources) |->
     LET source == Source(sources, c[1])
     IN  [run |-> Nobody, row |-> 0, disposition |->
            IF (Spacing(source, c[2], c[3]) /\ c[2] \notin source.lengths) \/ c \in source.controls
            THEN "control_operand" ELSE "opaque"]]

(* structural_padding(): nothing but blanks and controls.                  *)
Padding(token) == token # <<>> /\ \A w \in DOMAIN token : token[w] <= Space

Disposition(source, row, t) ==
  LET origin == row.begin + (IF row.marked THEN 1 ELSE 0)
  IN  CASE t < origin -> "marker_slot"
        [] t = origin -> "layout_origin"
        [] t > origin /\ Padding(source.tokens[t])  -> "layout_padding"
        [] t > origin /\ ~Padding(source.tokens[t]) -> "visible_content"

(* The cells that the rows of a run claim, in order.                       *)
ClaimsOfToken(source, row, r, t) ==
  LET held  == source.tokens[t]
      first == IF held # <<>> /\ Spacing(source, t, 1) /\ ~(row.marked /\ t = row.begin /\ t \in source.lengths)
               THEN 2 ELSE 1
  IN  [w \in 1..Len(held) - first + 1 |->
         [cell |-> <<source.number, t, w + first - 1>>, row |-> r,
          disposition |-> Disposition(source, row, t)]]

ClaimsOfRow(sources, row, r) ==
  LET source == Source(sources, row.record)
      last   == IF row.end - 1 <= Len(source.tokens) THEN row.end - 1 ELSE Len(source.tokens)
  IN  FlattenSeq([i \in 1..last - row.begin + 1 |->
                    ClaimsOfToken(source, row, r, row.begin + i - 1)])

(* A row without a record ends the walk over the run.                      *)
Sourced(sources, run) ==
  LET lost == {r \in DOMAIN run : run[r].record \notin Numbers(sources)}
  IN  IF lost = {} THEN Len(run) ELSE (CHOOSE r \in lost : \A l \in lost : r <= l) - 1

Claims(sources, run) ==
  FlattenSeq([r \in 1..Sourced(sources, run) |-> ClaimsOfRow(sources, run[r], r)])
-----------------------------------------------------------------------------
(* RowDisplayColumns: the output is counted from the first word of the     *)
(* row's origin; what the assembler inserted counts, but is no cell.       *)
Column(entries, row, cell) ==
  LET origin  == row.begin + (IF row.marked THEN 1 ELSE 0)
      Is(i, t, w) == entries[i].index # 0 /\ entries[i].token = t /\ entries[i].index = w
      start   == {i \in DOMAIN entries : Is(i, origin, 1)}
      at      == {i \in DOMAIN entries : Is(i, cell[2], cell[3])}
  IN  IF start = {} \/ at = {} THEN Nobody
      ELSE LET s == CHOOSE i \in start : TRUE  i == CHOOSE i \in at : TRUE
           IN IF i < s THEN Nobody ELSE i - s

Positioned(sources, run, id, claim) ==
  LET row == run[claim.row]
  IN  [run |-> id, cell |-> claim.cell, row |-> claim.row,
       column |-> IF claim.disposition = "marker_slot" THEN Nobody
                  ELSE Column(Assemble(Source(sources, row.record).tokens).entries, row, claim.cell)]
Placed(sources, run, id, claims) ==
  [i \in DOMAIN claims |-> Positioned(sources, run, id, claims[i])]

(* Why a run may not own what it claims: a cell that is something else, or *)
(* is owned or claimed twice; a cell that is drawn nowhere.                *)
Taken(claims, cells) ==
  {i \in DOMAIN claims :
     \/ cells[claims[i].cell].disposition \notin {"opaque", claims[i].disposition}
     \/ cells[claims[i].cell].run # Nobody
     \/ \E j \in 1..i - 1 : claims[j].cell = claims[i].cell}
Undrawn(claims, placed) ==
  {i \in DOMAIN claims : claims[i].disposition # "marker_slot" /\ placed[i].column = Nobody}

Owned(cells, id, claims) ==
  [c \in DOMAIN cells |->
     LET made == {i \in DOMAIN claims : claims[i].cell = c}
     IN  IF made = {} THEN cells[c]
         ELSE LET claim == claims[CHOOSE i \in made : TRUE]
              IN  [run |-> id, row |-> claim.row, disposition |-> claim.disposition]]

(* A mutant: a run that is drawn nowhere keeps its cells. *)
OwnUndrawn(id, claims, placed, complete, before) ==
  LET lost  == Taken(claims, before.cells) # {}
      drawn == SelectSeq(placed, LAMBDA p : p.column # Nobody)
  IN  [cells     |-> IF lost THEN before.cells ELSE Owned(before.cells, id, claims),
       rows      |-> IF lost THEN before.rows ELSE before.rows \o drawn,
       conflicts |-> IF lost THEN before.conflicts \cup {id} ELSE before.conflicts,
       broken    |-> before.broken]

(* One run: it owns all that it claims, or nothing.  A row whose record is *)
(* missing breaks the whole ledger, if the run gets as far.                *)
OwnWhole(id, claims, placed, complete, before) ==
  LET taken  == Taken(claims, before.cells)
      broken == before.broken \/ (~complete /\ taken = {})
  IN  IF taken \cup Undrawn(claims, placed) # {}
      THEN [before EXCEPT !.conflicts = @ \cup {id}, !.broken = broken]
      ELSE [before EXCEPT !.cells  = Owned(@, id, claims),
                          !.rows   = @ \o placed,
                          !.broken = broken]

OwnClaims(sources, run, id, claims, before) ==
  OwnWhole(id, claims, Placed(sources, run, id, claims), Sourced(sources, run) = Len(run), before)
OwnRun(sources, run, id, before) == OwnClaims(sources, run, id, Claims(sources, run), before)

(* verify_ownership_ir(): a ledger is accepted if nothing is missing, and  *)
(* every row that is owned shows something, and its marker if it spells    *)
(* a word.                                                                 *)
Accepted(sources, runs, built) ==
  /\ ~built.broken
  /\ \A id \in DOMAIN runs \ built.conflicts : \A r \in DOMAIN runs[id] :
       LET row    == runs[id][r]
           Has(d) == \E c \in DOMAIN built.cells :
                       built.cells[c] = [run |-> id, row |-> r, disposition |-> d]
       IN  /\ Has("visible_content")
           /\ row.marked => Has("marker_slot") \/ Source(sources, row.record).tokens[row.begin] = <<>>
-----------------------------------------------------------------------------
Empty(sources) == [cells |-> Initially(sources), rows |-> <<>>, conflicts |-> {}, broken |-> FALSE]

Init == topic \in Topics /\ next = 1 /\ ledger = Empty(topic.sources)

Own == /\ next <= Len(topic.runs)
       /\ ledger' = OwnRun(topic.sources, topic.runs[next], next, ledger)
       /\ next' = next + 1 /\ UNCHANGED topic

Spec == Init /\ [][Own]_vars
-----------------------------------------------------------------------------
Done     == next > Len(topic.runs)
OwnedBy(id) == {c \in DOMAIN ledger.cells : ledger.cells[c].run = id}
RowsOf(id)  == {i \in DOMAIN ledger.rows : ledger.rows[i].run = id}
Claimed(id) == LET claims == Claims(topic.sources, topic.runs[id])
               IN  {claims[i].cell : i \in DOMAIN claims}

(* The ledger of the same topic without the runs that have a conflict.     *)
Without(conflicts) ==
  LET upTo[id \in 0..Len(topic.runs)] ==
        IF id = 0 THEN Empty(topic.sources)
        ELSE IF id \in conflicts THEN upTo[id - 1]
        ELSE OwnRun(topic.sources, topic.runs[id], id, upTo[id - 1])
  IN  upTo[Len(topic.runs)]

DrawnWhole(id) ==
  IF id \in ledger.conflicts THEN OwnedBy(id) = {} /\ RowsOf(id) = {}
  ELSE /\ OwnedBy(id) = Claimed(id)
       /\ {ledger.rows[i].cell : i \in RowsOf(id)} = OwnedBy(id)
       /\ \A i, j \in RowsOf(id) :
            LET left == ledger.rows[i]  right == ledger.rows[j]
            IN  i < j => /\ left.cell # right.cell
                         /\ left.row = right.row /\ left.column # Nobody
                              => right.column # Nobody /\ left.column < right.column

(* A ledger that is accepted draws every run whole or not at all: a run    *)
(* without a conflict owns what it claims and no more, one with a conflict *)
(* owns nothing and is not drawn, and leaves no trace on any other run;    *)
(* what is drawn is what is owned, in one place only, and from left to     *)
(* right in each row (ownership_ir.cpp:250-636).                           *)
RunsOwnedWhole ==
  Done /\ Accepted(topic.sources, topic.runs, ledger) =>
    /\ \A id \in DOMAIN topic.runs : DrawnWhole(id)
    /\ [Without(ledger.conflicts) EXCEPT !.conflicts = ledger.conflicts] = ledger
=============================================================================
