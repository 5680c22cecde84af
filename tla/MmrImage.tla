------------------------------ MODULE MmrImage ------------------------------
(***************************************************************************)
(* A fax-coded picture read line by line (img/mmr.cpp), and the coding of  *)
(* T.4 and T.6 it has to undo.                                             *)
(*                                                                         *)
(* The bits are abstracted to the codes they spell: a mode of the two-     *)
(* dimensional coding, a run with its colour, the end of a line with the   *)
(* tag that follows it, or a fragment that is no whole code.  A picture is *)
(* [rows, forms, cut]: rows of TRUE for black; how each row is coded,      *)
(* "bare" and "tagged" against the row before it, "plain" by itself; and   *)
(* whether the payload may end early.                                      *)
(***************************************************************************)
EXTENDS Integers, Sequences, SequencesExt, FiniteSetsExt

CONSTANTS Pictures, Idle, Failed

VARIABLES
  picture,    \* what was coded
  codes,      \* the codes that are still to be read
  image,      \* rows decoded so far
  reference,  \* the runs of the last row, white first, and a final 0
  row         \* Idle, Failed, or [current, a0, pending, b1, pb]

vars == <<picture, codes, image, reference, row>>

Total(runs) == FoldLeft(LAMBDA s, r : s + r, 0, runs)

Width  == Len(picture.rows[1])
Height == Len(picture.rows)
-----------------------------------------------------------------------------
(* The coding, after the recommendations: positions count from 0, the row  *)
(* starts before its first element, and what comes before a row is white.  *)
Pass     == [code |-> "pass"]
Vertical(delta) == [code |-> "vertical", delta |-> delta]
Run(black, n)   == [code |-> "run", black |-> black, run |-> n]
Horizontal == [code |-> "horizontal"]
Eol(tag)   == [code |-> "eol", tag |-> tag]
Fragment   == [code |-> "fragment"]

Black(r, x) == x >= 0 /\ r[x + 1]

\* The first position after x that starts a run of the other colour; the
\* first where the row changes; the first where it changes to that colour.
Next1(r, x, black)  == Min({Len(r)} \cup {y \in (x+1)..(Len(r)-1) : Black(r, y) # black})
Changes(r, x)       == Min({Len(r)} \cup {y \in (x+1)..(Len(r)-1) : Black(r, y) # Black(r, y-1)})
ChangesFrom(r, x, black) ==
  Min({Len(r)} \cup {y \in (x+1)..(Len(r)-1) : Black(r, y) # black /\ Black(r, y-1) = black})

TwoDimensional(above, r) ==
  LET coded[a0 \in -1..Len(r), black \in BOOLEAN] ==
        LET a1 == Next1(r, a0, black)
            a2 == Next1(r, a1, ~black)
            b1 == ChangesFrom(above, a0, black)
            b2 == Changes(above, b1)
        IN  CASE a0 = Len(r) -> <<>>
              [] a0 < Len(r) /\ b2 < a1 -> <<Pass>> \o coded[b2, black]
              [] a0 < Len(r) /\ b2 >= a1 /\ a1 - b1 \in -3..3 ->
                   <<Vertical(a1 - b1)>> \o coded[a1, ~black]
              [] OTHER -> <<Horizontal, Run(black, a1 - Max({a0, 0})), Run(~black, a2 - a1)>>
                            \o coded[a2, black]
  IN  coded[-1, FALSE]

OneDimensional(r) ==
  LET coded[a0 \in -1..Len(r), black \in BOOLEAN] ==
        LET a1 == Next1(r, a0, black)
        IN  IF a0 = Len(r) THEN <<>>
            ELSE <<Run(black, a1 - Max({a0, 0}))>> \o coded[a1, ~black]
  IN  coded[-1, FALSE]

CodedLine(p, y) ==
  LET above == IF y = 1 THEN [x \in DOMAIN p.rows[1] |-> FALSE] ELSE p.rows[y - 1]
  IN  CASE p.forms[y] = "bare"   -> TwoDimensional(above, p.rows[y])
        [] p.forms[y] = "tagged" -> <<Eol(0)>> \o TwoDimensional(above, p.rows[y])
        [] OTHER                 -> <<Eol(1)>> \o OneDimensional(p.rows[y])

Coded(p, n) == FlattenSeq([y \in 1..n |-> CodedLine(p, y)])
-----------------------------------------------------------------------------
Init ==
  /\ picture \in Pictures
  /\ codes \in LET all == Coded(picture, Len(picture.rows))
               IN  {all} \cup IF picture.cut
                              THEN {SubSeq(all, 1, n) \o e : n \in 0..(Len(all) - 1),
                                                              e \in {<<>>, <<Fragment>>}}
                              ELSE {}
  /\ image = <<>>
  /\ reference = <<Len(picture.rows[1]), 0>>
  /\ row = Idle

\* write_runs: the pixels of runs that alternate, white first.
Drawn(runs) ==
  LET Ends(n) == Total(SubSeq(runs, 1, n))
  IN  [x \in 1..Width |-> \E n \in DOMAIN runs : n % 2 = 0 /\ Ends(n - 1) < x /\ x <= Ends(n)]

Throw == row' = Failed /\ UNCHANGED <<picture, codes, image, reference>>

Emit(runs) == /\ image' = Append(image, Drawn(runs \o <<0>>))
              /\ reference' = runs \o <<0>>
              /\ row' = Idle

IsEol(tag) == codes # <<>> /\ Head(codes) = Eol(tag)

(* read_line_kind, and the start of a row coded against the last. *)
Begin ==
  /\ row = Idle /\ Len(image) < Height /\ ~IsEol(1)
  /\ codes' = IF IsEol(0) THEN Tail(codes) ELSE codes
  /\ row' = [current |-> <<>>, a0 |-> 0, pending |-> 0, b1 |-> reference[1], pb |-> 1]
  /\ UNCHANGED <<picture, image, reference>>

(* decode_1d_line: runs of alternate colours until they fill the row. *)
Line ==
  LET given == {n \in 1..(Len(codes) - 1) :
                  \A i \in 1..n : codes[i + 1].code = "run" /\ codes[i + 1].black = (i % 2 = 0)}
      runs(n) == [i \in 1..n |-> codes[i + 1].run]
      full == {n \in given : Total(runs(n)) >= Width}
  IN  /\ row = Idle /\ Len(image) < Height /\ IsEol(1)
      /\ IF full = {} THEN Throw
         ELSE /\ Emit(runs(Min(full)))
              /\ codes' = SubSeq(codes, Min(full) + 2, Len(codes))
              /\ UNCHANGED picture
-----------------------------------------------------------------------------
ReferenceRun(i) == IF i \in DOMAIN reference THEN reference[i] ELSE 0

\* set_run
SetRun(r, run) ==
  LET clamped == IF r.a0 + run > Width THEN Width - r.a0 ELSE run
  IN  [r EXCEPT !.current = Append(@, r.pending + clamped), !.a0 = @ + clamped, !.pending = 0]

\* check_b1: b1 passes over pairs of runs until it is to the right of a0.
Beyond(r, k) == r.b1 + Total([i \in 1..(2 * k) |-> ReferenceRun(r.pb + i)])
Reaches(r, k) == Beyond(r, k) > r.a0 \/ Beyond(r, k) >= Width
Pairs(r) == Min({k \in 0..Len(reference) : Reaches(r, k)})
CheckAlways(r) == [r EXCEPT !.b1 = Beyond(r, Pairs(r)),
                            !.pb = Min({r.pb + 2 * Pairs(r), Max({r.pb, Len(reference)})})]
CheckB1(r) == IF r.current = <<>> THEN r ELSE CheckAlways(r)

PassMode ==
  LET r  == CheckB1(row)
      b2 == r.b1 + ReferenceRun(r.pb + 1)
  IN  /\ row' = [r EXCEPT !.pending = @ + b2 - r.a0, !.a0 = b2,
                          !.b1 = b2 + ReferenceRun(r.pb + 2), !.pb = Min({@ + 2, Len(reference)})]
      /\ codes' = Tail(codes)

HorizontalMode ==
  LET black == Len(row.current) % 2 # 0
      Reads(i, colour) == i \in DOMAIN codes /\ codes[i].code = "run" /\ codes[i].black = colour
  IN  IF Reads(2, black) /\ Reads(3, ~black)
      THEN /\ row' = CheckB1(SetRun(SetRun(row, codes[2].run), codes[3].run))
           /\ codes' = SubSeq(codes, 4, Len(codes))
      ELSE row' = Failed /\ UNCHANGED codes

\* b1 steps back a run after a code to its left.
BackLeft(r)  == IF r.pb > 0 THEN [r EXCEPT !.pb = @ - 1, !.b1 = @ - reference[r.pb]] ELSE r
OnRight(r)   == IF r.pb < Len(reference)
                THEN [r EXCEPT !.pb = @ + 1, !.b1 = @ + reference[r.pb + 1]] ELSE r
Moved(r, delta)    == IF delta < 0 THEN BackLeft(r) ELSE OnRight(r)

VerticalMode ==
  LET r == CheckB1(row)
      delta == Head(codes).delta
  IN  IF delta < 0 /\ r.b1 < r.a0 - delta
      THEN row' = Failed /\ UNCHANGED codes
      ELSE row' = Moved(SetRun(r, r.b1 - r.a0 + delta), delta) /\ codes' = Tail(codes)

Open == row \notin {Idle, Failed}
More == Open /\ row.a0 < Width /\ codes # <<>>

Decode ==
  /\ More
  /\ CASE Head(codes).code = "pass"       -> PassMode
       [] Head(codes).code = "horizontal" -> HorizontalMode
       [] Head(codes).code = "vertical"   -> VerticalMode
       [] OTHER                           -> row' = Failed /\ UNCHANGED codes
  /\ UNCHANGED <<picture, image, reference>>

(* The row is full, or the payload is at its end; a run that is still      *)
(* pending needs one more code unless it counts up to the margin.          *)
Finish ==
  /\ Open /\ ~More
  /\ IF row.pending # 0 /\ row.pending + row.a0 < Width THEN Throw
     ELSE /\ Emit(IF row.pending # 0 THEN SetRun(row, 0).current ELSE row.current)
          /\ UNCHANGED <<picture, codes>>

Next == Begin \/ Line \/ Decode \/ Finish

Spec == Init /\ [][Next]_vars
-----------------------------------------------------------------------------
(* img/mmr.cpp:322: every row reads back as it was coded, in its order,    *)
(* whichever way it and the row above were coded; a payload that ends      *)
(* early costs no row that it still holds, is not taken for a picture with *)
(* ink where there is none, and only such a payload is refused.            *)
PicturesReadBack ==
  /\ \A y \in DOMAIN image : \A x \in 1..Width : image[y][x] => picture.rows[y][x]
  /\ codes # <<>> \/ ~picture.cut => \A y \in DOMAIN image : image[y] = picture.rows[y]
  /\ ~picture.cut => row # Failed
=============================================================================
