------------------------------ MODULE Assembly -------------------------------
(***************************************************************************)
(* How the words of a record's tokens become one line of words, and which  *)
(* of them a display line shows (container/logical.cpp,                    *)
(* layout/display_lines.cpp).                                              *)
(*                                                                         *)
(* A token is the sequence of its words; its first word may be a spacing   *)
(* control 0..3.  An entry of the output is [word, token, index]; index 0  *)
(* is a space that the assembler inserted.                                 *)
(***************************************************************************)
EXTENDS Naturals, SequencesExt

Space     == 32
Control   == 0..3
-----------------------------------------------------------------------------
HasControl(words) == words # <<>> /\ Head(words) \in Control
Body(words)       == IF HasControl(words) THEN Tail(words) ELSE words
Entries(t, words) ==
  [i \in DOMAIN Body(words) |-> [word |-> Body(words)[i], token |-> t,
                                 index |-> IF HasControl(words) THEN i + 1 ELSE i]]
EndsInSpace(entries) == entries # <<>> /\ entries[Len(entries)].word = Space
Dropped(entries)     == IF EndsInSpace(entries) THEN Front(entries) ELSE entries

(* Where a token's words begin and end in the output; a space taken back   *)
(* shortens the token it came from.                                        *)
Shortened(spans, entries) ==
  IF EndsInSpace(entries)
  THEN [spans EXCEPT ![entries[Len(entries)].token].end = Len(entries)]
  ELSE spans

(* One token: controls 0 and 1 attach it to what stands before, 0 and 2    *)
(* keep what follows from being spaced away.                               *)
AssembleToken(state, t, words) ==
  LET control == IF HasControl(words) THEN Head(words) ELSE 3
      attach  == control \in {0, 1} /\ state.entries # <<>>
      kept    == IF attach THEN Dropped(state.entries) ELSE state.entries
      spans   == IF attach THEN Shortened(state.spans, state.entries) ELSE state.spans
      added   == kept \o Entries(t, words)
      wide    == IF EndsInSpace(Entries(t, words)) \/ (attach /\ (control = 0 \/ Body(words) = <<>>))
                 THEN 2 ELSE control
      ended   == IF wide = 2 THEN added ELSE Append(added, [word |-> Space, token |-> t, index |-> 0])
  IN  [entries |-> ended, wide |-> wide,
       spans |-> Append(spans, [begin |-> Len(kept) + 1, end |-> Len(ended) + 1])]

(* assemble_logical_record_with_sources(); the space after the last token  *)
(* is taken back.                                                          *)
Assemble(tokens) ==
  LET upTo[t \in 0..Len(tokens)] ==
        IF t = 0 THEN [entries |-> <<>>, wide |-> 2, spans |-> <<>>]
        ELSE AssembleToken(upTo[t - 1], t, tokens[t])
      all == upTo[Len(tokens)]
  IN  IF Len(all.entries) > 1 /\ all.wide # 2
      THEN [entries |-> Front(all.entries),
            spans   |-> [all.spans EXCEPT ![Len(tokens)].end = Len(all.entries)]]
      ELSE [entries |-> all.entries, spans |-> all.spans]

(* The words of some tokens, and one space where the assembler put some    *)
(* between two of them.                                                    *)
Visit(tokens, state, e) ==
  IF e.index = 0 THEN [state EXCEPT !.pending = state.text # <<>>]
  ELSE IF e.token \in tokens
  THEN [text    |-> state.text \o (IF state.pending THEN <<Space>> ELSE <<>>) \o <<e.word>>,
        pending |-> FALSE]
  ELSE state

TextOf(tokens, entries) ==
  LET seen[n \in 0..Len(entries)] ==
        IF n = 0 THEN [text |-> <<>>, pending |-> FALSE] ELSE Visit(tokens, seen[n - 1], entries[n])
  IN  seen[Len(entries)].text

(* A mutant: the length byte is shown with its line. *)
ShownWithLength(prefix, last, entries) == TextOf(prefix..last, entries)

(* display_line_text()                                                     *)
Shown(prefix, last, entries) == TextOf(prefix + 1..last, entries)
=============================================================================
