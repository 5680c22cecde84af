--------------------------- MODULE LogicalRecords ---------------------------
(***************************************************************************)
(* The payload of one logical record and the text its display lines show   *)
(* (container/logical.cpp, layout/display_lines.cpp).                      *)
(*                                                                         *)
(* A payload is a sequence of bytes: display lines, each a length byte and *)
(* that many bytes of token references.  A byte at or above the book's     *)
(* threshold opens a two-byte reference.  A token is [begin, width, value];*)
(* the dictionary gives its words, of which the first may be a spacing     *)
(* control 0..3.  A line is the tokens prefix..last, of which the prefix   *)
(* is its length byte.                                                     *)
(***************************************************************************)
EXTENDS Assembly

CONSTANTS Threshold,   \* directory.token_threshold
          Dictionary,  \* [values -> sequences of words]
          Undecided    \* no framing: the payload is not made of whole lines

Tokens       == [begin : Nat, width : {1, 2}, value : Seq(Nat)]
FramingLines == [prefix : Nat, last : Nat]
-----------------------------------------------------------------------------
(* decode_one_token(): the reference that begins at a byte, of a stretch   *)
(* whose last byte is "last".                                              *)
Token(payload, at, last) ==
  IF payload[at] >= Threshold /\ at < last
  THEN [begin |-> at, width |-> 2, value |-> <<payload[at], payload[at + 1]>>]
  ELSE [begin |-> at, width |-> 1, value |-> <<payload[at]>>]

Words(token) == IF token.value \in DOMAIN Dictionary THEN Dictionary[token.value] ELSE <<>>
After(token)  == token.begin + token.width

(* From left to right, whatever the lengths say.                           *)
PlainWalk(payload) ==
  LET walk[at \in 1..Len(payload) + 1] ==
        IF at > Len(payload) THEN <<>>
        ELSE LET t == Token(payload, at, Len(payload)) IN <<t>> \o walk[After(t)]
  IN  walk[1]

(* token_display_lines(): the lines of a list of tokens, unless a length   *)
(* byte is not a token of its own or a line ends inside a token.           *)
DisplayLines(tokens, last) ==
  LET Begin(i) == IF i > Len(tokens) THEN last + 1 ELSE tokens[i].begin
      lines[i \in 1..Len(tokens) + 1] ==
        IF i > Len(tokens) THEN <<>>
        ELSE LET end  == After(tokens[i]) + tokens[i].value[1]
                 next == {j \in i + 1..Len(tokens) + 1 : Begin(j) = end}
             IN  IF tokens[i].width # 1 \/ next = {} THEN Undecided
                 ELSE LET j == CHOOSE k \in next : TRUE
                      IN IF lines[j] = Undecided THEN Undecided
                         ELSE <<[prefix |-> i, last |-> j - 1]>> \o lines[j]
  IN  lines[1]

(* decode_display_line_tokens(): the references that fill the bytes of a   *)
(* line from first to end, if they do.                                     *)
LineTokens(payload, first, end) ==
  LET content[at \in first..end + 2] ==
        IF at > end + 1 THEN Undecided
        ELSE IF at = end + 1 THEN <<>>
        ELSE LET t == Token(payload, at, Len(payload))
             IN  IF content[After(t)] = Undecided THEN Undecided
                 ELSE <<t>> \o content[After(t)]
  IN  content[first]

(* Each length byte is a token, and each line must end with one.           *)
RelinedWalk(payload) ==
  LET lines[at \in 1..Len(payload) + 1] ==
        IF at > Len(payload) THEN <<>>
        ELSE LET end  == at + payload[at]
                 line == LineTokens(payload, at + 1, end)
             IN  IF end > Len(payload) THEN Undecided
                 ELSE IF line = Undecided \/ lines[end + 1] = Undecided THEN Undecided
                 ELSE <<Token(payload, at, at)>> \o line \o lines[end + 1]
  IN  lines[1]

(* A mutant: a payload is never read again by its lines. *)
DecodePayloadPlain(payload) ==
  [tokens |-> PlainWalk(payload), lines |-> DisplayLines(PlainWalk(payload), Len(payload))]

(* decode_record_payload_ir(): the plain walk stands where it agrees with  *)
(* the lines; otherwise the lines are tried.                               *)
DecodePayload(payload) ==
  LET plain  == PlainWalk(payload)
      again  == RelinedWalk(payload)
      tokens == IF DisplayLines(plain, Len(payload)) = Undecided /\ again # Undecided
                  THEN IF DisplayLines(again, Len(payload)) = Undecided THEN plain ELSE again
                  ELSE plain
  IN  [tokens |-> tokens, lines |-> DisplayLines(tokens, Len(payload))]

(* verify_token_ir() and verify_display_line_framing(): a record that      *)
(* fails either is refused, and with it the book.                          *)
Verified(record, payload) ==
  LET tokens == record.tokens  lines == record.lines
      Begin(i) == IF i > Len(tokens) THEN Len(payload) + 1 ELSE tokens[i].begin
  IN  /\ Begin(1) = 1 /\ \A i \in DOMAIN tokens : After(tokens[i]) = Begin(i + 1)
      /\ lines # Undecided =>
           /\ \A l \in DOMAIN lines :
                LET line == lines[l]
                IN  /\ line.prefix = (IF l = 1 THEN 1 ELSE lines[l - 1].last + 1)
                    /\ line.prefix <= line.last /\ tokens[line.prefix].width = 1
                    /\ Begin(line.last + 1) = Begin(line.prefix) + 1 + tokens[line.prefix].value[1]
           /\ Len(tokens) = IF lines = <<>> THEN 0 ELSE lines[Len(lines)].last
-----------------------------------------------------------------------------
LineText(record, line) ==
  Shown(line.prefix, line.last,
        Assemble([i \in DOMAIN record.tokens |-> Words(record.tokens[i])]).entries)
-----------------------------------------------------------------------------
VARIABLES written,   \* the lines an encoder wrote, each a sequence of references
          payload,   \* their bytes; or any bytes, if written is Undecided
          record     \* what the decoder makes of them

\* A byte at or above the threshold never stands alone.
References == {r \in Seq(Nat) : \/ Len(r) = 1 /\ r[1] < Threshold
                                \/ Len(r) = 2 /\ r[1] >= Threshold}
LineBytes(line) == LET bytes == FlattenSeq(line) IN <<Len(bytes)>> \o bytes
Encoded(lines)  == FlattenSeq([i \in DOMAIN lines |-> LineBytes(lines[i])])

CONSTANTS Books,     \* the sequences of lines that may be written
          Payloads   \* any payloads

Init == /\ \/ written \in Books /\ payload = Encoded(written)
           \/ written = Undecided /\ payload \in Payloads
        /\ record = Undecided

Decode == /\ record = Undecided
          /\ record' = DecodePayload(payload)
          /\ UNCHANGED <<written, payload>>
-----------------------------------------------------------------------------
Content(line) == [i \in 1..line.last - line.prefix |-> record.tokens[line.prefix + i]]
Values(line)  == [i \in DOMAIN Content(line) |-> Content(line)[i].value]
Spelled       == [i \in DOMAIN record.tokens |-> Words(record.tokens[i])]

(* No payload makes the decoder refuse the book, and what was written as   *)
(* lines is read back as these lines, also where a length byte looks like  *)
(* the first half of a reference (logical.cpp:753-810).                    *)
LinesReadBack ==
  record # Undecided =>
    /\ Verified(record, payload)
    /\ written # Undecided =>
         /\ record.lines # Undecided
         /\ [l \in DOMAIN record.lines |-> Values(record.lines[l])] = written

Trimmed(text) ==
  LET inked == {i \in DOMAIN text : text[i] # Space}
  IN  IF inked = {} THEN <<>> ELSE SubSeq(text, 1, CHOOSE i \in inked : \A j \in inked : j <= i)

(* A line that follows a word, and is followed by nothing.                 *)
Alone(line) ==
  LET tokens == <<<<Space + 1>>>> \o [i \in DOMAIN Content(line) |-> Words(Content(line)[i])]
  IN  Shown(1, Len(tokens), Assemble(tokens).entries)

(* A word that attaches itself, with nothing but spaces before it.         *)
Inked(words)    == \E i \in DOMAIN Body(words) : Body(words)[i] # Space
Attaches(words) == HasControl(words) /\ Head(words) \in {0, 1}
Hanging(line) ==
  \E i \in line.prefix + 1..line.last : Attaches(Spelled[i]) /\ \A j \in 1..i - 1 : ~Inked(Spelled[j])

(* The text of a display line is that of its own references, whatever its  *)
(* neighbours are and whatever word the dictionary has for its length      *)
(* byte; and every word of the output lies in the span of the token that   *)
(* gave it.  One case is left out: where nothing but spaces comes before a *)
(* word that attaches itself, as when a record begins with a length byte   *)
(* that spells a bare control, it may find nothing to attach to            *)
(* (logical.cpp:389-490, display_lines.cpp:193-235).                       *)
LinesKeepTheirText ==
  record # Undecided /\ record.lines # Undecided =>
    /\ LET out == Assemble(Spelled)
       IN  \A i \in DOMAIN out.entries : LET span == out.spans[out.entries[i].token]
                                         IN  i \in span.begin..span.end - 1
    /\ \A l \in DOMAIN record.lines :
         LET line == record.lines[l]
         IN  Trimmed(LineText(record, line)) = Trimmed(Alone(line)) \/ Hanging(line)
=============================================================================
