------------------------------ MODULE Decoding -------------------------------
(***************************************************************************)
(* What the library makes of a book's records, in three parts that share   *)
(* no state:                                                               *)
(*   LogicalRecords  one record, from its bytes to its lines               *)
(*   Contents        one book that is opened                               *)
(*   Ownership       one topic that is laid out                            *)
(***************************************************************************)
EXTENDS Naturals, SequencesExt

CONSTANTS Threshold, Dictionary, Books, Payloads,  \* of LogicalRecords
          Volumes,                                 \* of Contents
          Laid,                                    \* of Ownership
          Unset                                    \* no framing, nothing opened, no owner

VARIABLES written, payload, record,  \* of LogicalRecords
          volume, contents,          \* of Contents
          topic, next, ledger        \* of Ownership

D == INSTANCE LogicalRecords WITH Undecided <- Unset
C == INSTANCE Contents WITH ContentsId <- "contents", Top <- "top", None <- Unset, opened <- contents
O == INSTANCE Ownership WITH Topics <- Laid, Nobody <- Unset

line   == <<written, payload, record>>
toc    == <<volume, contents>>
layout == <<topic, next, ledger>>

\* What is written are references, what is read are bytes; Unset is no framing.
ASSUME LinesAssumption ==
  /\ Threshold \in Nat
  /\ Books \subseteq Seq(Seq(D!References)) /\ Payloads \subseteq Seq(Nat)
  /\ Unset \notin Seq(D!Tokens) /\ Unset \notin Seq(D!FramingLines)

IsASequence(s) == s \in Seq({s[i] : i \in DOMAIN s})

\* The dictionary has a sequence of words for each reference.
ASSUME DictionaryAssumption == \A v \in DOMAIN Dictionary : IsASequence(Dictionary[v])

\* A book has a sequence of records, and each of them one of contents lines;
\* the top is no topic.
ASSUME VolumesAssumption ==
  /\ Unset \notin Nat
  /\ \A v \in Volumes : /\ IsASequence(v.records)
                        /\ \A r \in DOMAIN v.records : /\ v.records[r].header # "top"
                                                        /\ IsASequence(v.records[r].entries)

\* A topic that is laid out has sequences of sources, of their tokens' words and
\* of runs, whose rows begin with a token.
ASSUME LayoutsAssumption ==
  \A t \in Laid :
    /\ IsASequence(t.sources) /\ IsASequence(t.runs)
    /\ \A s \in DOMAIN t.sources :
         LET tokens == t.sources[s].tokens
         IN  IsASequence(tokens) /\ \A k \in DOMAIN tokens : IsASequence(tokens[k])
    /\ \A id \in DOMAIN t.runs :
         /\ IsASequence(t.runs[id])
         /\ \A r \in DOMAIN t.runs[id] : /\ t.runs[id][r].begin \in Nat \ {0}
                                         /\ t.runs[id][r].end \in Nat
=============================================================================
