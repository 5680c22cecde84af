----------------------------- MODULE PagedIndex -----------------------------
(***************************************************************************)
(* The 16-bit paged indexes of a container: where the records of the       *)
(* content pages and of the topics begin (container/logical.cpp:           *)
(* parse_paged_u16_index and its two callers).                             *)
(*                                                                         *)
(* An index is a chain of tables.  A table is [values, next, whole,        *)
(* terminal]: its values, the table after it or NoTable, whether it lies   *)
(* in the file with all its values, and the word that follows them, if it  *)
(* is there.  A table that is not in DOMAIN file lies past the end.        *)
(***************************************************************************)
EXTENDS Naturals, SequencesExt

CONSTANTS Files,     \* the containers: [tables -> table]
          Root,      \* the table the directory page points at
          Expected,  \* the counts the directory page may state
          Records,   \* the records of the book, as the directory page counts them
          NoTable, NoWord,
          Reading    \* no answer yet

VARIABLES file,      \* the container
          expected,  \* how many values the directory page promises
          terminal,  \* the caller wants the word after the last table too
          table, values, visited,
          starts     \* what the caller gets, once it is not Reading

vars == <<file, expected, terminal, table, values, visited, starts>>

Init == /\ file \in Files /\ expected \in Expected /\ terminal \in BOOLEAN
        /\ table = Root /\ values = <<>> /\ visited = {}
        /\ starts = Reading

Refused == starts' = <<>> /\ UNCHANGED <<table, values, visited>>

(* A mutant: the tables that were read are not remembered. *)
ReadableAgain == /\ table \in DOMAIN file /\ file[table].whole
                 /\ Len(values) + Len(file[table].values) <= expected

(* A table is read if it lies in the file, was not read before and holds   *)
(* no more than what is still expected.                                    *)
Readable == /\ table \in DOMAIN file /\ table \notin visited /\ file[table].whole
            /\ Len(values) + Len(file[table].values) <= expected

Refuse == starts = Reading /\ ~Readable /\ Refused

(* The chain goes on, or ends too early.                                   *)
Follow == /\ starts = Reading /\ Readable
          /\ Len(values) + Len(file[table].values) < expected
          /\ IF file[table].next = NoTable THEN Refused
             ELSE /\ values'  = values \o file[table].values
                  /\ visited' = visited \cup {table}
                  /\ table'   = file[table].next
                  /\ UNCHANGED starts

(* parse_content_page_record_starts() takes the word after the last table, *)
(* which names the last record, as the end of that page; the topics end at *)
(* one past the book's last record, which the caller knows.                *)
Finish == /\ starts = Reading /\ Readable
          /\ Len(values) + Len(file[table].values) = expected
          /\ LET all == values \o file[table].values  word == file[table].terminal
             IN  CASE terminal /\ word = NoWord -> starts' = <<>>
                   [] terminal /\ word # NoWord -> starts' = Append(all, word + 1)
                   [] OTHER -> starts' = IF all = <<>> THEN all ELSE Append(all, Records + 1)
          /\ UNCHANGED <<table, values, visited>>

Next == (Refuse \/ Follow \/ Finish) /\ UNCHANGED <<file, expected, terminal>>
Spec == Init /\ [][Next]_vars /\ WF_vars(Next)
-----------------------------------------------------------------------------
(* The first n tables of the chain, which must be there and all differ.    *)
Chain(n) == {c \in [1..n -> DOMAIN file] :
               /\ c[1] = Root /\ \A i \in 1..n - 1 : file[c[i]].next = c[i + 1]
               /\ IsInjective(c) /\ \A i \in 1..n : file[c[i]].whole}

Held(c) == FlattenSeq([i \in DOMAIN c |-> file[c[i]].values])

(* The shortest chain that holds what is expected, with its end; or nothing. *)
Meaning ==
  LET full == {c \in UNION {Chain(n) : n \in 1..Cardinality(DOMAIN file)} : Len(Held(c)) = expected}
      last(c) == file[c[Len(c)]].terminal
  IN  IF full = {} THEN <<>>
      ELSE LET c == CHOOSE c \in full : \A d \in full : Len(c) <= Len(d)
           IN  CASE terminal  -> IF last(c) = NoWord THEN <<>> ELSE Append(Held(c), last(c) + 1)
                 [] ~terminal -> IF Held(c) = <<>> THEN <<>> ELSE Append(Held(c), Records + 1)

(* An index is read to its end whatever the container holds, also when its *)
(* tables form a cycle of which some are empty, and what comes out is the  *)
(* whole of the shortest chain of distinct tables that fulfils the promise *)
(* of the directory page, or nothing (logical.cpp:310-387).                *)
WhollyRead     == starts = Meaning
IndexesAreRead == <>[]WhollyRead
=============================================================================
