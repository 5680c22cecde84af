--------------------------- MODULE Readers_proofs ---------------------------
(***************************************************************************)
(* Proofs about the readers and the parts of the library that MCReaders    *)
(* sets side by side, for all values of its constants.  A behaviour stays  *)
(* in the part it has picked (PartsApart), so a part's inductive invariant *)
(* is one of the whole, read in that part.                                 *)
(*   BookSource  what the opening thread has got done (SourceStep) decides *)
(*               what document, rows and title may be; a decoded object is *)
(*               of the document it was decoded for                        *)
(*   BookPrint   the job owes an answer exactly while it awaits something; *)
(*               a topic's number is the sum of the pages ahead of it      *)
(*   TopicRoute  what was told is the outcome of the topic, whose kinds    *)
(*               of outcome are told apart case by case                    *)
(*   Contents, LogicalRecords, Ownership  as Decoding_proofs has them      *)
(***************************************************************************)
EXTENDS MCReaders, Decoding_proofs

(* A step is one of the part that was picked, and changes no other part.   *)
LEMMA PartsApart ==
  ASSUME [MCNext]_all
  PROVE  /\ part' = part
         /\ [S!Next]_(S!vars)
         /\ part = "lines" => [D!Decode]_line
         /\ part = "contents" => [C!Open]_<<volume, contents>>
         /\ part = "ledger" => [O!Own]_<<topic, next, ledger>>
         /\ part = "print" => [P!Next]_(P!vars)
         /\ part = "route" => [R!Render]_(R!vars)
<1> USE DEF all, book, line, toc, layout, job, route, S!vars, S!shared, S!own, P!vars, R!vars
<1>1. CASE UNCHANGED all
  BY <1>1
<1>2. CASE MCNext
  BY <1>2 DEF MCNext
<1>3. QED
  BY <1>1, <1>2
-----------------------------------------------------------------------------
(* BookSource *)

SourceListed(doc) == IF doc = None THEN S!NoRows ELSE [of |-> doc, count |-> BookTopics]

(* Nothing is served from the moment the old book is dropped until the new *)
(* one is published; the new one is described only with all of its rows.   *)
SourceStep ==
  /\ links = document
  /\ opening.at \in {"idle", "close"} => title = document /\ rows = SourceListed(document)
  /\ opening.at \in {"clear", "harvest", "publish"} => document = None
  /\ opening.at \in {"harvest", "publish"} => opening.doc # None
  /\ opening.at = "harvest" => /\ title = None
                               /\ rows = S!NoRows \/ (rows.of = opening.doc /\ rows.count > 0)
  /\ opening.at = "publish" => title = opening.doc /\ rows = SourceListed(opening.doc)

(* A kept object is of the open document.                                  *)
SourceKept(o) == objects[o] # None => objects[o].of = document

(* A call has the document it asked, with that document's links, and what  *)
(* it decoded is of it.                                                    *)
SourceCarried(c) ==
  /\ call[c].at # "idle" => call[c].doc # None
  /\ call[c].at = "page" => call[c].links = call[c].doc
  /\ call[c].at \in {"decode", "store"} => call[c].id \in Objects
  /\ call[c].at \in {"store", "answer"} =>
       call[c].data # None /\ call[c].data.of = call[c].doc

SourceInv ==
  /\ S!TypeOK /\ SourceStep
  /\ \A o \in Objects : SourceKept(o)
  /\ \A c \in Callers : SourceCarried(c)

LEMMA SourceStarts == S!Init => SourceInv
  BY SourceAssumption DEF S!Init, SourceInv, S!TypeOK, SourceStep, SourceKept, SourceCarried, SourceListed, S!NoRows, S!Maybe,
         S!Calls, S!Resting, S!Decoded, S!Documents

(* open() and close(), step by step.                                       *)
LEMMA OpeningKeepsSource ==
  ASSUME SourceInv, S!Open \/ S!Close \/ S!Drop \/ S!Clear \/ S!Harvest \/ S!HarvestThrows \/ S!Describe \/ S!Publish
  PROVE  SourceInv'
<1> USE DEF SourceInv
<1>2. S!TypeOK'
  <2> USE SourceAssumption DEF S!TypeOK, S!Maybe, S!NoRows, S!shared, S!own
  <2>1. CASE S!Open
    BY <2>1 DEF S!Open, S!Documents
  <2>2. CASE S!Close
    BY <2>2 DEF S!Close
  <2>3. CASE S!Drop
    BY <2>3 DEF S!Drop
  <2>4. CASE S!Clear
    BY <2>4 DEF S!Clear
  <2>5. CASE S!Harvest
    BY <2>5 DEF S!Harvest
  <2>6. CASE S!HarvestThrows
    BY <2>6 DEF S!HarvestThrows
  <2>7. CASE S!Describe
    BY <2>7 DEF S!Describe
  <2>8. CASE S!Publish
    BY <2>8 DEF S!Publish
  <2>9. QED
    BY <2>1, <2>2, <2>3, <2>4, <2>5, <2>6, <2>7, <2>8
<1>3. SourceStep'
  <2> USE SourceAssumption DEF S!TypeOK, S!Maybe, S!NoRows, SourceStep, SourceListed, S!shared, S!own
  <2>1. CASE S!Open
    BY <2>1 DEF S!Open
  <2>2. CASE S!Close
    BY <2>2 DEF S!Close
  <2>3. CASE S!Drop
    BY <2>3 DEF S!Drop
  <2>4. CASE S!Clear
    BY <2>4 DEF S!Clear
  <2>5. CASE S!Harvest
    BY <2>5 DEF S!Harvest
  <2>6. CASE S!HarvestThrows
    BY <2>6 DEF S!HarvestThrows
  <2>7. CASE S!Describe
    BY <2>7 DEF S!Describe
  <2>8. CASE S!Publish
    BY <2>8 DEF S!Publish
  <2>9. QED
    BY <2>1, <2>2, <2>3, <2>4, <2>5, <2>6, <2>7, <2>8
<1>4. \A o \in Objects : SourceKept(o)'
  <2>1. CASE S!Drop
    BY <2>1 DEF S!Drop, SourceKept
  <2>2. CASE S!Publish
    <3>1. \A o \in Objects : objects[o] = None
      BY <2>2, SourceAssumption DEF S!Publish, S!TypeOK, SourceStep, SourceKept, S!Maybe, S!Decoded
    <3>2. QED
      BY <2>2, <3>1 DEF S!Publish, SourceKept
  <2>3. CASE ~S!Drop /\ ~S!Publish
    <3>1. UNCHANGED S!shared
      BY <2>3 DEF S!Open, S!Close, S!Clear, S!Harvest, S!HarvestThrows, S!Describe
    <3>2. QED
      BY <3>1 DEF SourceKept, S!shared
  <2>4. QED
    BY <2>1, <2>2, <2>3
<1>5. \A c \in Callers : SourceCarried(c)'
  <2>1. UNCHANGED call
    BY DEF S!Open, S!Close, S!Drop, S!Clear, S!Harvest, S!HarvestThrows, S!Describe, S!Publish, S!shared, S!own
  <2>2. QED
    BY <2>1 DEF SourceCarried
<1>6. QED
  BY <1>2, <1>3, <1>4, <1>5

(* The threads that serve: one call changes, and perhaps one object.       *)
LEMMA CallsKeepSource ==
  ASSUME SourceInv, NEW c \in Callers,
         S!TopicPage(c) \/ S!Search(c) \/ S!ObjectPng(c) \/ S!Decode(c) \/ S!Store(c) \/ S!Return(c)
  PROVE  SourceInv'
<1> USE DEF SourceInv
<1>2. UNCHANGED <<document, links, S!own>>
  BY DEF S!TopicPage, S!Search, S!ObjectPng, S!Decode, S!Store, S!Return, S!shared, S!own
<1>3. SourceStep'
  BY <1>2 DEF SourceStep, SourceListed, S!own
<1>4. /\ call' \in [Callers -> S!Calls]
      /\ objects' \in [Objects -> S!Maybe(S!Decoded)]
      /\ \A o \in Objects : SourceKept(o)'
      /\ \A d \in Callers : SourceCarried(d)'
  <2> USE SourceAssumption DEF S!TypeOK, SourceStep, SourceKept, SourceCarried, S!Calls, S!Resting, S!Maybe, S!shared, S!own
  <2>1. CASE S!TopicPage(c)
    BY <2>1 DEF S!TopicPage
  <2>2. CASE S!Search(c)
    BY <2>2 DEF S!Search
  <2>3. CASE S!ObjectPng(c)
    <3>1. PICK o \in Objects :
            call' = [call EXCEPT ![c] = [S!Resting EXCEPT !.doc = document, !.id = o,
                       !.at = IF objects[o] = None THEN "decode" ELSE "answer",
                       !.data = objects[o]]]
      BY <2>3 DEF S!ObjectPng
    <3>2. UNCHANGED <<S!shared, S!own>> /\ document \in S!Documents
      BY <2>3 DEF S!ObjectPng
    <3>3. CASE objects[o] = None
      BY <3>1, <3>2, <3>3
    <3>4. CASE objects[o] # None
      BY <3>1, <3>2, <3>4
    <3>5. QED
      BY <3>3, <3>4
  <2>4. CASE S!Decode(c)
    <3>1. PICK png \in BOOLEAN :
            call' = [call EXCEPT ![c].at = "store",
                                 ![c].data = [of |-> call[c].doc, png |-> png]]
      BY <2>4 DEF S!Decode
    <3>2. UNCHANGED <<S!shared, S!own>> /\ call[c].at = "decode" /\ call[c].doc \in S!Documents
      BY <2>4 DEF S!Decode
    <3>3. [of |-> call[c].doc, png |-> png] \in S!Decoded
      BY <3>2 DEF S!Decoded
    <3>4. /\ call'[c] = [call[c] EXCEPT !.at = "store", !.data = [of |-> call[c].doc, png |-> png]]
          /\ \A d \in Callers \ {c} : call'[d] = call[d]
          /\ DOMAIN call' = Callers
      BY <3>1
    <3>5. call' \in [Callers -> S!Calls]
      <4>1. call[c] \in [at : {"idle", "page", "scan", "decode", "store", "answer"},
                         doc : S!Maybe(S!Documents), links : S!Maybe(S!Documents), id : S!Maybe(Objects),
                         data : S!Maybe(S!Decoded)]
        OBVIOUS
      <4>2. call'[c] \in S!Calls
        BY <3>3, <3>4, <4>1
      <4>3. QED
        BY <3>1, <3>4, <4>2
    <3>6. \A d \in Callers : SourceCarried(d)'
      BY <3>1, <3>2, <3>3, <3>4
    <3>7. QED
      BY <3>2, <3>5, <3>6
  <2>5. CASE S!Store(c)
    BY <2>5 DEF S!Store
  <2>6. CASE S!Return(c)
    BY <2>6 DEF S!Return, S!Answer
  <2>7. QED
    BY <2>1, <2>2, <2>3, <2>4, <2>5, <2>6
<1>5. S!TypeOK'
  BY <1>2, <1>4 DEF S!TypeOK, S!own
<1>6. QED
  BY <1>3, <1>4, <1>5

LEMMA SourceStays == SourceInv /\ [S!Next]_(S!vars) => SourceInv'
<1>1. SUFFICES ASSUME SourceInv, [S!Next]_(S!vars) PROVE SourceInv'
  OBVIOUS
<1>2. CASE UNCHANGED S!vars
  BY <1>1, <1>2 DEF SourceInv, S!TypeOK, SourceStep, SourceListed, SourceKept, SourceCarried,
                    S!vars, S!shared, S!own
<1>3. CASE S!Next
  BY <1>1, <1>3, OpeningKeepsSource, CallsKeepSource DEF S!Next
<1>4. QED
  BY <1>1, <1>2, <1>3

LEMMA SourceInvariance == MCSpec => []SourceInv
<1>1. MCInit => SourceInv
  BY SourceStarts DEF MCInit
<1>2. SourceInv /\ [MCNext]_all => SourceInv'
  BY SourceStays, PartsApart
<1>3. QED
  BY <1>1, <1>2, PTL DEF MCSpec

(* book_source.cpp:190-329: a page resolves its references through the     *)
(* link map of its own book; a picture, kept or answered, is of the book   *)
(* that was asked; tree and title are of the book that is served.          *)
THEOREM SourceOfOneBook == MCSpec => []OfItsBook
<1>1. SourceInv => S!PagesOfOneBook
  BY DEF SourceInv, SourceCarried, S!PagesOfOneBook
<1>2. SourceInv => S!ObjectsOfTheBook
  BY DEF SourceInv, SourceKept, SourceCarried, S!ObjectsOfTheBook
<1>3. SourceInv => S!TreeOfTheBook
  BY DEF SourceInv, SourceStep, SourceListed, S!TreeOfTheBook
<1>4. SourceInv => OfItsBook
  BY <1>1, <1>2, <1>3 DEF OfItsBook, S!OfItsBook
<1>5. QED
  BY <1>4, SourceInvariance, PTL
-----------------------------------------------------------------------------
(* BookPrint *)

(* The answers are none or one, which is Nothing if the job was cancelled  *)
(* and only then; a job that lives awaits something.                       *)
PrintInv ==
  /\ answers \in {<<>>, <<answers[1]>>}
  /\ cancelled \in BOOLEAN
  /\ cancelled <=> ~P!Live /\ answers[1] = P!Nothing
  /\ P!Live => awaits # None
  /\ awaits = "start" => P!Live

(* No book, and no error, is taken for a cancellation.                     *)
LEMMA AnswersDiffer == P!Error # P!Nothing /\ \A some : P!Book(some) # P!Nothing
<1>1. ASSUME NEW some PROVE P!Book(some).answer = "book"
  BY DEF P!Book
<1>2. P!Error.answer = "error" /\ P!Nothing.answer = "nothing"
  BY DEF P!Error, P!Nothing
<1>3. QED
  BY <1>1, <1>2

LEMMA PrintStarts == P!Init => PrintInv
  BY PrintAssumption DEF P!Init, PrintInv, P!Live

(* One reply more is the first, and was not owed before.                  *)
LEMMA PrintAnswers ==
  ASSUME PrintInv, P!Live, NEW reply, answers' = Append(answers, reply)
  PROVE  answers' = <<reply>> /\ ~cancelled /\ ~P!Live'
<1>1. answers' = <<reply>>
  BY DEF P!Live
<1>2. QED
  BY <1>1 DEF P!Live, PrintInv

LEMMA LoadKeepsPrint ==
  ASSUME PrintInv, P!Live, UNCHANGED cancelled, NEW from, NEW drawn, P!LoadNext(from, drawn)
  PROVE  PrintInv'
<1>3. awaits' \in {None, "navigation"}
  BY DEF P!LoadNext
<1>1. CASE awaits' = "navigation" /\ UNCHANGED answers
  BY <1>1, PrintAssumption DEF PrintInv, P!Live
<1>2. CASE answers' = Append(answers, P!Book(P!Assembled(listed, drawn)))
  <2>1. answers' = <<P!Book(P!Assembled(listed, drawn))>> /\ ~cancelled /\ ~P!Live'
    BY <1>2, PrintAnswers
  <2>2. answers'[1] = P!Book(P!Assembled(listed, drawn))
    BY <2>1
  <2>3. QED
    BY <1>3, <2>1, <2>2, AnswersDiffer, PrintAssumption DEF PrintInv
<1>4. QED
  BY <1>1, <1>2 DEF P!LoadNext

LEMMA PrintStays == PrintInv /\ [P!Next]_(P!vars) => PrintInv'
<1> SUFFICES ASSUME PrintInv, [P!Next]_(P!vars) PROVE PrintInv'
  OBVIOUS
<1>1. CASE P!Start
  <2>1. P!Live
    BY <1>1 DEF P!Start, PrintInv
  <2>2. QED
    BY <1>1, <2>1, LoadKeepsPrint DEF P!Start
<1>2. CASE P!Cancel
  <2>1. answers' = <<P!Nothing>> /\ ~P!Live'
    BY <1>2, PrintAnswers DEF P!Cancel, P!Finish
  <2>2. answers'[1] = P!Nothing
    BY <2>1
  <2>3. QED
    BY <1>2, <2>1, <2>2, PrintAssumption DEF P!Cancel, PrintInv
<1>3. CASE P!Ignored
  BY <1>3, PrintAssumption DEF P!Ignored, PrintInv, P!Live
<1>4. CASE P!Fails
  <2>1. answers' = <<P!Error>> /\ ~cancelled /\ ~P!Live'
    BY <1>4, PrintAnswers DEF P!Fails, P!Finish
  <2>2. answers'[1] = P!Error
    BY <2>1
  <2>3. QED
    BY <1>4, <2>1, <2>2, AnswersDiffer, PrintAssumption DEF P!Fails, PrintInv
<1>5. CASE P!Rendered
  BY <1>5, PrintAssumption DEF P!Rendered, PrintInv, P!Live
<1>6. CASE P!Dispatched
  BY <1>6, LoadKeepsPrint DEF P!Dispatched
<1>7. CASE P!DidFinishNavigation \/ P!FontsReady \/ P!BreaksKnown
  BY <1>7, PrintAssumption DEF P!DidFinishNavigation, P!FontsReady, P!BreaksKnown, P!Goes, PrintInv, P!Live
<1>8. CASE UNCHANGED P!vars
  BY <1>8 DEF P!vars, PrintInv, P!Live
<1>9. QED
  BY <1>1, <1>2, <1>3, <1>4, <1>5, <1>6, <1>7, <1>8 DEF P!Next

LEMMA PrintInvSuffices == PrintInv => P!AnswersOnce
<1> SUFFICES ASSUME PrintInv PROVE P!AnswersOnce
  OBVIOUS
<1>1. CASE P!Live
  BY <1>1 DEF PrintInv, P!AnswersOnce, P!Live
<1>2. CASE ~P!Live
  <2>1. answers = <<answers[1]>>
    BY <1>2 DEF PrintInv, P!Live
  <2>2. Len(answers) <= 1
    BY <2>1
  <2>3. answers = <<P!Nothing>> <=> answers[1] = P!Nothing
    BY <2>1
  <2>4. QED
    BY <1>2, <2>2, <2>3 DEF PrintInv, P!AnswersOnce
<1>3. QED
  BY <1>1, <1>2

(* macos print_engine.mm: however the callbacks of a printing job come, its
   owner is answered once and no more, and with nothing only if it cancelled. *)
THEOREM PrintAnswersOnce == MCSpec => []AnswersOnce
<1> DEFINE Held == part = "print" => PrintInv
<1>1. MCInit => Held
  BY PrintStarts DEF MCInit
<1>2. Held /\ [MCNext]_all => Held'
  BY PrintStays, PartsApart
<1>3. Held => AnswersOnce
  BY PrintInvSuffices DEF AnswersOnce
<1>4. QED
  BY <1>1, <1>2, <1>3, PTL DEF MCSpec

(* The positions of a sequence that hold one of some values, and how many. *)
Spots(s, G) == {p \in DOMAIN s : s[p] \in G}
Count(s, G) == Cardinality(Spots(s, G))

(* They are finitely many, among the positions of the sequence.            *)
LEMMA SpotsFinite ==
  ASSUME NEW U, NEW s \in Seq(U), NEW G
  PROVE  /\ IsFiniteSet(Spots(s, G)) /\ Count(s, G) \in Nat /\ Spots(s, G) \subseteq 1..Len(s)
<1>1. Len(s) \in Nat /\ DOMAIN s = 1..Len(s)
  BY LenProperties
<1>2. Spots(s, G) \in SUBSET (1..Len(s))
  BY <1>1 DEF Spots
<1>3. IsFiniteSet(1..Len(s))
  BY <1>1, FS_Interval
<1>4. IsFiniteSet(Spots(s, G))
  BY <1>2, <1>3, FS_Subset
<1> QED
  BY <1>2, <1>4, FS_CardinalityType DEF Count

(* Numbers that are all moved by as much are as many as before. *)
LEMMA Moved ==
  ASSUME NEW Old, Old \subseteq Nat, IsFiniteSet(Old), NEW n \in Nat
  PROVE  /\ IsFiniteSet({n + x : x \in Old})
         /\ Cardinality({n + x : x \in Old}) = Cardinality(Old)
<1> DEFINE New == {n + x : x \in Old}
           f == [x \in Old |-> n + x]
<1>1. f \in Bijection(Old, New)
  <2>1. f \in [Old -> New]
    OBVIOUS
  <2>2. \A a, b \in Old : f[a] = f[b] => a = b
    OBVIOUS
  <2>3. \A t \in New : \E s \in Old : f[s] = t
    OBVIOUS
  <2> HIDE DEF f, New
  <2> QED
    BY <2>1, <2>2, <2>3 DEF Bijection, Injection, Surjection, IsInjective
<1>2. ExistsBijection(Old, New)
  BY <1>1 DEF ExistsBijection
<1> HIDE DEF New
<1> QED
  BY <1>2, FS_Bijection DEF New

(* Of two sequences joined, the counts are added.                          *)
LEMMA CountJoined ==
  ASSUME NEW U, NEW a \in Seq(U), NEW b \in Seq(U), NEW G
  PROVE  Count(a \o b, G) = Count(a, G) + Count(b, G)
<1> DEFINE A == Spots(a, G)  B == Spots(b, G)  n == Len(a)  Behind == {n + x : x \in B}
<1>1. /\ n \in Nat /\ Len(b) \in Nat /\ DOMAIN a = 1..n /\ DOMAIN b = 1..Len(b)
      /\ DOMAIN (a \o b) = 1..n + Len(b)
      /\ \A i \in 1..n : (a \o b)[i] = a[i]
      /\ \A i \in 1..Len(b) : (a \o b)[n + i] = b[i]
  OBVIOUS
<1>2. IsFiniteSet(A) /\ IsFiniteSet(B) /\ A \subseteq 1..n /\ B \subseteq 1..Len(b)
  BY SpotsFinite
<1>3. IsFiniteSet(Behind) /\ Cardinality(Behind) = Cardinality(B)
  <2>1. B \subseteq Nat
    BY <1>2
  <2> HIDE DEF B, n
  <2> QED
    BY <1>1, <1>2, <2>1, Moved
<1>4. A \cap Behind = {}
  BY <1>1, <1>2
<1>5. Spots(a \o b, G) = A \cup Behind
  <2>1. ASSUME NEW p \in Spots(a \o b, G) PROVE p \in A \cup Behind
    <3>1. p \in 1..n + Len(b) /\ (a \o b)[p] \in G
      BY <1>1 DEF Spots
    <3>2. CASE p <= n
      BY <1>1, <3>1, <3>2 DEF Spots
    <3>3. CASE p > n
      <4>1. p - n \in 1..Len(b) /\ p = n + (p - n)
        BY <1>1, <3>1, <3>3
      <4>2. p - n \in B
        BY <1>1, <3>1, <4>1 DEF Spots
      <4> QED
        BY <4>1, <4>2
    <3> QED
      BY <1>1, <3>1, <3>2, <3>3
  <2>2. ASSUME NEW p \in A PROVE p \in Spots(a \o b, G)
    BY <1>1, <1>2 DEF Spots
  <2>3. ASSUME NEW x \in B PROVE n + x \in Spots(a \o b, G)
    BY <1>1, <1>2 DEF Spots
  <2> QED
    BY <2>1, <2>2, <2>3
<1>6. Cardinality(A \cup Behind) = Cardinality(A) + Cardinality(Behind)
  <2> HIDE DEF A, Behind
  <2>1. Cardinality(A) \in Nat /\ Cardinality(Behind) \in Nat
    BY <1>2, <1>3, FS_CardinalityType
  <2>2. Cardinality(A \cap Behind) = 0
    BY <1>4, FS_EmptySet
  <2>3. Cardinality(A \cup Behind) = Cardinality(A) + Cardinality(Behind) - Cardinality(A \cap Behind)
    BY <1>2, <1>3, FS_Union
  <2> QED
    BY <2>1, <2>2, <2>3
<1> QED
  BY <1>3, <1>5, <1>6 DEF Count

(* Where each sequence of some has as many of the values, or none. *)
LEMMA CountFlat ==
  ASSUME NEW U, NEW ss \in Seq(Seq(U)), NEW G, NEW Q \in SUBSET (1..Len(ss)), NEW w \in Nat,
         \A i \in 1..Len(ss) : Count(ss[i], G) = IF i \in Q THEN w ELSE 0
  PROVE  Count(FlattenSeq(ss), G) = w * Cardinality(Q)
<1> DEFINE N == Len(ss)
           Of(n) == {i \in 1..n : i \in Q}
<1>1. N \in Nat /\ \A i \in 1..N : ss[i] \in Seq(U)
  OBVIOUS
<1>2. PICK f : /\ f \in [0..N -> Seq(U)] /\ f[0] = <<>>
               /\ \A i \in 1..N : f[i] = f[i - 1] \o ss[i]
               /\ FlattenSeq(ss) = f[N]
  BY Joining
<1> HIDE DEF N
<1> DEFINE T == {n \in 0..N : Count(f[n], G) = w * Cardinality(Of(n))}
<1>3. 0 \in T
  <2>1. Spots(f[0], G) = {}
    BY <1>2 DEF Spots
  <2>2. Of(0) = {}
    OBVIOUS
  <2>3. Count(f[0], G) = 0 /\ Cardinality(Of(0)) = 0
    BY <2>1, <2>2, FS_EmptySet DEF Count
  <2> QED
    BY <1>1, <2>3
<1>4. ASSUME NEW n \in 1..N, n - 1 \in T PROVE n \in T
  <2>1. n - 1 \in 0..N /\ n \in 0..N
    BY <1>1
  <2>2. Count(f[n], G) = Count(f[n - 1], G) + Count(ss[n], G)
    <3>1. f[n] = f[n - 1] \o ss[n] /\ f[n - 1] \in Seq(U) /\ ss[n] \in Seq(U)
      BY <1>1, <1>2, <2>1
    <3> QED
      BY <3>1, CountJoined
  <2>3. IsFiniteSet(Of(n - 1)) /\ Cardinality(Of(n - 1)) \in Nat
    <3>1. Of(n - 1) \in SUBSET (1..n - 1) /\ IsFiniteSet(1..n - 1)
      BY <1>1, FS_Interval
    <3> HIDE DEF Of
    <3> QED
      BY <3>1, FS_Subset, FS_CardinalityType
  <2>4. Cardinality(Of(n)) = Cardinality(Of(n - 1)) + IF n \in Q THEN 1 ELSE 0
    <3>1. CASE n \in Q
      <4>1. Of(n) = Of(n - 1) \cup {n} /\ n \notin Of(n - 1)
        BY <1>1, <3>1
      <4> HIDE DEF Of
      <4> QED
        BY <2>3, <3>1, <4>1, FS_AddElement
    <3>2. CASE n \notin Q
      <4>1. Of(n) = Of(n - 1)
        BY <1>1, <3>2
      <4> HIDE DEF Of
      <4> QED
        BY <2>3, <3>2, <4>1
    <3> QED
      BY <3>1, <3>2
  <2>5. Count(f[n - 1], G) = w * Cardinality(Of(n - 1))
    BY <1>4
  <2>6. Count(ss[n], G) = IF n \in Q THEN w ELSE 0
    BY DEF N
  <2> DEFINE c == Cardinality(Of(n - 1))  d == Cardinality(Of(n))
  <2>7. Count(f[n], G) = w * d
    <3>1. c \in Nat /\ d = c + (IF n \in Q THEN 1 ELSE 0)
      BY <2>3, <2>4
    <3>2. Count(f[n], G) = w * c + IF n \in Q THEN w ELSE 0
      BY <2>2, <2>5, <2>6
    <3> HIDE DEF c, d
    <3>3. CASE n \in Q
      <4>1. w * (c + 1) = w * c + w
        BY <3>1
      <4> QED
        BY <3>1, <3>2, <3>3, <4>1
    <3>4. CASE n \notin Q
      <4>1. w * c \in Nat
        BY <3>1
      <4> QED
        BY <3>1, <3>2, <3>4, <4>1
    <3> QED
      BY <3>3, <3>4
  <2> QED
    BY <2>1, <2>7
<1>5. N \in T
  <2> HIDE DEF T
  <2>1. \A n \in 0..N : n \in T
    BY <1>1, <1>3, <1>4, Upwards
  <2> QED
    BY <1>1, <2>1
<1>6. Of(N) = Q
  BY DEF N
<1> HIDE DEF Of
<1> QED
  BY <1>2, <1>5, <1>6

(* What is joined is found in the parts, and the other way round. *)
LEMMA JoinedHolds ==
  ASSUME NEW U, NEW ss \in Seq(Seq(U))
  PROVE  /\ FlattenSeq(ss) \in Seq(U)
         /\ \A p \in 1..Len(FlattenSeq(ss)) : \E i \in 1..Len(ss) : \E k \in 1..Len(ss[i]) :
              FlattenSeq(ss)[p] = ss[i][k]
         /\ \A i \in 1..Len(ss) : \A k \in 1..Len(ss[i]) : \E p \in 1..Len(FlattenSeq(ss)) :
              FlattenSeq(ss)[p] = ss[i][k]
<1> DEFINE N == Len(ss)  whole == FlattenSeq(ss)
<1>1. N \in Nat /\ \A r \in 1..N : ss[r] \in Seq(U) /\ Len(ss[r]) \in Nat
  OBVIOUS
<1>2. PICK cut \in [0..N -> Nat] :
        /\ cut[0] = 0 /\ cut[N] = Len(whole)
        /\ \A i \in 0..N : cut[i] <= Len(whole)
        /\ \A i \in 1..N : /\ cut[i] = cut[i - 1] + Len(ss[i])
                           /\ \A k \in 1..Len(ss[i]) : whole[cut[i - 1] + k] = ss[i][k]
  BY JoinedAt
<1>3. whole \in Seq(U)
  BY JoinedAt
<1>4. Len(whole) \in Nat
  BY <1>3, LenProperties
<1> HIDE DEF N, whole
<1>5. ASSUME NEW p \in 1..Len(whole)
      PROVE  \E i \in 1..N : \E k \in 1..Len(ss[i]) : whole[p] = ss[i][k]
  <2> DEFINE Past == {i \in 0..N : cut[i] >= p}
  <2>1. Past # {} /\ Past \subseteq Nat
    <3>1. N \in 0..N /\ cut[N] >= p
      BY <1>1, <1>2, <1>4
    <3>2. N \in Past
      BY <3>1
    <3>3. 0..N \subseteq Nat
      BY <1>1
    <3> QED
      BY <3>2, <3>3
  <2>2. PICK i \in Past : \A j \in Past : i <= j
    <3> HIDE DEF Past
    <3> QED
      BY <2>1, LeastExists
  <2>3. i # 0
    BY <1>2
  <2>4. i \in 1..N /\ i - 1 \in 0..N /\ i - 1 \notin Past
    BY <1>1, <2>2, <2>3
  <2>5. cut[i - 1] < p /\ p <= cut[i] /\ cut[i - 1] \in Nat /\ cut[i] \in Nat
    BY <1>2, <2>4
  <2>6. p - cut[i - 1] \in 1..Len(ss[i]) /\ p = cut[i - 1] + (p - cut[i - 1])
    <3> DEFINE a == cut[i - 1]  b == cut[i]  len == Len(ss[i])
    <3>1. len \in Nat /\ b = a + len
      BY <1>1, <1>2, <2>4
    <3>2. p \in Nat /\ a \in Nat /\ a < p /\ p <= b
      BY <1>4, <2>5
    <3> HIDE DEF a, b, len
    <3>3. p - a \in 1..len /\ p = a + (p - a)
      BY <3>1, <3>2
    <3> QED
      BY <3>3 DEF a, len
  <2>7. whole[p] = ss[i][p - cut[i - 1]]
    BY <1>2, <2>4, <2>6
  <2> QED
    BY <2>4, <2>6, <2>7
<1>6. ASSUME NEW i \in 1..N, NEW k \in 1..Len(ss[i])
      PROVE  \E p \in 1..Len(whole) : whole[p] = ss[i][k]
  <2>1. cut[i - 1] + k \in 1..Len(whole)
    <3>1. i - 1 \in 0..N /\ i \in 0..N /\ cut[i] <= Len(whole) /\ cut[i] = cut[i - 1] + Len(ss[i])
      BY <1>1, <1>2
    <3>2. cut[i - 1] \in Nat /\ cut[i] \in Nat /\ Len(ss[i]) \in Nat
      BY <1>1, <3>1
    <3> QED
      BY <1>4, <3>1, <3>2
  <2>2. whole[cut[i - 1] + k] = ss[i][k]
    BY <1>2
  <2> QED
    BY <2>1, <2>2
<1> QED
  BY <1>3, <1>5, <1>6 DEF N, whole

(* The FlattenSeq of the instance is that of the library.                  *)
LEMMA SameFlat == \A ss : P!FlattenSeq(ss) = FlattenSeq(ss)
  BY DEF P!FlattenSeq, FlattenSeq

(* Nothing is counted in the empty sequence.                               *)
LEMMA CountNone == \A G : Count(<<>>, G) = 0
<1>1. \A G : Spots(<<>>, G) = {}
  BY DEF Spots
<1> QED
  BY <1>1, FS_EmptySet DEF Count

(* One value is counted, or not.                                           *)
LEMMA CountOne == \A e, G : Count(<<e>>, G) = IF e \in G THEN 1 ELSE 0
<1> SUFFICES ASSUME NEW e, NEW G PROVE Count(<<e>>, G) = IF e \in G THEN 1 ELSE 0
  OBVIOUS
<1>1. CASE e \in G
  <2>1. Spots(<<e>>, G) = {1}
    BY <1>1 DEF Spots
  <2> QED
    BY <1>1, <2>1, FS_Singleton DEF Count
<1>2. CASE e \notin G
  <2>1. Spots(<<e>>, G) = {}
    BY <1>2 DEF Spots
  <2> QED
    BY <1>2, <2>1, FS_EmptySet DEF Count
<1> QED
  BY <1>1, <1>2

(* Those holds what is chosen, as often as it is chosen, and nothing else. *)
LEMMA ThoseAre ==
  ASSUME NEW U, NEW some \in Seq(U), NEW Q
  PROVE  /\ P!Those(some, Q) \in Seq(U)
         /\ \A p \in 1..Len(P!Those(some, Q)) : \E i \in 1..Len(some) :
              i \in Q /\ P!Those(some, Q)[p] = some[i]
         /\ \A i \in 1..Len(some) : i \in Q =>
              \E p \in 1..Len(P!Those(some, Q)) : P!Those(some, Q)[p] = some[i]
         /\ \A G : Count(P!Those(some, Q), G)
                     = Cardinality({i \in 1..Len(some) : i \in Q /\ some[i] \in G})
<1> DEFINE N == Len(some)
           ss == [i \in 1..N |-> IF i \in Q THEN <<some[i]>> ELSE <<>>]
<1>1. N \in Nat /\ DOMAIN some = 1..N /\ \A i \in 1..N : some[i] \in U
  OBVIOUS
<1>2. ss \in Seq(Seq(U)) /\ Len(ss) = N
  <2>1. \A i \in 1..N : ss[i] \in Seq(U)
    BY <1>1
  <2> HIDE DEF N
  <2> QED
    BY <1>1, <2>1
<1>3. P!Those(some, Q) = FlattenSeq(ss)
  BY <1>1, SameFlat DEF P!Those
<1>4. \A i \in 1..N : /\ i \in Q => ss[i] = <<some[i]>>
                      /\ i \notin Q => ss[i] = <<>>
  OBVIOUS
<1> HIDE DEF N, ss
<1>5. /\ FlattenSeq(ss) \in Seq(U)
      /\ \A p \in 1..Len(FlattenSeq(ss)) : \E i \in 1..N : \E k \in 1..Len(ss[i]) :
           FlattenSeq(ss)[p] = ss[i][k]
      /\ \A i \in 1..N : \A k \in 1..Len(ss[i]) : \E p \in 1..Len(FlattenSeq(ss)) :
           FlattenSeq(ss)[p] = ss[i][k]
  <2>1. /\ FlattenSeq(ss) \in Seq(U)
        /\ \A p \in 1..Len(FlattenSeq(ss)) : \E i \in 1..Len(ss) : \E k \in 1..Len(ss[i]) :
             FlattenSeq(ss)[p] = ss[i][k]
        /\ \A i \in 1..Len(ss) : \A k \in 1..Len(ss[i]) : \E p \in 1..Len(FlattenSeq(ss)) :
             FlattenSeq(ss)[p] = ss[i][k]
    BY <1>2, JoinedHolds, Zenon
  <2> QED
    BY <1>2, <2>1, Zenon
<1>6. \A i \in 1..N : /\ i \in Q => Len(ss[i]) = 1 /\ ss[i][1] = some[i]
                      /\ i \notin Q => Len(ss[i]) = 0
  <2> SUFFICES ASSUME NEW i \in 1..N
               PROVE  /\ i \in Q => Len(ss[i]) = 1 /\ ss[i][1] = some[i]
                      /\ i \notin Q => Len(ss[i]) = 0
    OBVIOUS
  <2>1. CASE i \in Q
    <3>1. ss[i] = <<some[i]>>
      BY <1>4, <2>1
    <3> QED
      BY <2>1, <3>1
  <2>2. CASE i \notin Q
    <3>1. ss[i] = <<>>
      BY <1>4, <2>2
    <3> QED
      BY <2>2, <3>1
  <2> QED
    BY <2>1, <2>2
<1>7. ASSUME NEW p \in 1..Len(FlattenSeq(ss))
      PROVE  \E i \in 1..N : i \in Q /\ FlattenSeq(ss)[p] = some[i]
  <2>1. PICK i \in 1..N : \E k \in 1..Len(ss[i]) : FlattenSeq(ss)[p] = ss[i][k]
    BY <1>5
  <2>2. PICK k \in 1..Len(ss[i]) : FlattenSeq(ss)[p] = ss[i][k]
    BY <2>1
  <2>3. i \in Q
    BY <1>6, <2>2
  <2>4. k = 1
    BY <1>6, <2>2, <2>3
  <2> QED
    BY <1>6, <2>2, <2>3, <2>4
<1>8. ASSUME NEW i \in 1..N, i \in Q
      PROVE  \E p \in 1..Len(FlattenSeq(ss)) : FlattenSeq(ss)[p] = some[i]
  <2>1. 1 \in 1..Len(ss[i]) /\ ss[i][1] = some[i]
    BY <1>6, <1>8
  <2> QED
    BY <1>5, <2>1
<1>9. ASSUME NEW G
      PROVE  Count(FlattenSeq(ss), G) = Cardinality({i \in 1..N : i \in Q /\ some[i] \in G})
  <2> DEFINE Kept == {i \in 1..N : i \in Q /\ some[i] \in G}
             w == 1
  <2>1. \A i \in 1..N : Count(ss[i], G) = IF i \in Kept THEN w ELSE 0
    <3> SUFFICES ASSUME NEW i \in 1..N PROVE Count(ss[i], G) = IF i \in Kept THEN w ELSE 0
      OBVIOUS
    <3>1. CASE i \in Q
      <4>1. ss[i] = <<some[i]>>
        BY <1>4, <3>1
      <4> QED
        BY <3>1, <4>1, CountOne
    <3>2. CASE i \notin Q
      <4>1. ss[i] = <<>>
        BY <1>4, <3>2
      <4> QED
        BY <3>2, <4>1, CountNone
    <3> QED
      BY <3>1, <3>2
  <2>2. w \in Nat /\ Kept \subseteq 1..N
    OBVIOUS
  <2>3. Cardinality(Kept) \in Nat
    <3>1. Kept \in SUBSET (1..N) /\ IsFiniteSet(1..N)
      BY <1>1, FS_Interval
    <3> HIDE DEF Kept
    <3> QED
      BY <3>1, FS_Subset, FS_CardinalityType
  <2>4. Count(FlattenSeq(ss), G) = w * Cardinality(Kept)
    <3> HIDE DEF Kept, w
    <3>1. /\ \A i \in 1..Len(ss) : Count(ss[i], G) = IF i \in Kept THEN w ELSE 0
          /\ Kept \in SUBSET (1..Len(ss))
      BY <1>2, <2>1, <2>2
    <3>2. ss \in Seq(Seq(U)) /\ w \in Nat
      BY <1>2, <2>2
    <3> QED
      BY <3>1, <3>2, CountFlat, SMTT(30)
  <2>5. w * Cardinality(Kept) = Cardinality(Kept)
    <3> HIDE DEF Kept
    <3> QED
      BY <2>3
  <2> QED
    BY <2>4, <2>5
<1> QED
  BY <1>3, <1>5, <1>7, <1>8, <1>9 DEF N

(* Where every part is counted alike, the whole has as many times that.    *)
LEMMA AllCounted ==
  ASSUME NEW U, NEW s \in Seq(U)
  PROVE  Count(s, U) = Len(s)
<1>1. Len(s) \in Nat /\ DOMAIN s = 1..Len(s) /\ \A i \in 1..Len(s) : s[i] \in U
  OBVIOUS
<1>2. Spots(s, U) = 1..Len(s)
  BY <1>1 DEF Spots
<1>3. Cardinality(1..Len(s)) = Len(s)
  <2> DEFINE n == Len(s)
  <2>1. n \in Nat
    BY <1>1
  <2> HIDE DEF n
  <2>2. Cardinality(1..n) = IF 1 > n THEN 0 ELSE n - 1 + 1
    BY <2>1, FS_Interval
  <2>3. Cardinality(1..n) = n
    BY <2>1, <2>2
  <2> QED
    BY <2>3 DEF n
<1> QED
  BY <1>2, <1>3 DEF Count

BodyOf(some) == {i \in DOMAIN some : ~P!IsTitle(some[i]) /\ ~P!IsContents(some[i])}

(* The contents come after some of the body. *)
LEMMA ContentsWithin ==
  ASSUME NEW U, NEW some \in Seq(U)
  PROVE  P!BeforeContents(some) \in 0..Len(P!Body(some))
<1> DEFINE N == Len(some)
           found == {i \in DOMAIN some : P!IsContents(some[i])}
           first == CHOOSE i \in found : \A j \in found : i <= j
           short == SubSeq(some, 1, first)
           B == Len(P!Body(some))
           front == {n \in 0..B : \A i \in 1..n : P!Body(some)[i].id \in FrontMatter}
<1>1. N \in Nat /\ DOMAIN some = 1..N
  OBVIOUS
<1>2. \A s \in Seq(U) : /\ P!Body(s) \in Seq(U)
                        /\ Len(P!Body(s)) = Cardinality({i \in 1..Len(s) : i \in BodyOf(s)})
  <2> SUFFICES ASSUME NEW s \in Seq(U)
               PROVE  /\ P!Body(s) \in Seq(U)
                      /\ Len(P!Body(s)) = Cardinality({i \in 1..Len(s) : i \in BodyOf(s)})
    OBVIOUS
  <2>1. P!Body(s) = P!Those(s, BodyOf(s))
    BY DEF P!Body, BodyOf
  <2>2. /\ P!Body(s) \in Seq(U)
        /\ Count(P!Body(s), U) = Cardinality({i \in 1..Len(s) : i \in BodyOf(s) /\ s[i] \in U})
    BY <2>1, ThoseAre
  <2>3. {i \in 1..Len(s) : i \in BodyOf(s) /\ s[i] \in U} = {i \in 1..Len(s) : i \in BodyOf(s)}
    OBVIOUS
  <2>4. Count(P!Body(s), U) = Len(P!Body(s))
    BY <2>2, AllCounted
  <2> QED
    BY <2>2, <2>3, <2>4
<1>3. B \in Nat
  BY <1>2, LenProperties
<1>4. CASE found # {}
  <2>1. first \in found
    <3>1. found \subseteq Nat
      BY <1>1
    <3> HIDE DEF found
    <3>2. \E i \in found : \A j \in found : i <= j
      BY <1>4, <3>1, LeastExists
    <3> QED
      BY <3>2
  <2>2. first \in 1..N
    BY <1>1, <2>1
  <2> HIDE DEF first
  <2>3. short \in Seq(U) /\ Len(short) = first /\ \A i \in 1..first : short[i] = some[i]
    <3>1. \A i \in 1..first : some[i] \in U
      BY <1>1, <2>2
    <3> QED
      BY <2>2, <3>1, SubSeqProperties
  <2> DEFINE Begun == {i \in 1..Len(short) : i \in BodyOf(short)}
             Entire == {i \in 1..N : i \in BodyOf(some)}
  <2>4. Begun \subseteq Entire
    BY <1>1, <2>2, <2>3 DEF BodyOf
  <2>5. IsFiniteSet(Entire)
    <3>1. Entire \in SUBSET (1..N) /\ IsFiniteSet(1..N)
      BY <1>1, FS_Interval
    <3> QED
      BY <3>1, FS_Subset
  <2>6. Cardinality(Begun) <= Cardinality(Entire)
    <3> HIDE DEF Begun, Entire
    <3> QED
      BY <2>4, <2>5, FS_Subset
  <2>7. Len(P!Body(short)) <= B /\ Len(P!Body(short)) \in Nat
    <3>1. Len(P!Body(short)) = Cardinality(Begun) /\ P!Body(short) \in Seq(U)
      BY <1>2, <2>3
    <3>2. B = Cardinality(Entire)
      BY <1>2
    <3> HIDE DEF B, Begun, Entire, short
    <3> QED
      BY <2>6, <3>1, <3>2, LenProperties
  <2>8. P!BeforeContents(some) = Len(P!Body(short))
    BY <1>4 DEF P!BeforeContents, first
  <2> QED
    BY <1>3, <2>7, <2>8
<1>5. CASE found = {}
  <2> DEFINE Above == {n + 1 : n \in front}
  <2> HIDE DEF B
  <2>1. 0 \in front
    BY <1>3
  <2>2. Above # {} /\ Above \subseteq 1..B + 1
    BY <1>3, <2>1
  <2>3. PICK u \in Above : \A v \in Above : v <= u
    <3> HIDE DEF Above
    <3>1. B + 1 \in Nat
      BY <1>3
    <3> QED
      BY <2>2, <3>1, GreatestExists
  <2>4. u - 1 \in front /\ \A m \in front : m <= u - 1
    <3>1. PICK n \in front : u = n + 1
      OBVIOUS
    <3>2. n \in Nat /\ u - 1 = n
      BY <1>3, <3>1
    <3>3. ASSUME NEW m \in front PROVE m <= n
      <4>1. m \in Nat /\ m + 1 \in Above
        BY <1>3
      <4>2. m + 1 <= n + 1
        BY <2>3, <3>1, <4>1
      <4> QED
        BY <3>2, <4>1, <4>2
    <3> QED
      BY <3>2, <3>3
  <2>5. P!BeforeContents(some) = CHOOSE n \in front : \A m \in front : m <= n
    BY <1>5 DEF P!BeforeContents, B
  <2>6. P!BeforeContents(some) \in front
    <3> HIDE DEF front
    <3> QED
      BY <2>4, <2>5
  <2>7. P!BeforeContents(some) \in 0..B
    BY <2>6
  <2> QED
    BY <2>7 DEF B
<1> QED
  BY <1>4, <1>5

(* Marks that rise one step after another. *)
Rising(cut, n) == /\ n \in Nat /\ cut \in [0..n -> Nat] /\ cut[0] = 0
                  /\ \A i \in 1..n : cut[i - 1] <= cut[i]

(* A sequence that rises step by step rises over any distance.             *)
LEMMA RisesOn ==
  ASSUME NEW n, NEW cut, Rising(cut, n)
  PROVE  \A i, j \in 0..n : i <= j => cut[i] <= cut[j]
<1> USE DEF Rising
<1> SUFFICES ASSUME NEW i \in 0..n PROVE \A j \in 0..n : i <= j => cut[i] <= cut[j]
  OBVIOUS
<1> DEFINE T == {j \in 0..n : i <= j => cut[i] <= cut[j]}
<1>1. 0 \in T
  OBVIOUS
<1>2. ASSUME NEW j \in 1..n, j - 1 \in T PROVE j \in T
  <2>1. j \in 0..n /\ j - 1 \in 0..n /\ cut[j] \in Nat /\ cut[j - 1] \in Nat /\ cut[i] \in Nat
    OBVIOUS
  <2>2. cut[j - 1] <= cut[j]
    OBVIOUS
  <2>3. CASE i <= j - 1
    BY <1>2, <2>1, <2>2, <2>3
  <2>4. CASE ~(i <= j - 1)
    <3>1. i <= j => i = j
      BY <2>1, <2>4
    <3> QED
      BY <2>1, <3>1
  <2> QED
    BY <2>3, <2>4
<1>3. \A j \in 0..n : j \in T
  <2> HIDE DEF T
  <2> QED
    BY <1>1, <1>2, Upwards
<1> QED
  BY <1>3

(* Any number below the last cut lies between two of them.                 *)
LEMMA Between ==
  ASSUME NEW n, NEW cut, Rising(cut, n), NEW p \in 1..cut[n]
  PROVE  \E i \in 1..n : cut[i - 1] < p /\ p <= cut[i]
<1> USE DEF Rising
<1> DEFINE Past == {i \in 0..n : cut[i] >= p}
<1>1. Past # {} /\ Past \subseteq Nat
  <2>1. n \in 0..n /\ cut[n] \in Nat /\ 0..n \subseteq Nat
    OBVIOUS
  <2>2. n \in Past
    BY <2>1
  <2>3. Past \subseteq 0..n
    OBVIOUS
  <2> HIDE DEF Past
  <2> QED
    BY <2>1, <2>2, <2>3
<1>2. PICK i \in Past : \A j \in Past : i <= j
  <2> HIDE DEF Past
  <2> QED
    BY <1>1, LeastExists
<1>3. i # 0
  BY <1>2
<1>4. i \in 1..n /\ i - 1 \in 0..n /\ i - 1 \notin Past
  BY <1>2, <1>3
<1>5. cut[i - 1] < p /\ p <= cut[i]
  <2>1. cut[i - 1] \in Nat /\ cut[i] \in Nat
    BY <1>4
  <2> QED
    BY <1>4, <2>1
<1> QED
  BY <1>4, <1>5

(* Each of the topics is drawn on so many pages. *)
Sized(some, drawn) == \A i \in 1..Len(some) : drawn[some[i].id] \in Nat

(* The pages up to each of them. *)
SumOf(sum, some, drawn) ==
  /\ sum \in [0..Len(some) -> Nat]
  /\ sum[0] = 0
  /\ \A i \in 1..Len(some) : sum[i] = sum[i - 1] + drawn[some[i].id]

(* A sum of pages, one topic on.                                           *)
LEMMA SumStep ==
  ASSUME NEW U, NEW some \in Seq(U), NEW drawn, Sized(some, drawn), NEW sum, SumOf(sum, some, drawn),
         NEW i \in 1..Len(some)
  PROVE  /\ sum[i - 1] \in Nat /\ sum[i] \in Nat /\ drawn[some[i].id] \in Nat
         /\ sum[i] = sum[i - 1] + drawn[some[i].id]
<1>1. i \in 0..Len(some) /\ i - 1 \in 0..Len(some) /\ drawn[some[i].id] \in Nat
  BY DEF Sized
<1> QED
  BY <1>1 DEF SumOf

(* The sums of pages rise.                                                 *)
LEMMA SumRises ==
  ASSUME NEW U, NEW some \in Seq(U), NEW drawn, Sized(some, drawn), NEW sum, SumOf(sum, some, drawn)
  PROVE  Rising(sum, Len(some))
<1>1. Len(some) \in Nat
  BY LenProperties
<1>2. ASSUME NEW i \in 1..Len(some) PROVE sum[i - 1] <= sum[i]
  <2>1. /\ sum[i - 1] \in Nat /\ sum[i] \in Nat /\ drawn[some[i].id] \in Nat
        /\ sum[i] = sum[i - 1] + drawn[some[i].id]
    BY SumStep
  <2> DEFINE a == sum[i - 1]  b == sum[i]  c == drawn[some[i].id]
  <2>2. a \in Nat /\ b \in Nat /\ c \in Nat /\ b = a + c
    BY <2>1
  <2> HIDE DEF a, b, c
  <2>3. a <= b
    BY <2>2
  <2> QED
    BY <2>3 DEF a, b
<1> QED
  BY <1>1, <1>2 DEF Rising, SumOf

(* There is one such sum.                                                  *)
LEMMA SumsAgree ==
  ASSUME NEW U, NEW some \in Seq(U), NEW drawn, Sized(some, drawn),
         NEW a, SumOf(a, some, drawn), NEW b, SumOf(b, some, drawn)
  PROVE  a = b
<1> DEFINE N == Len(some)  T == {n \in 0..N : a[n] = b[n]}
<1>1. N \in Nat
  BY LenProperties
<1>2. 0 \in T
  BY <1>1 DEF SumOf
<1>3. ASSUME NEW n \in 1..N, n - 1 \in T PROVE n \in T
  <2>1. a[n] = a[n - 1] + drawn[some[n].id]
    BY SumStep
  <2>2. b[n] = b[n - 1] + drawn[some[n].id]
    BY SumStep
  <2>3. a[n - 1] = b[n - 1] /\ n \in 0..N
    BY <1>1, <1>3
  <2> QED
    BY <2>1, <2>2, <2>3
<1>4. \A n \in 0..N : n \in T
  <2> HIDE DEF T, N
  <2> QED
    BY <1>1, <1>2, <1>3, Upwards
<1>5. \A n \in 0..N : a[n] = b[n]
  BY <1>4
<1> DEFINE Places == 0..N
<1>6. a \in [Places -> Nat] /\ b \in [Places -> Nat] /\ \A n \in Places : a[n] = b[n]
  BY <1>5 DEF SumOf
<1> HIDE DEF Places
<1> QED
  BY <1>6

(* How many pages come before each topic, one topic after the other. *)
LEMMA PagesStepwise ==
  ASSUME NEW U, NEW some \in Seq(U), NEW drawn, Sized(some, drawn)
  PROVE  \E sum :
           /\ SumOf(sum, some, drawn)
           /\ \A i \in 1..Len(some) : P!PagesBefore(some, i, drawn) = sum[i - 1]
<1> DEFINE N == Len(some)
           Added(n, had) == had + drawn[some[n].id]
           step == [n \in 1..N |-> [had \in Nat |-> Added(n, had)]]
<1>1. N \in Nat
  OBVIOUS
<1>2. step \in Steps(N, Nat)
  <2>1. \A n \in 1..N, had \in Nat : Added(n, had) \in Nat
    BY DEF Sized
  <2> HIDE DEF Added
  <2> QED
    BY <2>1 DEF Steps
<1>3. PICK sum : Runs(sum, N, Nat, 0, step)
  <2> HIDE DEF N, step
  <2> QED
    BY <1>1, <1>2, Recursion
<1>4. /\ sum \in [0..N -> Nat] /\ sum[0] = 0
      /\ \A n \in 1..N : sum[n] = Added(n, sum[n - 1])
  <2> HIDE DEF Added
  <2>1. \A n \in 1..N : sum[n - 1] \in Nat
    BY <1>3 DEF Runs
  <2> QED
    BY <1>3, <2>1 DEF Runs
<1>5. ASSUME NEW i \in 1..N
      PROVE  P!PagesBefore(some, i, drawn) = sum[i - 1]
  <2> DEFINE Turn(f, n) == IF n = 0 THEN 0 ELSE Added(n, f[n - 1])
             before == CHOOSE f : f = [n \in 0..i - 1 |-> Turn(f, n)]
             short == [n \in 0..i - 1 |-> sum[n]]
  <2>1. i - 1 \in Nat /\ i - 1 \in 0..i - 1 /\ 0 \in 0..i - 1 /\ \A n \in 0..i - 1 : n \in 0..N
    BY <1>1
  <2>2. short = [n \in 0..i - 1 |-> Turn(short, n)]
    <3> HIDE DEF Added
    <3>1. ASSUME NEW n \in 0..i - 1 PROVE sum[n] = Turn(short, n)
      <4>1. CASE n = 0
        BY <1>4, <4>1
      <4>2. CASE n # 0
        <5>1. n \in 1..N /\ n - 1 \in 0..i - 1
          BY <2>1, <4>2
        <5>2. short[n - 1] = sum[n - 1]
          BY <5>1
        <5> QED
          BY <1>4, <4>2, <5>1, <5>2
      <4> QED
        BY <4>1, <4>2
    <3> HIDE DEF Turn
    <3>2. short = [n \in 0..i - 1 |-> sum[n]]
      OBVIOUS
    <3> HIDE DEF short
    <3> QED
      BY <3>1, <3>2
  <2>3. before = [n \in 0..i - 1 |-> Turn(before, n)]
    <3> HIDE DEF Turn, short
    <3> QED
      BY <2>2
  <2>4. P!PagesBefore(some, i, drawn) = before[i - 1]
    BY DEF P!PagesBefore
  <2> HIDE DEF before, short
  <2>5. before[0] = 0 /\ \A n \in 1..i - 1 : before[n] = Added(n, before[n - 1])
    <3> HIDE DEF Added
    <3>1. \A n \in 1..i - 1 : n \in 0..i - 1 /\ n # 0
      OBVIOUS
    <3> QED
      BY <2>1, <2>3, <3>1
  <2> DEFINE T == {n \in 0..i - 1 : before[n] = sum[n]}
  <2>6. 0 \in T
    BY <1>4, <2>1, <2>5
  <2>7. ASSUME NEW n \in 1..i - 1, n - 1 \in T PROVE n \in T
    <3> HIDE DEF Added
    <3>1. n \in 0..i - 1 /\ n \in 1..N
      BY <1>1
    <3>2. before[n] = Added(n, before[n - 1]) /\ sum[n] = Added(n, sum[n - 1])
      BY <1>4, <2>5, <3>1
    <3> QED
      BY <2>7, <3>1, <3>2
  <2>8. \A n \in 0..i - 1 : n \in T
    <3> HIDE DEF T
    <3> QED
      BY <2>1, <2>6, <2>7, Upwards
  <2> QED
    BY <2>1, <2>4, <2>8
<1>6. SumOf(sum, some, drawn)
  BY <1>4 DEF SumOf
<1> HIDE DEF N
<1>7. \A i \in 1..N : P!PagesBefore(some, i, drawn) = sum[i - 1]
  BY <1>5
<1> QED
  BY <1>6, <1>7 DEF N

(* A drawing, and the pages it stands on. *)
PageFor(id) == [topic |-> id, rows |-> <<>>]

DrawnBy(sheets, sum, some, drawn) ==
  \A i \in 1..Len(some) : \A k \in 1..drawn[some[i].id] : sheets[sum[i - 1] + k] = PageFor(some[i].id)

(* The rows of a listing that are of one topic, and the sheets that show it. *)
By(some, id) == {i \in 1..Len(some) : some[i].id = id}
Picks(G, some, id) == \A i \in 1..Len(some) : PageFor(some[i].id) \in G <=> some[i].id = id

(* Where the drawings of a listing stand: behind those of the topics before. *)
LEMMA DrawnAt ==
  ASSUME NEW U, NEW some \in Seq(U), NEW drawn, Sized(some, drawn)
  PROVE  /\ P!Drawings(some, drawn) \in Seq({PageFor(some[i].id) : i \in 1..Len(some)})
         /\ \A sum : SumOf(sum, some, drawn) =>
              /\ Len(P!Drawings(some, drawn)) = sum[Len(some)]
              /\ DrawnBy(P!Drawings(some, drawn), sum, some, drawn)
         /\ \A G, id : drawn[id] \in Nat /\ Picks(G, some, id) =>
              Count(P!Drawings(some, drawn), G) = drawn[id] * Cardinality(By(some, id))
<1> DEFINE N == Len(some)
           V == {PageFor(some[i].id) : i \in 1..N}
           ss == [i \in 1..N |-> [p \in 1..drawn[some[i].id] |-> PageFor(some[i].id)]]
<1>1. N \in Nat /\ DOMAIN some = 1..N /\ \A i \in 1..N : drawn[some[i].id] \in Nat
  BY DEF Sized
<1>2. \A i \in 1..N : /\ ss[i] \in Seq(V) /\ Len(ss[i]) = drawn[some[i].id]
                      /\ DOMAIN ss[i] = 1..drawn[some[i].id]
                      /\ \A k \in 1..drawn[some[i].id] : ss[i][k] = PageFor(some[i].id)
  <2> SUFFICES ASSUME NEW i \in 1..N
               PROVE  /\ ss[i] \in Seq(V) /\ Len(ss[i]) = drawn[some[i].id]
                      /\ DOMAIN ss[i] = 1..drawn[some[i].id]
                      /\ \A k \in 1..drawn[some[i].id] : ss[i][k] = PageFor(some[i].id)
    OBVIOUS
  <2> DEFINE w == drawn[some[i].id]  x == PageFor(some[i].id)
  <2>1. w \in Nat /\ x \in V /\ ss[i] = [p \in 1..w |-> x]
    BY <1>1
  <2> HIDE DEF w, x, V, ss
  <2>2. ss[i] \in Seq(V) /\ Len(ss[i]) = w /\ DOMAIN ss[i] = 1..w /\ \A k \in 1..w : ss[i][k] = x
    BY <2>1
  <2> QED
    BY <2>2 DEF w, x
<1>3. ss \in Seq(Seq(V)) /\ Len(ss) = N
  <2>1. \A i \in 1..N : ss[i] \in Seq(V)
    BY <1>2
  <2>2. ss = [i \in 1..N |-> ss[i]]
    OBVIOUS
  <2> HIDE DEF N, V, ss
  <2> QED
    BY <1>1, <2>1, <2>2
<1>4. P!Drawings(some, drawn) = FlattenSeq(ss)
  BY <1>1, SameFlat DEF P!Drawings, P!Drawing, PageFor
<1> HIDE DEF ss, V, N
<1>5. FlattenSeq(ss) \in Seq(V)
  BY <1>3, JoinedAt
<1>6. PICK cut \in [0..N -> Nat] :
        /\ cut[0] = 0 /\ cut[N] = Len(FlattenSeq(ss))
        /\ \A i \in 1..N : /\ cut[i] = cut[i - 1] + Len(ss[i])
                           /\ \A k \in 1..Len(ss[i]) : FlattenSeq(ss)[cut[i - 1] + k] = ss[i][k]
  <2>1. \E cut \in [0..Len(ss) -> Nat] :
          /\ cut[0] = 0 /\ cut[Len(ss)] = Len(FlattenSeq(ss))
          /\ \A i \in 0..Len(ss) : cut[i] <= Len(FlattenSeq(ss))
          /\ \A i \in 1..Len(ss) :
               /\ cut[i] = cut[i - 1] + Len(ss[i])
               /\ \A k \in 1..Len(ss[i]) : FlattenSeq(ss)[cut[i - 1] + k] = ss[i][k]
    BY <1>3, JoinedAt
  <2> QED
    BY <1>3, <2>1
<1>7. \A i \in 1..N : /\ cut[i] = cut[i - 1] + drawn[some[i].id]
                      /\ \A k \in 1..drawn[some[i].id] :
                           FlattenSeq(ss)[cut[i - 1] + k] = PageFor(some[i].id)
  BY <1>2, <1>6
<1>8. ASSUME NEW G, NEW id, drawn[id] \in Nat,
             \A i \in 1..N : PageFor(some[i].id) \in G <=> some[i].id = id
      PROVE  Count(FlattenSeq(ss), G) = drawn[id] * Cardinality({i \in 1..N : some[i].id = id})
  <2> DEFINE Q == {i \in 1..N : some[i].id = id}
             w == drawn[id]
  <2>1. \A i \in 1..N : Count(ss[i], G) = IF i \in Q THEN w ELSE 0
    <3> SUFFICES ASSUME NEW i \in 1..N PROVE Count(ss[i], G) = IF i \in Q THEN w ELSE 0
      OBVIOUS
    <3>1. CASE i \in Q
      <4>1. Spots(ss[i], G) = 1..w
        BY <1>2, <1>8, <3>1 DEF Spots
      <4>2. Cardinality(1..w) = w
        <5>1. w \in Nat
          BY <1>8
        <5> HIDE DEF w
        <5>2. Cardinality(1..w) = IF 1 > w THEN 0 ELSE w - 1 + 1
          BY <5>1, FS_Interval
        <5> QED
          BY <5>1, <5>2
      <4> QED
        BY <3>1, <4>1, <4>2 DEF Count
    <3>2. CASE i \notin Q
      <4>1. Spots(ss[i], G) = {}
        BY <1>2, <1>8, <3>2 DEF Spots
      <4> QED
        BY <3>2, <4>1, FS_EmptySet DEF Count
    <3> QED
      BY <3>1, <3>2
  <2>2. w \in Nat /\ Q \in SUBSET (1..N)
    BY <1>8
  <2> HIDE DEF Q, w
  <2>3. ss \in Seq(Seq(V)) /\ w \in Nat /\ Q \in SUBSET (1..Len(ss))
    BY <1>3, <2>2
  <2>4. \A i \in 1..Len(ss) : Count(ss[i], G) = IF i \in Q THEN w ELSE 0
    BY <1>3, <2>1
  <2>5. Count(FlattenSeq(ss), G) = w * Cardinality(Q)
    BY <2>3, <2>4, CountFlat, SMTT(30)
  <2> QED
    BY <2>5 DEF Q, w
<1>9. ASSUME NEW sum, SumOf(sum, some, drawn)
      PROVE  Len(FlattenSeq(ss)) = sum[N] /\ DrawnBy(FlattenSeq(ss), sum, some, drawn)
  <2>1. SumOf(cut, some, drawn)
    BY <1>6, <1>7 DEF SumOf, N
  <2>2. sum = cut
    BY <1>9, <2>1, SumsAgree
  <2>3. DrawnBy(FlattenSeq(ss), cut, some, drawn)
    BY <1>7 DEF DrawnBy, N
  <2> QED
    BY <1>6, <2>2, <2>3
<1>10. \A G, id : drawn[id] \in Nat /\ Picks(G, some, id) =>
         Count(FlattenSeq(ss), G) = drawn[id] * Cardinality(By(some, id))
  BY <1>8 DEF Picks, By, N
<1> QED
  BY <1>4, <1>5, <1>9, <1>10, Zenon DEF N, V

(* A row stands on one of the sheets. *)
StandsOn(sheets, row) == \E p \in 1..Len(sheets) : \E r \in 1..Len(sheets[p]) : sheets[p][r] = row

(* WithRow puts the row on a sheet and takes none away.                    *)
LEMMA RowIsAdded ==
  ASSUME NEW U, NEW sheets \in Seq(Seq(U)), Len(sheets) >= 1, NEW row \in U
  PROVE  /\ P!WithRow(sheets, row) \in Seq(Seq(U)) /\ Len(P!WithRow(sheets, row)) >= 1
         /\ \A x : StandsOn(P!WithRow(sheets, row), x) <=> StandsOn(sheets, x) \/ x = row
<1> DEFINE N == Len(sheets)
           new == P!WithRow(sheets, row)
           turned == Append(sheets, <<row>>)
           grown == [sheets EXCEPT ![N] = Append(sheets[N], row)]
<1>1. N \in Nat /\ N \in 1..N /\ DOMAIN sheets = 1..N
      /\ \A p \in 1..N : sheets[p] \in Seq(U) /\ Len(sheets[p]) \in Nat
  OBVIOUS
<1>2. new = turned \/ new = grown
  BY DEF P!WithRow
<1> HIDE DEF new
<1>3. CASE new = turned
  <2>1. new \in Seq(Seq(U)) /\ Len(new) = N + 1 /\ new[N + 1] = <<row>>
        /\ \A p \in 1..N : new[p] = sheets[p]
    <3>1. <<row>> \in Seq(U)
      OBVIOUS
    <3> DEFINE last == <<row>>
    <3> HIDE DEF last
    <3>2. last \in Seq(U) /\ new = Append(sheets, last)
      BY <1>3, <3>1 DEF last
    <3>3. new \in Seq(Seq(U)) /\ Len(new) = N + 1 /\ new[N + 1] = last
          /\ \A p \in 1..N : new[p] = sheets[p]
      BY <3>2, AppendProperties
    <3> QED
      BY <3>3 DEF last
  <2> HIDE DEF N
  <2>2. ASSUME NEW x, StandsOn(new, x) PROVE StandsOn(sheets, x) \/ x = row
    <3>1. PICK p \in 1..N + 1 : \E r \in 1..Len(new[p]) : new[p][r] = x
      BY <2>1, <2>2 DEF StandsOn
    <3>2. PICK r \in 1..Len(new[p]) : new[p][r] = x
      BY <3>1
    <3>3. CASE p = N + 1
      <4>1. new[p] = <<row>>
        BY <2>1, <3>3
      <4>2. r = 1 /\ <<row>>[1] = row
        BY <3>2, <4>1
      <4> QED
        BY <3>2, <4>1, <4>2
    <3>4. CASE p # N + 1
      <4>1. p \in 1..N /\ new[p] = sheets[p]
        BY <1>1, <2>1, <3>4
      <4> QED
        BY <3>2, <4>1 DEF StandsOn, N
    <3> QED
      BY <3>3, <3>4
  <2>3. ASSUME NEW x, StandsOn(sheets, x) PROVE StandsOn(new, x)
    <3>1. PICK p \in 1..N : \E r \in 1..Len(sheets[p]) : sheets[p][r] = x
      BY <2>3 DEF StandsOn, N
    <3>2. p \in 1..N + 1 /\ new[p] = sheets[p]
      BY <1>1, <2>1, <3>1
    <3> QED
      BY <2>1, <3>1, <3>2 DEF StandsOn
  <2>4. StandsOn(new, row)
    <3>1. N + 1 \in 1..N + 1 /\ 1 \in 1..Len(<<row>>) /\ <<row>>[1] = row
      BY <1>1
    <3>2. \E r \in 1..Len(new[N + 1]) : new[N + 1][r] = row
      BY <2>1, <3>1
    <3> QED
      BY <2>1, <3>1, <3>2 DEF StandsOn
  <2>5. Len(new) >= 1
    BY <1>1, <2>1
  <2> QED
    BY <2>1, <2>2, <2>3, <2>4, <2>5 DEF new
<1>4. CASE new = grown
  <2> DEFINE last == sheets[N]  k == Len(last)
  <2>1. last \in Seq(U) /\ k \in Nat
    BY <1>1
  <2>2. Append(last, row) \in Seq(U) /\ Len(Append(last, row)) = k + 1 /\ Append(last, row)[k + 1] = row
        /\ \A r \in 1..k : Append(last, row)[r] = last[r]
    <3> HIDE DEF last
    <3> QED
      BY <2>1, AppendProperties
  <2>3. new \in Seq(Seq(U)) /\ Len(new) = N /\ new[N] = Append(last, row)
        /\ \A p \in 1..N : p # N => new[p] = sheets[p]
    <3> DEFINE more == Append(last, row)
    <3>1. more \in Seq(U) /\ new = [sheets EXCEPT ![N] = more]
      BY <1>4, <2>2
    <3> HIDE DEF more, last, N, turned, grown
    <3>2. new \in Seq(Seq(U)) /\ Len(new) = N /\ new[N] = more
          /\ \A p \in 1..N : p # N => new[p] = sheets[p]
      <4>1. new = [p \in 1..N |-> IF p = N THEN more ELSE sheets[p]]
        BY <1>1, <3>1
      <4>2. \A p \in 1..N : new[p] \in Seq(U)
        BY <1>1, <3>1, <4>1
      <4> QED
        BY <1>1, <4>1, <4>2
    <3> QED
      BY <3>2 DEF more
  <2> HIDE DEF N
  <2>4. ASSUME NEW x, StandsOn(new, x) PROVE StandsOn(sheets, x) \/ x = row
    <3>1. PICK p \in 1..N : \E r \in 1..Len(new[p]) : new[p][r] = x
      BY <2>3, <2>4 DEF StandsOn
    <3>2. PICK r \in 1..Len(new[p]) : new[p][r] = x
      BY <3>1
    <3>3. CASE p = N
      <4>1. r \in 1..k + 1 /\ x = Append(last, row)[r]
        BY <2>2, <2>3, <3>2, <3>3
      <4>2. CASE r = k + 1
        BY <2>2, <4>1, <4>2
      <4>3. CASE r # k + 1
        <5>1. r \in 1..k
          <6> HIDE DEF k
          <6> QED
            BY <2>1, <4>1, <4>3
        <5>2. last[r] = x
          BY <2>2, <4>1, <5>1
        <5> QED
          BY <3>3, <5>1, <5>2 DEF StandsOn, N
      <4> QED
        BY <4>2, <4>3
    <3>4. CASE p # N
      <4>1. new[p] = sheets[p]
        BY <2>3, <3>4
      <4> QED
        BY <3>2, <4>1 DEF StandsOn, N
    <3> QED
      BY <3>3, <3>4
  <2>5. ASSUME NEW x, StandsOn(sheets, x) PROVE StandsOn(new, x)
    <3>1. PICK p \in 1..N : \E r \in 1..Len(sheets[p]) : sheets[p][r] = x
      BY <2>5 DEF StandsOn, N
    <3>2. PICK r \in 1..Len(sheets[p]) : sheets[p][r] = x
      BY <3>1
    <3>3. CASE p = N
      <4>1. r \in 1..k /\ last[r] = x
        BY <3>2, <3>3
      <4>2. r \in 1..k + 1 /\ Append(last, row)[r] = x
        BY <2>1, <2>2, <4>1
      <4> QED
        BY <2>2, <2>3, <3>3, <4>2 DEF StandsOn
    <3>4. CASE p # N
      <4>1. new[p] = sheets[p]
        BY <2>3, <3>4
      <4> QED
        BY <2>3, <3>2, <4>1 DEF StandsOn
    <3> QED
      BY <3>3, <3>4
  <2>6. StandsOn(new, row)
    <3>1. N \in 1..N /\ k + 1 \in 1..k + 1
      BY <1>1, <2>1
    <3>2. \E r \in 1..Len(new[N]) : new[N][r] = row
      BY <2>2, <2>3, <3>1
    <3> QED
      BY <2>3, <3>1, <3>2 DEF StandsOn
  <2>7. Len(new) >= 1
    BY <1>1, <2>3
  <2> QED
    BY <2>3, <2>4, <2>5, <2>6, <2>7 DEF new
<1> QED
  BY <1>2, <1>3, <1>4

(* The contents hold the rows they are made of, and no other. *)
LEMMA ContentsHold ==
  ASSUME NEW U, NEW some \in Seq(U)
  PROVE  /\ P!ContentsPages(some) \in Seq(Seq(U))
         /\ \A x : StandsOn(P!ContentsPages(some), x) <=> \E i \in 1..Len(some) : some[i] = x
<1> DEFINE N == Len(some)
           Values == {s \in Seq(Seq(U)) : Len(s) >= 1}
           blank == << <<>> >>
           Added(n, s) == P!WithRow(s, some[n])
           step == [n \in 1..N |-> [s \in Values |-> Added(n, s)]]
           Turn(f, n) == IF n = 0 THEN blank ELSE Added(n, f[n - 1])
           made == CHOOSE f : f = [n \in 0..N |-> Turn(f, n)]
<1>1. N \in Nat /\ \A i \in 1..N : some[i] \in U
  OBVIOUS
<1>2. blank \in Values /\ \A x : ~StandsOn(blank, x)
  <2>1. <<>> \in Seq(U) /\ Len(<<>>) = 0
    OBVIOUS
  <2> DEFINE e == <<>>
  <2> HIDE DEF e
  <2>2. e \in Seq(U) /\ Len(e) = 0 /\ blank = <<e>>
    BY <2>1 DEF e
  <2> HIDE DEF blank
  <2>3. blank \in Seq(Seq(U)) /\ Len(blank) = 1 /\ blank[1] = e
    BY <2>2
  <2> QED
    BY <2>2, <2>3 DEF StandsOn
<1>3. \A n \in 1..N, s \in Values : Added(n, s) \in Values
  <2> SUFFICES ASSUME NEW n \in 1..N, NEW s \in Values PROVE Added(n, s) \in Values
    OBVIOUS
  <2>1. some[n] \in U /\ s \in Seq(Seq(U)) /\ Len(s) >= 1
    BY <1>1
  <2> QED
    BY <2>1, RowIsAdded
<1>4. step \in Steps(N, Values)
  <2> HIDE DEF Added, Values
  <2> QED
    BY <1>3 DEF Steps
<1>5. PICK f : Runs(f, N, Values, blank, step)
  <2> HIDE DEF N, blank, step, Values
  <2> QED
    BY <1>1, <1>2, <1>4, Recursion
<1>6. /\ f \in [0..N -> Values] /\ f[0] = blank
      /\ \A n \in 1..N : f[n] = Added(n, f[n - 1])
  <2> HIDE DEF Added, Values, blank
  <2>1. \A n \in 1..N : f[n - 1] \in Values
    BY <1>5 DEF Runs
  <2> QED
    BY <1>5, <2>1 DEF Runs
<1>7. f = [n \in 0..N |-> Turn(f, n)]
  <2> HIDE DEF Added, Values, blank, step
  <2>1. \A n \in 0..N : n = 0 \/ (n \in 1..N /\ n # 0)
    OBVIOUS
  <2>2. \A n \in 0..N : f[n] = Turn(f, n)
    BY <1>6, <2>1
  <2> QED
    BY <1>6, <2>2
<1>8. made = [n \in 0..N |-> Turn(made, n)]
  <2> HIDE DEF Turn
  <2> QED
    BY <1>7
<1>9. P!ContentsPages(some) = made[N]
  BY DEF P!ContentsPages
<1> HIDE DEF made
<1>10. made[0] = blank /\ \A n \in 1..N : made[n] = Added(n, made[n - 1])
  <2> HIDE DEF blank, Added
  <2>1. 0 \in 0..N /\ \A n \in 1..N : n \in 0..N /\ n # 0
    OBVIOUS
  <2> QED
    BY <1>8, <2>1
<1> DEFINE T == {n \in 0..N : /\ made[n] \in Values
                              /\ \A x : StandsOn(made[n], x) <=> \E i \in 1..n : some[i] = x}
<1>11. 0 \in T
  <2> HIDE DEF blank, Values
  <2> QED
    BY <1>2, <1>10
<1>12. ASSUME NEW n \in 1..N, n - 1 \in T PROVE n \in T
  <2>1. made[n] = P!WithRow(made[n - 1], some[n]) /\ some[n] \in U
    BY <1>1, <1>10
  <2>2. made[n - 1] \in Seq(Seq(U)) /\ Len(made[n - 1]) >= 1
        /\ \A x : StandsOn(made[n - 1], x) <=> \E i \in 1..n - 1 : some[i] = x
    BY <1>12
  <2>3. /\ made[n] \in Values
        /\ \A x : StandsOn(made[n], x) <=> StandsOn(made[n - 1], x) \/ x = some[n]
    BY <2>1, <2>2, RowIsAdded
  <2>4. \A x : (\E i \in 1..n : some[i] = x) <=> (\E i \in 1..n - 1 : some[i] = x) \/ x = some[n]
    <3>1. \A i \in 1..n : i \in 1..n - 1 \/ i = n
      BY <1>1
    <3>2. n \in 1..n /\ \A i \in 1..n - 1 : i \in 1..n
      BY <1>1
    <3> QED
      BY <3>1, <3>2
  <2>5. n \in 0..N
    BY <1>1
  <2> HIDE DEF Values
  <2> QED
    BY <2>2, <2>3, <2>4, <2>5
<1>13. \A n \in 0..N : n \in T
  <2> HIDE DEF T
  <2> QED
    BY <1>1, <1>11, <1>12, Upwards
<1>14. N \in T
  <2>1. N \in 0..N
    BY <1>1
  <2> HIDE DEF T
  <2> QED
    BY <1>13, <2>1
<1> HIDE DEF Added, blank, step
<1> QED
  BY <1>9, <1>14

(* The page before the first one of a topic of the body, where the contents *)
(* come after as many of its topics.                                        *)
Ahead(sum, before, extra, i) == sum[i - 1] + (IF i > before THEN extra ELSE 0)

Bound(some, drawn, before, inner) ==
  P!Drawings(SubSeq(some, 1, before), drawn) \o inner
    \o P!Drawings(SubSeq(some, before + 1, Len(some)), drawn)

(* A part of a sequence, and the pages up to each topic of the part.       *)
IsPart(few, some, from, n) == Len(few) = n /\ \A i \in 1..n : few[i] = some[from + i]
SumsIn(sum, from, n) == [i \in 0..n |-> sum[from + i] - sum[from]]

(* What SubSeq cuts is a part.                                             *)
LEMMA PartOf ==
  ASSUME NEW U, NEW some \in Seq(U), NEW from \in Nat, NEW n \in Nat, from + n <= Len(some)
  PROVE  LET few == SubSeq(some, from + 1, from + n)
         IN few \in Seq(U) /\ IsPart(few, some, from, n)
<1> DEFINE few == SubSeq(some, from + 1, from + n)  a == from + 1  b == from + n
<1>1. a \in Int /\ b \in Int /\ \A i \in a..b : some[i] \in U
  <2>1. \A i \in a..b : i \in 1..Len(some)
    OBVIOUS
  <2> QED
    BY <2>1
<1>2. b - a + 1 = n /\ (a <= b => b - a + 1 = n) /\ (~(a <= b) => n = 0)
  OBVIOUS
<1> DEFINE len == Len(few)
<1>3. few \in Seq(U) /\ len = (IF a <= b THEN b - a + 1 ELSE 0)
      /\ \A i \in 1..b - a + 1 : few[i] = some[a + i - 1]
  <2> HIDE DEF a, b
  <2> QED
    BY <1>1, SubSeqProperties DEF a, b
<1>4. \A i \in 1..n : a + i - 1 = from + i
  OBVIOUS
<1> HIDE DEF few, len, a, b
<1>5. len = n
  BY <1>2, <1>3
<1>6. \A i \in 1..n : few[i] = some[from + i]
  BY <1>2, <1>3, <1>4
<1> QED
  BY <1>3, <1>5, <1>6 DEF few, len, IsPart

(* The sums of a part are those of the whole, from where it begins.        *)
LEMMA SumOfPart ==
  ASSUME NEW U, NEW some \in Seq(U), NEW drawn, Sized(some, drawn), NEW sum, SumOf(sum, some, drawn),
         NEW from \in Nat, NEW n \in Nat, from + n <= Len(some),
         NEW few \in Seq(U), IsPart(few, some, from, n)
  PROVE  Sized(few, drawn) /\ SumOf(SumsIn(sum, from, n), few, drawn)
<1>0. Len(few) = n /\ \A i \in 1..n : few[i] = some[from + i]
  BY DEF IsPart
<1> DEFINE cut == [i \in 0..n |-> sum[from + i] - sum[from]]
<1>1. Len(some) \in Nat /\ Rising(sum, Len(some))
  BY SumRises, LenProperties
<1>2. \A i \in 1..n : from + i \in 1..Len(some) /\ from + (i - 1) = (from + i) - 1
                      /\ i \in 0..n /\ i - 1 \in 0..n
  BY <1>1
<1>3. Sized(few, drawn)
  <2>1. ASSUME NEW i \in 1..n PROVE drawn[few[i].id] \in Nat
    <3>1. from + i \in 1..Len(some) /\ few[i] = some[from + i]
      BY <1>0, <1>2
    <3> QED
      BY <3>1 DEF Sized
  <2> QED
    BY <1>0, <2>1 DEF Sized
<1>4. ASSUME NEW i \in 0..n PROVE sum[from + i] - sum[from] \in Nat
  <2>1. from \in 0..Len(some) /\ from + i \in 0..Len(some) /\ from <= from + i
    BY <1>1
  <2>2. sum[from] <= sum[from + i]
    BY <1>1, <2>1, RisesOn
  <2>3. sum[from] \in Nat /\ sum[from + i] \in Nat
    BY <2>1 DEF SumOf
  <2> QED
    BY <2>2, <2>3
<1>5. cut[0] = 0
  <2>1. from \in 0..Len(some) /\ 0 \in 0..n /\ from + 0 = from
    BY <1>1
  <2>2. sum[from] \in Nat
    BY <2>1 DEF SumOf
  <2>3. cut[0] = sum[from] - sum[from]
    BY <2>1
  <2> QED
    BY <2>2, <2>3
<1>6. ASSUME NEW i \in 1..n PROVE cut[i] = cut[i - 1] + drawn[few[i].id]
  <2> DEFINE j == from + i
  <2>0. j \in 1..Len(some) /\ few[i] = some[j]
    BY <1>0, <1>2
  <2>1. j \in 1..Len(some) /\ from + (i - 1) = j - 1 /\ few[i] = some[j] /\ i \in 0..n /\ i - 1 \in 0..n
        /\ from \in 0..Len(some)
    BY <1>1, <1>2, <2>0
  <2>2. cut[i] = sum[j] - sum[from] /\ cut[i - 1] = sum[j - 1] - sum[from]
    BY <2>1
  <2> HIDE DEF j, cut
  <2>3. /\ sum[j - 1] \in Nat /\ sum[j] \in Nat /\ drawn[some[j].id] \in Nat
        /\ sum[j] = sum[j - 1] + drawn[some[j].id]
    BY <2>1, SumStep
  <2>4. sum[from] \in Nat
    BY <2>1 DEF SumOf
  <2> DEFINE x == sum[j - 1]  y == sum[j]  z == drawn[some[j].id]  o == sum[from]
  <2>5. y - o = (x - o) + z
    <3>1. x \in Nat /\ y \in Nat /\ z \in Nat /\ o \in Nat /\ y = x + z
      BY <2>3, <2>4
    <3> HIDE DEF x, y, z, o
    <3> QED
      BY <3>1
  <2> QED
    BY <2>1, <2>2, <2>5
<1>7. cut \in [0..n -> Nat]
  BY <1>4
<1> HIDE DEF cut
<1>8. SumOf(cut, few, drawn)
  BY <1>0, <1>5, <1>6, <1>7 DEF SumOf
<1> QED
  BY <1>3, <1>8 DEF cut, SumsIn

(* Each topic begins behind those before it.                               *)
AheadSo(sum, some, drawn, before, extra, i) ==
  LET a == Ahead(sum, before, extra, i)
      w == drawn[some[i].id]
  IN  /\ a \in Nat /\ w \in Nat /\ sum[i - 1] \in Nat /\ sum[i] \in Nat
      /\ i <= before => a = sum[i - 1] /\ a + w = sum[i]
      /\ i > before => a = sum[i - 1] + extra /\ a + w = sum[i] + extra

(* What comes ahead of a topic is its sum, and the contents if it follows them. *)
LEMMA AheadIs ==
  ASSUME NEW U, NEW some \in Seq(U), NEW drawn, Sized(some, drawn), NEW sum, SumOf(sum, some, drawn),
         NEW before \in Nat, NEW extra \in Nat, NEW i \in 1..Len(some)
  PROVE  AheadSo(sum, some, drawn, before, extra, i)
<1> DEFINE x == sum[i - 1]  y == sum[i]  z == drawn[some[i].id]  a == Ahead(sum, before, extra, i)
<1>1. x \in Nat /\ y \in Nat /\ z \in Nat /\ y = x + z
  BY SumStep
<1>2. a = x + (IF i > before THEN extra ELSE 0)
  BY DEF Ahead
<1>3. i \in Nat
  BY LenProperties
<1> HIDE DEF x, y, z, a
<1>4. /\ a \in Nat
      /\ i <= before => a = x /\ a + z = y
      /\ i > before => a = x + extra /\ a + z = y + extra
  BY <1>1, <1>2, <1>3
<1> QED
  BY <1>1, <1>4 DEF x, y, z, a, AheadSo

(* The topics come one behind the other.                                   *)
LEMMA AheadInOrder ==
  ASSUME NEW U, NEW some \in Seq(U), NEW drawn, Sized(some, drawn), NEW sum, SumOf(sum, some, drawn),
         NEW before \in Nat, NEW extra \in Nat, NEW i \in 1..Len(some), NEW j \in 1..Len(some), i < j
  PROVE  Ahead(sum, before, extra, i) + drawn[some[i].id] <= Ahead(sum, before, extra, j)
<1> DEFINE y == sum[i]  x == sum[j - 1]  b == Ahead(sum, before, extra, j)
           e == Ahead(sum, before, extra, i) + drawn[some[i].id]
<1>1. i \in Nat /\ j \in Nat /\ i \in 0..Len(some) /\ j - 1 \in 0..Len(some) /\ i <= j - 1
  BY LenProperties
<1>2. y <= x
  <2>1. Rising(sum, Len(some))
    BY SumRises
  <2> QED
    BY <1>1, <2>1, RisesOn
<1>3. AheadSo(sum, some, drawn, before, extra, i)
  BY AheadIs
<1>4. AheadSo(sum, some, drawn, before, extra, j)
  BY AheadIs
<1>6. y \in Nat /\ (i <= before => e = y) /\ (i > before => e = y + extra)
  BY <1>3 DEF AheadSo
<1>7. x \in Nat /\ (j <= before => b = x) /\ (j > before => b = x + extra)
  BY <1>4 DEF AheadSo
<1> HIDE DEF x, y, b, e
<1>5. e <= b
  BY <1>1, <1>2, <1>6, <1>7
<1> QED
  BY <1>5 DEF e, b

(* What a joined sequence holds.                                           *)
LEMMA JoinIs ==
  ASSUME NEW U, NEW a \in Seq(U), NEW b \in Seq(U)
  PROVE  /\ Len(a \o b) = Len(a) + Len(b)
         /\ \A q \in 1..Len(a) : (a \o b)[q] = a[q]
         /\ \A q \in 1..Len(b) : (a \o b)[Len(a) + q] = b[q]
  OBVIOUS

(* The drawings of the first part and of the rest, with the contents between. *)
BoundSo(sheets, inner, sum, some, drawn, before) ==
  /\ Len(sheets) = sum[Len(some)] + Len(inner)
  /\ \A p \in 1..Len(inner) : /\ sum[before] + p \in 1..Len(sheets)
                              /\ sheets[sum[before] + p] = inner[p]
  /\ \A i \in 1..Len(some) : \A k \in 1..drawn[some[i].id] :
       /\ Ahead(sum, before, Len(inner), i) + k \in 1..Len(sheets)
       /\ sheets[Ahead(sum, before, Len(inner), i) + k] = PageFor(some[i].id)
  /\ \A q \in 1..Len(sheets) :
       \/ \E p \in 1..Len(inner) : q = sum[before] + p
       \/ \E i \in 1..Len(some) : \E k \in 1..drawn[some[i].id] :
            q = Ahead(sum, before, Len(inner), i) + k

(* Where each sheet of the bound book comes from, and where each goes.     *)
LEMMA BoundAt ==
  ASSUME NEW U, NEW some \in Seq(U), NEW drawn, Sized(some, drawn), NEW sum, SumOf(sum, some, drawn),
         NEW before \in Nat, before <= Len(some), NEW V, NEW inner \in Seq(V)
  PROVE  BoundSo(Bound(some, drawn, before, inner), inner, sum, some, drawn, before)
<1> DEFINE N == Len(some)
           extra == Len(inner)
           sheets == Bound(some, drawn, before, inner)
           front == SubSeq(some, 1, before)
           back == SubSeq(some, before + 1, N)
           F == P!Drawings(front, drawn)
           B == P!Drawings(back, drawn)
           cf == SumsIn(sum, 0, before)
           cb == SumsIn(sum, before, N - before)
           head == sum[before]
           tail == sum[N]
<1>1. N \in Nat /\ before <= N /\ extra \in Nat /\ N - before \in Nat
      /\ 0 \in 0..N /\ before \in 0..N /\ N \in 0..N
  BY LenProperties
<1>2. Rising(sum, N) /\ head \in Nat /\ tail \in Nat /\ sum[0] = 0
  <2>1. Rising(sum, N)
    BY SumRises
  <2>2. head \in Nat /\ tail \in Nat /\ sum[0] = 0
    BY <1>1 DEF SumOf
  <2> QED
    BY <2>1, <2>2
<1>3. head <= tail
  BY <1>1, <1>2, RisesOn
<1> HIDE DEF N, head, tail
<1>4. /\ front \in Seq(U) /\ Len(front) = before /\ \A i \in 1..before : front[i] = some[0 + i]
      /\ Sized(front, drawn) /\ SumOf(cf, front, drawn)
  <2>1. 0 \in Nat /\ 0 + before = before /\ 0 + 1 = 1
    OBVIOUS
  <2>2. front \in Seq(U) /\ IsPart(front, some, 0, before)
    <3>1. LET few == SubSeq(some, 0 + 1, 0 + before)
          IN few \in Seq(U) /\ IsPart(few, some, 0, before)
      BY <1>1, <2>1, PartOf DEF N
    <3> QED
      BY <2>1, <3>1
  <2> HIDE DEF front
  <2>3. Sized(front, drawn) /\ SumOf(cf, front, drawn)
    <3>1. 0 + before <= Len(some)
      BY <1>1 DEF N
    <3> QED
      BY <2>1, <2>2, <3>1, SumOfPart
  <2> QED
    BY <2>2, <2>3 DEF IsPart
<1>5. /\ back \in Seq(U) /\ Len(back) = N - before /\ \A i \in 1..N - before : back[i] = some[before + i]
      /\ Sized(back, drawn) /\ SumOf(cb, back, drawn)
  <2> DEFINE n == N - before
  <2>1. n \in Nat /\ before + n = N /\ before + n <= Len(some)
    BY <1>1 DEF N
  <2> HIDE DEF n
  <2>2. back \in Seq(U) /\ IsPart(back, some, before, n)
    <3>1. LET few == SubSeq(some, before + 1, before + n)
          IN few \in Seq(U) /\ IsPart(few, some, before, n)
      BY <2>1, PartOf
    <3> QED
      BY <2>1, <3>1
  <2> HIDE DEF back
  <2>3. Sized(back, drawn) /\ SumOf(SumsIn(sum, before, n), back, drawn)
    BY <2>1, <2>2, SumOfPart
  <2> QED
    BY <2>2, <2>3 DEF n, IsPart
<1> HIDE DEF front, back
<1> DEFINE W == V \cup {PageFor(some[i].id) : i \in 1..N}
<1>6. \A i \in 1..before : i \in 1..N /\ 0 + i = i
  BY <1>1
<1>7. \A i \in 1..N - before : before + i \in 1..N
  BY <1>1
<1>8. F \in Seq(W) /\ Len(F) = cf[before] /\ DrawnBy(F, cf, front, drawn)
  <2>1. F \in Seq({PageFor(front[i].id) : i \in 1..Len(front)})
    BY <1>4, DrawnAt
  <2>2. Len(F) = cf[Len(front)] /\ DrawnBy(F, cf, front, drawn)
    <3> HIDE DEF cf
    <3> QED
      BY <1>4, DrawnAt
  <2>3. {PageFor(front[i].id) : i \in 1..Len(front)} \subseteq W
    BY <1>4, <1>6
  <2> DEFINE Few == {PageFor(front[i].id) : i \in 1..Len(front)}
  <2> HIDE DEF F, Few, W
  <2>4. F \in Seq(W)
    BY <2>1, <2>3 DEF Few
  <2> QED
    BY <1>4, <2>2, <2>4
<1>9. B \in Seq(W) /\ Len(B) = cb[N - before] /\ DrawnBy(B, cb, back, drawn)
  <2>1. B \in Seq({PageFor(back[i].id) : i \in 1..Len(back)})
    BY <1>5, DrawnAt
  <2>2. Len(B) = cb[Len(back)] /\ DrawnBy(B, cb, back, drawn)
    <3> HIDE DEF cb
    <3> QED
      BY <1>5, DrawnAt
  <2>3. {PageFor(back[i].id) : i \in 1..Len(back)} \subseteq W
    BY <1>5, <1>7
  <2> DEFINE Few == {PageFor(back[i].id) : i \in 1..Len(back)}
  <2> HIDE DEF B, Few, W
  <2>4. B \in Seq(W)
    BY <2>1, <2>3 DEF Few
  <2> QED
    BY <1>5, <2>2, <2>4
<1> HIDE DEF F, B
<1>10. Len(F) = head /\ Len(B) = tail - head /\ Len(B) \in Nat
  <2>1. cf[before] = sum[0 + before] - sum[0] /\ 0 + before = before
    BY <1>1 DEF SumsIn
  <2>2. cb[N - before] = sum[before + (N - before)] - sum[before] /\ before + (N - before) = N
    BY <1>1 DEF SumsIn
  <2> HIDE DEF cf, cb
  <2>3. cf[before] = head - 0 /\ cb[N - before] = tail - head
    BY <1>2, <2>1, <2>2 DEF head, tail
  <2> QED
    BY <1>2, <1>3, <1>8, <1>9, <2>3
<1> HIDE DEF W
<1> DEFINE FC == F \o inner
<1>11. /\ FC \in Seq(W) /\ Len(FC) = head + extra
       /\ \A q \in 1..head : FC[q] = F[q]
       /\ \A p \in 1..extra : FC[head + p] = inner[p]
  <2>1. inner \in Seq(W)
    BY DEF W
  <2>2. Len(FC) = Len(F) + extra
    BY <1>8, <2>1
  <2>3. FC \in Seq(W)
    BY <1>8, <2>1
  <2>4. /\ \A q \in 1..Len(F) : FC[q] = F[q]
        /\ \A p \in 1..extra : FC[Len(F) + p] = inner[p]
    BY <1>8, <2>1
  <2> HIDE DEF FC, extra
  <2> QED
    BY <1>10, <2>2, <2>3, <2>4
<1>12. sheets = FC \o B
  BY DEF Bound, F, B, front, back, N
<1> HIDE DEF FC, sheets, extra
<1>13. /\ Len(sheets) = tail + extra
       /\ \A q \in 1..head + extra : sheets[q] = FC[q]
       /\ \A q \in 1..Len(B) : sheets[head + extra + q] = B[q]
  <2>1. /\ Len(sheets) = Len(FC) + Len(B)
        /\ \A q \in 1..Len(FC) : sheets[q] = FC[q]
        /\ \A q \in 1..Len(B) : sheets[Len(FC) + q] = B[q]
    <3>1. FC \in Seq(W) /\ B \in Seq(W)
      BY <1>9, <1>11
    <3> QED
      BY <1>12, <3>1, JoinIs
  <2>2. head + extra + (tail - head) = tail + extra
    BY <1>1, <1>2
  <2> QED
    BY <1>10, <1>11, <2>1, <2>2
<1> DEFINE w(i) == drawn[some[i].id]  ahead(i) == Ahead(sum, before, extra, i)
<1>14. ASSUME NEW i \in 1..N
       PROVE  /\ ahead(i) \in Nat /\ w(i) \in Nat /\ sum[i - 1] \in Nat /\ sum[i] \in Nat
              /\ i <= before => ahead(i) = sum[i - 1] /\ ahead(i) + w(i) = sum[i]
              /\ i > before => ahead(i) = sum[i - 1] + extra /\ ahead(i) + w(i) = sum[i] + extra
              /\ sum[i] <= tail
              /\ i <= before => sum[i] <= head
              /\ i > before => head <= sum[i - 1]
  <2>1. i \in 0..N /\ i - 1 \in 0..N /\ i <= N /\ (i > before => before <= i - 1)
    BY <1>1
  <2>2. \A a, b \in 0..N : a <= b => sum[a] <= sum[b]
    BY <1>2, RisesOn
  <2>3. sum[i] <= tail
    BY <1>1, <2>1, <2>2 DEF tail
  <2>4. i <= before => sum[i] <= head
    BY <1>1, <2>1, <2>2 DEF head
  <2>5. i > before => head <= sum[i - 1]
    BY <1>1, <2>1, <2>2 DEF head
  <2>6. /\ ahead(i) \in Nat /\ w(i) \in Nat /\ sum[i - 1] \in Nat /\ sum[i] \in Nat
        /\ i <= before => ahead(i) = sum[i - 1] /\ ahead(i) + w(i) = sum[i]
        /\ i > before => ahead(i) = sum[i - 1] + extra /\ ahead(i) + w(i) = sum[i] + extra
    <3>1. AheadSo(sum, some, drawn, before, extra, i)
      BY <1>1, AheadIs DEF N
    <3> QED
      BY <3>1 DEF AheadSo
  <2> HIDE DEF ahead, w
  <2> QED
    BY <2>3, <2>4, <2>5, <2>6
<1>15. \A p \in 1..extra : head + p \in 1..Len(sheets) /\ sheets[head + p] = inner[p]
  <2> SUFFICES ASSUME NEW p \in 1..extra
               PROVE  head + p \in 1..Len(sheets) /\ sheets[head + p] = inner[p]
    OBVIOUS
  <2>1. Len(sheets) = tail + extra
    BY <1>13
  <2>2. head + p \in 1..head + extra /\ head + p \in 1..tail + extra
    BY <1>1, <1>2, <1>3
  <2>3. FC[head + p] = inner[p]
    BY <1>11
  <2>4. sheets[head + p] = FC[head + p]
    BY <1>13, <2>2
  <2> QED
    BY <2>1, <2>2, <2>3, <2>4
<1>16. ASSUME NEW i \in 1..N, NEW k \in 1..w(i)
       PROVE  ahead(i) + k \in 1..Len(sheets) /\ sheets[ahead(i) + k] = PageFor(some[i].id)
  <2> DEFINE x == sum[i - 1]  y == sum[i]  z == w(i)  a == ahead(i)
  <2>1. /\ a \in Nat /\ z \in Nat /\ x \in Nat /\ y \in Nat
        /\ i <= before => a = x /\ a + z = y /\ y <= head
        /\ i > before => a = x + extra /\ a + z = y + extra /\ head <= x
        /\ y <= tail
    BY <1>14
  <2>2. i \in Nat /\ k \in 1..z /\ Len(sheets) = tail + extra
    BY <1>1, <1>13
  <2> HIDE DEF x, y, z, a
  <2>3. a + k \in 1..Len(sheets)
    BY <1>1, <1>2, <2>1, <2>2
  <2>4. CASE i <= before
    <3>1. i \in 1..before /\ i \in 1..Len(front)
      BY <1>1, <1>4, <2>4
    <3>2. front[i] = some[i]
      BY <1>4, <1>6, <3>1
    <3>3. cf[i - 1] = x
      <4>1. i - 1 \in 0..before /\ 0 + (i - 1) = i - 1
        BY <1>1, <3>1
      <4>2. cf[i - 1] = sum[i - 1] - 0
        BY <1>2, <4>1 DEF SumsIn
      <4> QED
        BY <2>1, <4>2 DEF x
    <3> HIDE DEF cf
    <3>4. k \in 1..drawn[front[i].id]
      BY <2>2, <3>2 DEF z
    <3>5. F[cf[i - 1] + k] = PageFor(front[i].id)
      BY <1>8, <3>1, <3>4 DEF DrawnBy
    <3>6. F[a + k] = PageFor(some[i].id)
      BY <2>1, <2>4, <3>2, <3>3, <3>5
    <3>7. a + k \in 1..head /\ a + k \in 1..head + extra
      BY <1>1, <1>2, <2>1, <2>2, <2>4
    <3>8. FC[a + k] = F[a + k]
      BY <1>11, <3>7
    <3>9. sheets[a + k] = FC[a + k]
      BY <1>13, <3>7
    <3> QED
      BY <2>3, <3>6, <3>8, <3>9 DEF a
  <2>5. CASE i > before
    <3> DEFINE n == i - before
    <3>1. n \in 1..N - before /\ n \in 1..Len(back) /\ before + n = i /\ n - 1 \in 0..N - before
          /\ before + (n - 1) = i - 1
      BY <1>1, <1>5, <2>5
    <3> HIDE DEF n
    <3>2. back[n] = some[i]
      BY <1>5, <3>1
    <3>3. cb[n - 1] = x - head
      BY <3>1 DEF x, head, SumsIn
    <3> HIDE DEF cb
    <3>4. k \in 1..drawn[back[n].id]
      BY <2>2, <3>2 DEF z
    <3>5. B[cb[n - 1] + k] = PageFor(back[n].id)
      BY <1>9, <3>1, <3>4 DEF DrawnBy
    <3> DEFINE r == x - head + k
    <3>6. B[r] = PageFor(some[i].id)
      BY <3>2, <3>3, <3>5
    <3>7. r \in 1..Len(B) /\ a + k = head + extra + r
      BY <1>1, <1>2, <1>10, <2>1, <2>2, <2>5
    <3> HIDE DEF r
    <3>8. sheets[head + extra + r] = B[r]
      BY <1>13, <3>7
    <3> QED
      BY <2>3, <3>6, <3>7, <3>8 DEF a
  <2>6. i <= before \/ i > before
    BY <2>2
  <2> QED
    BY <2>4, <2>5, <2>6
<1>17. ASSUME NEW r \in 1..tail
       PROVE  \E i \in 1..N : r - sum[i - 1] \in 1..w(i)
  <2>1. PICK i \in 1..N : sum[i - 1] < r /\ r <= sum[i]
    BY <1>2, Between DEF tail
  <2> DEFINE x == sum[i - 1]  y == sum[i]  z == w(i)
  <2>2. x \in Nat /\ y \in Nat /\ z \in Nat /\ y = x + z
    BY SumStep DEF N
  <2>3. x < r /\ r <= y
    BY <2>1
  <2> HIDE DEF x, y, z
  <2>4. r - x \in 1..z
    BY <1>2, <2>2, <2>3
  <2> QED
    BY <2>4 DEF x, z
<1>18. ASSUME NEW q \in 1..Len(sheets)
       PROVE  \/ \E p \in 1..extra : q = head + p
              \/ \E i \in 1..N : \E k \in 1..w(i) : q = ahead(i) + k
  <2>1. q \in 1..tail + extra
    BY <1>13
  <2>2. CASE q > head /\ q <= head + extra
    <3>1. q - head \in 1..extra /\ q = head + (q - head)
      BY <1>1, <1>2, <2>1, <2>2
    <3> QED
      BY <3>1
  <2>3. CASE q <= head \/ q > head + extra
    <3> DEFINE r == IF q <= head THEN q ELSE q - extra
    <3>1. r \in 1..tail /\ (q <= head => r = q) /\ (q > head + extra => r = q - extra /\ r > head)
      BY <1>1, <1>2, <1>3, <2>1, <2>3
    <3> HIDE DEF r
    <3>2. PICK i \in 1..N : r - sum[i - 1] \in 1..w(i)
      BY <1>17, <3>1
    <3> DEFINE x == sum[i - 1]  y == sum[i]  z == w(i)  a == ahead(i)
    <3>3. /\ a \in Nat /\ z \in Nat /\ x \in Nat /\ y \in Nat
          /\ i <= before => a = x /\ a + z = y /\ y <= head
          /\ i > before => a = x + extra /\ a + z = y + extra /\ head <= x
          /\ y <= tail
      BY <1>14
    <3>4. r - x \in 1..z /\ i \in Nat
      BY <1>1, <3>2
    <3> HIDE DEF x, y, z, a
    <3>5. r - x \in 1..z /\ q = a + (r - x)
      BY <1>1, <1>2, <2>1, <2>3, <3>1, <3>3, <3>4
    <3>6. \E k \in 1..z : q = a + k
      BY <3>5
    <3> QED
      BY <3>6 DEF z, a
  <2> QED
    BY <1>1, <1>2, <2>1, <2>2, <2>3
<1> HIDE DEF ahead, w
<1>19. /\ Len(sheets) = tail + extra
       /\ \A i \in 1..N : \A k \in 1..w(i) :
            ahead(i) + k \in 1..Len(sheets) /\ sheets[ahead(i) + k] = PageFor(some[i].id)
       /\ \A q \in 1..Len(sheets) : \/ \E p \in 1..extra : q = head + p
                                    \/ \E i \in 1..N : \E k \in 1..w(i) : q = ahead(i) + k
  BY <1>13, <1>16, <1>18
<1> QED
  BY <1>15, <1>19 DEF BoundSo, ahead, w, head, tail, extra, N, sheets

(* A listing whose topics are drawn, each on a page at least.              *)
Ready(some, drawn) ==
  \A i \in 1..Len(some) : /\ some[i].id \notin {None, "title page"}
                          /\ ~P!IsContents(some[i]) => drawn[some[i].id] \in Nat \ {0}

(* The body: the rows that are neither titles nor contents, all drawn.     *)
LEMMA BodyIs ==
  ASSUME NEW U, NEW some \in Seq(U), NEW drawn, Ready(some, drawn)
  PROVE  /\ P!Body(some) \in Seq(U)
         /\ Sized(P!Body(some), drawn)
         /\ \A j \in 1..Len(P!Body(some)) : \E i \in 1..Len(some) :
              /\ P!Body(some)[j] = some[i] /\ ~P!IsTitle(some[i]) /\ ~P!IsContents(some[i])
         /\ \A i \in 1..Len(some) : ~P!IsTitle(some[i]) /\ ~P!IsContents(some[i]) =>
              \E j \in 1..Len(P!Body(some)) : P!Body(some)[j] = some[i]
<1> DEFINE Q == {i \in DOMAIN some : ~P!IsTitle(some[i]) /\ ~P!IsContents(some[i])}
           body == P!Body(some)
<1>1. body = P!Those(some, Q)
  BY DEF P!Body
<1>2. DOMAIN some = 1..Len(some)
  BY LenProperties
<1> HIDE DEF body
<1>3. /\ body \in Seq(U)
      /\ \A p \in 1..Len(body) : \E i \in 1..Len(some) : i \in Q /\ body[p] = some[i]
      /\ \A i \in 1..Len(some) : i \in Q => \E p \in 1..Len(body) : body[p] = some[i]
  <2> HIDE DEF Q
  <2> QED
    BY <1>1, ThoseAre
<1>4. Sized(body, drawn)
  BY <1>3 DEF Sized, Ready
<1> QED
  BY <1>2, <1>3, <1>4 DEF body

(* The titles, all drawn.                                                  *)
LEMMA TitlesAre ==
  ASSUME NEW U, NEW some \in Seq(U), NEW drawn, Ready(some, drawn)
  PROVE  /\ P!Titles(some) \in Seq(U)
         /\ \A j \in 1..Len(P!Titles(some)) : \E i \in 1..Len(some) :
              P!Titles(some)[j] = some[i] /\ P!IsTitle(some[i])
         /\ Sized(P!Titles(some), drawn)
         /\ \A j \in 1..Len(P!Titles(some)) : drawn[P!Titles(some)[j].id] # 0
<1> DEFINE Covers == P!Named(some, "COVER")  Inside == P!Named(some, "TITLE")
           c == P!Those(some, Covers)  t == P!Those(some, Inside)  titles == P!Titles(some)
<1>1. DOMAIN some = 1..Len(some)
  BY LenProperties
<1>2. titles = c \o t
  BY DEF P!Titles
<1>3. /\ \A i \in Covers : P!IsTitle(some[i])
      /\ \A i \in Inside : P!IsTitle(some[i])
  BY DEF P!Named, P!IsTitle
<1> HIDE DEF Covers, Inside, titles
<1>4. /\ c \in Seq(U)
      /\ \A p \in 1..Len(c) : \E i \in 1..Len(some) : i \in Covers /\ c[p] = some[i]
  BY ThoseAre
<1>5. /\ t \in Seq(U)
      /\ \A p \in 1..Len(t) : \E i \in 1..Len(some) : i \in Inside /\ t[p] = some[i]
  BY ThoseAre
<1> HIDE DEF c, t
<1>6. titles \in Seq(U)
  BY <1>2, <1>4, <1>5
<1>7. ASSUME NEW j \in 1..Len(titles)
      PROVE  \E i \in 1..Len(some) : titles[j] = some[i] /\ P!IsTitle(some[i])
  <2>1. /\ Len(titles) = Len(c) + Len(t) /\ Len(c) \in Nat /\ Len(t) \in Nat
        /\ \A q \in 1..Len(c) : titles[q] = c[q]
        /\ \A q \in 1..Len(t) : titles[Len(c) + q] = t[q]
    BY <1>2, <1>4, <1>5, JoinIs, LenProperties
  <2>2. CASE j <= Len(c)
    <3>1. j \in 1..Len(c)
      BY <2>1, <2>2
    <3>2. titles[j] = c[j]
      BY <2>1, <3>1
    <3> QED
      BY <1>3, <1>4, <3>1, <3>2
  <2>3. CASE j > Len(c)
    <3>1. j - Len(c) \in 1..Len(t) /\ j = Len(c) + (j - Len(c))
      BY <2>1, <2>3
    <3>2. titles[j] = t[j - Len(c)]
      BY <2>1, <3>1
    <3> QED
      BY <1>3, <1>5, <3>1, <3>2
  <2> QED
    BY <2>1, <2>2, <2>3
<1>8. \A i \in 1..Len(some) : P!IsTitle(some[i]) => drawn[some[i].id] \in Nat \ {0}
  <2>1. \A i \in 1..Len(some) : P!IsTitle(some[i]) => ~P!IsContents(some[i])
    BY DEF P!IsTitle, P!IsContents
  <2> QED
    BY <2>1 DEF Ready
<1>9. ASSUME NEW j \in 1..Len(titles) PROVE drawn[titles[j].id] \in Nat \ {0}
  BY <1>7, <1>8
<1> QED
  BY <1>6, <1>7, <1>9 DEF titles, Sized

(* The parts of the book as they are bound.                                *)
ContentsOf(some, drawn) ==
  [p \in DOMAIN P!ContentsPages(P!Body(some)) |->
     [topic |-> None, rows |-> [r \in DOMAIN P!ContentsPages(P!Body(some))[p] |->
        [id |-> P!ContentsPages(P!Body(some))[p][r].id,
         number |-> P!PageNumbers(some, drawn)[P!ContentsPages(P!Body(some))[p][r].id]]]]]
NumberedOf(some, drawn) == Bound(P!Body(some), drawn, P!BeforeContents(some), ContentsOf(some, drawn))
TitlesOf(some, drawn) ==
  IF P!Titles(some) = <<>> THEN <<[topic |-> "title page", rows |-> <<>>]>>
  ELSE P!Drawings(P!Titles(some), drawn)

(* The contents of the book are a page for each page of rows.              *)
LEMMA ContentsAre ==
  ASSUME NEW U, NEW some \in Seq(U), NEW drawn, Ready(some, drawn)
  PROVE  /\ ContentsOf(some, drawn) \in Seq({ContentsOf(some, drawn)[p] : p \in 1..Len(ContentsOf(some, drawn))})
         /\ Len(ContentsOf(some, drawn)) = Len(P!ContentsPages(P!Body(some)))
<1> DEFINE cp == P!ContentsPages(P!Body(some))  c == ContentsOf(some, drawn)
           Page(p) == [topic |-> None, rows |-> [r \in DOMAIN cp[p] |->
             [id |-> cp[p][r].id, number |-> P!PageNumbers(some, drawn)[cp[p][r].id]]]]
<1>1. cp \in Seq(Seq(U))
  BY BodyIs, ContentsHold
<1>2. c = [p \in DOMAIN cp |-> Page(p)]
  BY DEF ContentsOf
<1> HIDE DEF cp, c, Page
<1> DEFINE n == Len(cp)
<1>3. n \in Nat /\ DOMAIN cp = 1..n
  BY <1>1, LenProperties
<1> HIDE DEF n
<1>4. c = [p \in 1..n |-> c[p]] /\ Len(c) = n
  BY <1>2, <1>3
<1>5. c \in Seq({c[p] : p \in 1..n})
  BY <1>3, <1>4
<1> QED
  BY <1>4, <1>5 DEF c, cp, n

(* A book begins with a page at least, and its titles list nothing.        *)
LEMMA TitlesOfAre ==
  ASSUME NEW U, NEW some \in Seq(U), NEW drawn, Ready(some, drawn)
  PROVE  /\ TitlesOf(some, drawn) \in Seq({TitlesOf(some, drawn)[p] : p \in 1..Len(TitlesOf(some, drawn))})
         /\ Len(TitlesOf(some, drawn)) \in Nat \ {0}
         /\ \A p \in 1..Len(TitlesOf(some, drawn)) : TitlesOf(some, drawn)[p].rows = <<>>
<1> DEFINE titles == P!Titles(some)  t == TitlesOf(some, drawn)
<1>1. /\ titles \in Seq(U) /\ Sized(titles, drawn)
      /\ \A j \in 1..Len(titles) : drawn[titles[j].id] # 0
  BY TitlesAre
<1> DEFINE blank == [topic |-> "title page", rows |-> <<>>]
<1>2. t = IF titles = <<>> THEN <<blank>> ELSE P!Drawings(titles, drawn)
  BY DEF TitlesOf
<1> HIDE DEF titles, t
<1>3. CASE titles = <<>>
  <2>1. blank.rows = <<>>
    OBVIOUS
  <2> HIDE DEF blank
  <2>2. t = <<blank>>
    BY <1>2, <1>3
  <2>3. Len(t) = 1 /\ t[1] = blank /\ t \in Seq({blank})
    BY <2>2
  <2>4. {t[p] : p \in 1..Len(t)} = {blank}
    BY <2>3
  <2> QED
    BY <2>1, <2>3, <2>4 DEF t
<1>4. CASE titles # <<>>
  <2> DEFINE Few == {PageFor(titles[i].id) : i \in 1..Len(titles)}
  <2>1. t = P!Drawings(titles, drawn)
    BY <1>2, <1>4
  <2>2. t \in Seq(Few)
    BY <1>1, <2>1, DrawnAt
  <2>3. \A x \in Few : x.rows = <<>>
    BY DEF PageFor
  <2>4. PICK sum : SumOf(sum, titles, drawn)
    BY <1>1, PagesStepwise
  <2>5. Len(t) = sum[Len(titles)]
    BY <1>1, <2>1, <2>4, DrawnAt
  <2>6. Len(titles) \in Nat /\ 1 \in 1..Len(titles) /\ 1 \in 0..Len(titles) /\ Len(titles) \in 0..Len(titles)
    <3>1. Len(titles) \in Nat /\ Len(titles) # 0
      BY <1>1, <1>4
    <3> QED
      BY <3>1
  <2>7. sum[1] \in Nat \ {0}
    <3>1. sum[1 - 1] \in Nat /\ drawn[titles[1].id] \in Nat /\ sum[1] = sum[1 - 1] + drawn[titles[1].id]
      BY <1>1, <2>4, <2>6, SumStep
    <3>2. drawn[titles[1].id] # 0
      BY <1>1, <2>6
    <3> DEFINE x == sum[1 - 1]  y == sum[1]  z == drawn[titles[1].id]
    <3>3. x \in Nat /\ z \in Nat /\ z # 0 /\ y = x + z
      BY <3>1, <3>2
    <3> HIDE DEF x, y, z
    <3>4. y \in Nat \ {0}
      BY <3>3
    <3> QED
      BY <3>4 DEF y
  <2>8. sum[1] <= sum[Len(titles)]
    <3>1. Rising(sum, Len(titles))
      BY <1>1, <2>4, SumRises
    <3> QED
      BY <2>6, <3>1, RisesOn
  <2>9. Len(t) \in Nat \ {0}
    <3>1. Len(t) \in Nat
      BY <2>2, LenProperties
    <3> QED
      BY <2>5, <2>7, <2>8, <3>1
  <2> HIDE DEF Few
  <2>10. \A p \in 1..Len(t) : t[p] \in Few
    BY <2>2
  <2>11. t \in Seq({t[p] : p \in 1..Len(t)})
    BY <2>2
  <2> QED
    BY <2>3, <2>9, <2>10, <2>11 DEF t
<1> QED
  BY <1>3, <1>4

(* The book: unnumbered titles, and numbered sheets behind them.           *)
BookSo(bk, some, drawn) ==
  LET t == Len(TitlesOf(some, drawn))
      n == Len(NumberedOf(some, drawn))
  IN  /\ t \in Nat \ {0} /\ n \in Nat
      /\ DOMAIN bk = 1..t + n
      /\ \A p \in 1..t : /\ bk[p].number = 0 /\ bk[p].rows = <<>>
                         /\ bk[p].topic = TitlesOf(some, drawn)[p].topic
      /\ \A q \in 1..n : /\ bk[t + q].number = q
                         /\ bk[t + q].rows = NumberedOf(some, drawn)[q].rows
                         /\ bk[t + q].topic = NumberedOf(some, drawn)[q].topic

(* The numbered sheets are bound from the body and its contents.           *)
LEMMA NumberedIs ==
  ASSUME NEW U, NEW some \in Seq(U), NEW drawn, Ready(some, drawn)
  PROVE  /\ NumberedOf(some, drawn) \in Seq({NumberedOf(some, drawn)[q] : q \in 1..Len(NumberedOf(some, drawn))})
         /\ P!BeforeContents(some) \in Nat /\ P!BeforeContents(some) <= Len(P!Body(some))
         /\ \E sum : /\ SumOf(sum, P!Body(some), drawn)
                     /\ \A i \in 1..Len(P!Body(some)) : P!PagesBefore(P!Body(some), i, drawn) = sum[i - 1]
                     /\ BoundSo(NumberedOf(some, drawn), ContentsOf(some, drawn), sum, P!Body(some), drawn,
                                P!BeforeContents(some))
<1> DEFINE body == P!Body(some)  before == P!BeforeContents(some)  inner == ContentsOf(some, drawn)
           sheets == NumberedOf(some, drawn)
           V == {inner[p] : p \in 1..Len(inner)}
<1>1. body \in Seq(U) /\ Sized(body, drawn)
  BY BodyIs
<1>2. before \in Nat /\ before <= Len(body)
  <2>1. before \in 0..Len(body) /\ Len(body) \in Nat
    BY <1>1, ContentsWithin, LenProperties
  <2> HIDE DEF before, body
  <2> QED
    BY <2>1
<1>3. inner \in Seq(V)
  BY ContentsAre
<1>4. sheets = Bound(body, drawn, before, inner)
  BY DEF NumberedOf
<1> HIDE DEF body, before, inner, sheets, V
<1>5. PICK sum : /\ SumOf(sum, body, drawn)
                 /\ \A i \in 1..Len(body) : P!PagesBefore(body, i, drawn) = sum[i - 1]
  BY <1>1, PagesStepwise
<1>6. BoundSo(sheets, inner, sum, body, drawn, before)
  BY <1>1, <1>2, <1>3, <1>4, <1>5, BoundAt
<1>7. \E W : sheets \in Seq(W)
  <2> DEFINE front == SubSeq(body, 1, before)  back == SubSeq(body, before + 1, Len(body))
  <2>1. Len(body) \in Nat
    BY <1>1, LenProperties
  <2>2. front \in Seq(U) /\ Sized(front, drawn)
    <3>1. 0 \in Nat /\ 0 + before <= Len(body) /\ 0 + before = before /\ 0 + 1 = 1
      BY <1>2
    <3>2. front \in Seq(U) /\ IsPart(front, body, 0, before)
      <4>1. LET few == SubSeq(body, 0 + 1, 0 + before)
            IN few \in Seq(U) /\ IsPart(few, body, 0, before)
        BY <1>1, <1>2, <3>1, PartOf
      <4> QED
        BY <3>1, <4>1
    <3> HIDE DEF front
    <3> QED
      BY <1>1, <1>2, <1>5, <3>1, <3>2, SumOfPart
  <2>3. back \in Seq(U) /\ Sized(back, drawn)
    <3> DEFINE n == Len(body) - before
    <3>1. n \in Nat /\ before + n <= Len(body) /\ before + n = Len(body)
      BY <1>2, <2>1
    <3> HIDE DEF n
    <3>2. back \in Seq(U) /\ IsPart(back, body, before, n)
      <4>1. LET few == SubSeq(body, before + 1, before + n)
            IN few \in Seq(U) /\ IsPart(few, body, before, n)
        BY <1>1, <1>2, <3>1, PartOf
      <4> QED
        BY <3>1, <4>1
    <3> HIDE DEF back
    <3> QED
      BY <1>1, <1>2, <1>5, <3>1, <3>2, SumOfPart
  <2> DEFINE F == P!Drawings(front, drawn)  B == P!Drawings(back, drawn)
  <2>4. sheets = F \o inner \o B
    BY <1>4 DEF Bound
  <2> HIDE DEF front, back
  <2> DEFINE A == {PageFor(front[i].id) : i \in 1..Len(front)}
             Z == {PageFor(back[i].id) : i \in 1..Len(back)}
             W == A \cup V \cup Z
  <2>5. F \in Seq(A) /\ B \in Seq(Z)
    BY <2>2, <2>3, DrawnAt
  <2> HIDE DEF F, B, A, Z
  <2>6. F \in Seq(W) /\ B \in Seq(W) /\ inner \in Seq(W)
    BY <1>3, <2>5
  <2> HIDE DEF W
  <2>7. sheets \in Seq(W)
    BY <2>4, <2>6
  <2> QED
    BY <2>7
<1>8. sheets \in Seq({sheets[q] : q \in 1..Len(sheets)})
  <2>1. PICK W : sheets \in Seq(W)
    BY <1>7
  <2> QED
    BY <2>1
<1> QED
  BY <1>2, <1>5, <1>6, <1>8 DEF body, before, inner, sheets

(* The book is assembled of these parts.                                   *)
LEMMA AssembledSo ==
  ASSUME NEW U, NEW some \in Seq(U), NEW drawn, Ready(some, drawn)
  PROVE  BookSo(P!Assembled(some, drawn), some, drawn)
<1> DEFINE titles == TitlesOf(some, drawn)  sheets == NumberedOf(some, drawn)
           t == Len(titles)  n == Len(sheets)
           Number(page, k) == [topic |-> page.topic, rows |-> page.rows, number |-> k]
           a == [i \in DOMAIN titles |-> Number(titles[i], 0)]
           b == [i \in DOMAIN sheets |-> Number(sheets[i], i)]
           bk == P!Assembled(some, drawn)
<1>1. t \in Nat \ {0} /\ DOMAIN titles = 1..t /\ \A p \in 1..t : titles[p].rows = <<>>
  BY TitlesOfAre, LenProperties
<1>2. n \in Nat /\ DOMAIN sheets = 1..n
  BY NumberedIs, LenProperties
<1>3. bk = a \o b
  BY DEF P!Assembled, TitlesOf, NumberedOf, Bound, ContentsOf
<1> HIDE DEF titles, sheets, t, n, bk
<1>4. a = [i \in 1..t |-> Number(titles[i], 0)] /\ b = [i \in 1..n |-> Number(sheets[i], i)]
  BY <1>1, <1>2
<1> HIDE DEF a, b
<1>5. /\ DOMAIN bk = 1..t + n
      /\ \A p \in 1..t : bk[p] = Number(titles[p], 0)
      /\ \A q \in 1..n : bk[t + q] = Number(sheets[q], q)
  <2> HIDE DEF Number
  <2> DEFINE W == {Number(titles[i], 0) : i \in 1..t} \cup {Number(sheets[i], i) : i \in 1..n}
  <2>1. a \in Seq(W) /\ b \in Seq(W) /\ Len(a) = t /\ Len(b) = n
    <3>1. /\ \A i \in 1..t : a[i] = Number(titles[i], 0)
          /\ \A i \in 1..n : b[i] = Number(sheets[i], i)
      BY <1>4
    <3>2. (\A i \in 1..t : a[i] \in W) /\ (\A i \in 1..n : b[i] \in W)
      BY <3>1
    <3>3. a = [i \in 1..t |-> a[i]] /\ b = [i \in 1..n |-> b[i]]
      BY <1>4
    <3> HIDE DEF W
    <3>4. a \in Seq(W) /\ Len(a) = t
      BY <1>1, <3>2, <3>3
    <3>5. b \in Seq(W) /\ Len(b) = n
      BY <1>2, <3>2, <3>3
    <3> QED
      BY <3>4, <3>5
  <2> HIDE DEF W
  <2>2. /\ bk \in Seq(W) /\ Len(bk) = t + n
        /\ \A p \in 1..t : bk[p] = a[p]
        /\ \A q \in 1..n : bk[t + q] = b[q]
    <3>1. /\ Len(bk) = Len(a) + Len(b)
          /\ \A p \in 1..Len(a) : bk[p] = a[p]
          /\ \A q \in 1..Len(b) : bk[Len(a) + q] = b[q]
      <4>1. a \in Seq(W) /\ b \in Seq(W)
        BY <2>1
      <4> QED
        BY <1>3, <4>1, JoinIs
    <3>2. bk \in Seq(W)
      BY <1>3, <2>1
    <3> QED
      BY <2>1, <3>1, <3>2
  <2>3. DOMAIN bk = 1..t + n
    BY <2>2, LenProperties
  <2>4. \A p \in 1..t : a[p] = Number(titles[p], 0)
    BY <1>4
  <2>5. \A q \in 1..n : b[q] = Number(sheets[q], q)
    BY <1>4
  <2> QED
    BY <2>2, <2>3, <2>4, <2>5
<1>6. \A p \in 1..t : bk[p].number = 0 /\ bk[p].rows = <<>> /\ bk[p].topic = titles[p].topic
  <2> SUFFICES ASSUME NEW p \in 1..t
               PROVE  bk[p].number = 0 /\ bk[p].rows = <<>> /\ bk[p].topic = titles[p].topic
    OBVIOUS
  <2>1. bk[p] = Number(titles[p], 0) /\ titles[p].rows = <<>>
    BY <1>1, <1>5
  <2> QED
    BY <2>1
<1>7. \A q \in 1..n : bk[t + q].number = q /\ bk[t + q].rows = sheets[q].rows
                      /\ bk[t + q].topic = sheets[q].topic
  <2> SUFFICES ASSUME NEW q \in 1..n
               PROVE  bk[t + q].number = q /\ bk[t + q].rows = sheets[q].rows
                      /\ bk[t + q].topic = sheets[q].topic
    OBVIOUS
  <2> DEFINE x == bk[t + q]
  <2>1. x = Number(sheets[q], q)
    BY <1>5
  <2> HIDE DEF x
  <2>2. x.number = q /\ x.rows = sheets[q].rows /\ x.topic = sheets[q].topic
    BY <2>1
  <2> QED
    BY <2>2 DEF x
<1> HIDE DEF Number
<1> QED
  BY <1>1, <1>2, <1>5, <1>6, <1>7 DEF BookSo, titles, sheets, t, n, bk

(* The sheets that show a topic.                                           *)
On(sheets, id) == {p \in 1..Len(sheets) : sheets[p].topic = id}
Showing(U, id) == {x \in U : x.topic = id}
Being(U, id)   == {x \in U : x.id = id}

(* The sheets of a topic, and its rows, counted.                           *)
LEMMA OnIsCounted ==
  ASSUME NEW U, NEW s \in Seq(U), NEW id
  PROVE  /\ Cardinality(On(s, id)) = Count(s, Showing(U, id))
         /\ Cardinality(By(s, id)) = Count(s, Being(U, id))
         /\ Cardinality(On(s, id)) \in Nat /\ Cardinality(By(s, id)) \in Nat
<1>1. DOMAIN s = 1..Len(s) /\ \A i \in 1..Len(s) : s[i] \in U
  OBVIOUS
<1>2. On(s, id) = Spots(s, Showing(U, id))
  BY <1>1 DEF On, Spots, Showing
<1>3. By(s, id) = Spots(s, Being(U, id))
  BY <1>1 DEF By, Spots, Being
<1>4. Count(s, Showing(U, id)) \in Nat /\ Count(s, Being(U, id)) \in Nat
  BY SpotsFinite
<1> QED
  BY <1>2, <1>3, <1>4 DEF Count

(* Of two sequences joined, they are those of both.                        *)
LEMMA OnJoined ==
  ASSUME NEW U, NEW a \in Seq(U), NEW b \in Seq(U), NEW id
  PROVE  /\ Cardinality(On(a \o b, id)) = Cardinality(On(a, id)) + Cardinality(On(b, id))
         /\ Cardinality(By(a \o b, id)) = Cardinality(By(a, id)) + Cardinality(By(b, id))
<1>1. a \o b \in Seq(U)
  OBVIOUS
<1> DEFINE T == Showing(U, id)  I == Being(U, id)
<1>2. /\ Cardinality(On(a \o b, id)) = Count(a \o b, T)
      /\ Cardinality(By(a \o b, id)) = Count(a \o b, I)
  BY <1>1, OnIsCounted
<1>3. /\ Cardinality(On(a, id)) = Count(a, T) /\ Cardinality(By(a, id)) = Count(a, I)
      /\ Cardinality(On(b, id)) = Count(b, T) /\ Cardinality(By(b, id)) = Count(b, I)
  BY OnIsCounted
<1> HIDE DEF T, I
<1>4. Count(a \o b, T) = Count(a, T) + Count(b, T) /\ Count(a \o b, I) = Count(a, I) + Count(b, I)
  BY CountJoined
<1> QED
  BY <1>2, <1>3, <1>4

(* The drawings show a topic with all its pages for each of its rows.      *)
LEMMA OnDrawings ==
  ASSUME NEW U, NEW some \in Seq(U), NEW drawn, Sized(some, drawn), NEW id, drawn[id] \in Nat
  PROVE  Cardinality(On(P!Drawings(some, drawn), id)) = drawn[id] * Cardinality(By(some, id))
<1> DEFINE V == {PageFor(some[i].id) : i \in 1..Len(some)}
           G == Showing(V, id)
           d == P!Drawings(some, drawn)
<1>1. d \in Seq(V)
  BY DrawnAt
<1>2. Cardinality(On(d, id)) = Count(d, G)
  <2> HIDE DEF d, V
  <2> QED
    BY <1>1, OnIsCounted
<1>3. Picks(G, some, id)
  BY DEF PageFor, Picks, Showing
<1> HIDE DEF G
<1>4. Count(d, G) = drawn[id] * Cardinality(By(some, id))
  BY <1>3, DrawnAt
<1> QED
  BY <1>2, <1>4

(* The rows of a topic among those chosen.                                 *)
LEMMA ByThose ==
  ASSUME NEW U, NEW some \in Seq(U), NEW Q, NEW id
  PROVE  Cardinality(By(P!Those(some, Q), id)) = Cardinality({i \in By(some, id) : i \in Q})
<1> DEFINE s == P!Those(some, Q)  G == Being(U, id)
<1>1. s \in Seq(U)
  BY ThoseAre
<1>2. Cardinality(By(s, id)) = Count(s, G)
  <2> HIDE DEF s
  <2> QED
    BY <1>1, OnIsCounted
<1>3. {i \in 1..Len(some) : i \in Q /\ some[i] \in G} = {i \in By(some, id) : i \in Q}
  <2>1. \A i \in 1..Len(some) : some[i] \in U
    OBVIOUS
  <2> QED
    BY <2>1 DEF By, Being
<1> HIDE DEF G
<1>4. Count(s, G) = Cardinality({i \in 1..Len(some) : i \in Q /\ some[i] \in G})
  BY ThoseAre
<1> QED
  BY <1>2, <1>3, <1>4

(* Every row but the contents is a title, or in the body.                  *)
LEMMA ByParts ==
  ASSUME NEW U, NEW some \in Seq(U), NEW id, id # "CONTENTS"
  PROVE  Cardinality(By(P!Titles(some), id)) + Cardinality(By(P!Body(some), id)) = Cardinality(By(some, id))
<1> DEFINE Covers == P!Named(some, "COVER")  Inside == P!Named(some, "TITLE")
           Others == {i \in DOMAIN some : ~P!IsTitle(some[i]) /\ ~P!IsContents(some[i])}
           Of(Q) == {i \in By(some, id) : i \in Q}
           c == P!Those(some, Covers)  t == P!Those(some, Inside)
<1>1. DOMAIN some = 1..Len(some)
  BY LenProperties
<1>2. P!Titles(some) = c \o t /\ P!Body(some) = P!Those(some, Others)
  BY DEF P!Titles, P!Body
<1>3. c \in Seq(U) /\ t \in Seq(U)
  BY ThoseAre
<1>4. /\ Cardinality(By(c, id)) = Cardinality(Of(Covers))
      /\ Cardinality(By(t, id)) = Cardinality(Of(Inside))
      /\ Cardinality(By(P!Body(some), id)) = Cardinality(Of(Others))
  BY <1>2, ByThose
<1>5. Cardinality(By(P!Titles(some), id)) = Cardinality(By(c, id)) + Cardinality(By(t, id))
  <2> HIDE DEF c, t
  <2> QED
    BY <1>2, <1>3, OnJoined
<1>6. Cardinality(By(some, id)) \in Nat /\ Cardinality({}) = 0
  BY OnIsCounted, FS_EmptySet
<1> HIDE DEF c, t
<1>6a. /\ Cardinality(Of(Covers)) \in Nat /\ Cardinality(Of(Inside)) \in Nat
       /\ Cardinality(By(P!Titles(some), id)) + Cardinality(By(P!Body(some), id))
            = Cardinality(Of(Covers)) + Cardinality(Of(Inside)) + Cardinality(Of(Others))
  <2>1. Cardinality(By(c, id)) \in Nat /\ Cardinality(By(t, id)) \in Nat
    BY <1>3, OnIsCounted
  <2> HIDE DEF Of
  <2> QED
    BY <1>4, <1>5, <2>1
<1>7. CASE id = "COVER"
  <2>1. Of(Covers) = By(some, id) /\ Of(Inside) = {} /\ Of(Others) = {}
    BY <1>1, <1>7 DEF By, P!Named, P!IsTitle
  <2> HIDE DEF Of, Covers, Inside, Others
  <2> QED
    BY <1>6, <1>6a, <2>1
<1>8. CASE id = "TITLE"
  <2>1. Of(Inside) = By(some, id) /\ Of(Covers) = {} /\ Of(Others) = {}
    BY <1>1, <1>8 DEF By, P!Named, P!IsTitle
  <2> HIDE DEF Of, Covers, Inside, Others
  <2> QED
    BY <1>6, <1>6a, <2>1
<1>9. CASE id \notin {"COVER", "TITLE"}
  <2>1. Of(Others) = By(some, id) /\ Of(Covers) = {} /\ Of(Inside) = {}
    BY <1>1, <1>9 DEF By, P!Named, P!IsTitle, P!IsContents
  <2> HIDE DEF Of, Covers, Inside, Others
  <2> QED
    BY <1>6, <1>6a, <2>1
<1> QED
  BY <1>7, <1>8, <1>9

(* The numbered sheets show each topic of the body with all its pages.     *)
LEMMA OnNumbered ==
  ASSUME NEW U, NEW some \in Seq(U), NEW drawn, Ready(some, drawn),
         NEW id, drawn[id] \in Nat, id # None
  PROVE  Cardinality(On(NumberedOf(some, drawn), id)) = drawn[id] * Cardinality(By(P!Body(some), id))
<1> DEFINE body == P!Body(some)  before == P!BeforeContents(some)  inner == ContentsOf(some, drawn)
           sheets == NumberedOf(some, drawn)
           front == SubSeq(body, 1, before)  back == SubSeq(body, before + 1, Len(body))
           F == P!Drawings(front, drawn)  B == P!Drawings(back, drawn)
<1>1. body \in Seq(U) /\ Sized(body, drawn) /\ Len(body) \in Nat
  BY BodyIs, LenProperties
<1>2. before \in Nat /\ before <= Len(body)
  BY NumberedIs
<1>3. sheets = F \o inner \o B
  BY DEF NumberedOf, Bound
<1> DEFINE V == {inner[p] : p \in 1..Len(inner)}
<1>4. inner \in Seq(V) /\ \A p \in 1..Len(inner) : inner[p].topic = None
  <2>1. inner \in Seq(V)
    BY ContentsAre
  <2>2. ASSUME NEW p \in 1..Len(inner) PROVE inner[p].topic = None
    <3>1. DOMAIN inner = DOMAIN P!ContentsPages(body)
      BY DEF ContentsOf
    <3>2. DOMAIN inner = 1..Len(inner)
      <4> HIDE DEF inner
      <4> QED
        BY <2>1, LenProperties
    <3>3. p \in DOMAIN P!ContentsPages(body)
      BY <3>1, <3>2
    <3> QED
      BY <3>3 DEF ContentsOf
  <2> QED
    BY <2>1, <2>2
<1>5. PICK sum : SumOf(sum, body, drawn)
  BY <1>1, PagesStepwise
<1> HIDE DEF body, before, inner, sheets
<1>6. front \in Seq(U) /\ Sized(front, drawn) /\ IsPart(front, body, 0, before)
  <2>1. 0 \in Nat /\ 0 + before <= Len(body) /\ 0 + before = before /\ 0 + 1 = 1
    BY <1>2
  <2>2. front \in Seq(U) /\ IsPart(front, body, 0, before)
    <3>1. LET few == SubSeq(body, 0 + 1, 0 + before)
          IN few \in Seq(U) /\ IsPart(few, body, 0, before)
      BY <1>1, <1>2, <2>1, PartOf
    <3> QED
      BY <2>1, <3>1
  <2> HIDE DEF front
  <2> QED
    BY <1>1, <1>2, <1>5, <2>1, <2>2, SumOfPart
<1> DEFINE n == Len(body) - before
<1>7. n \in Nat /\ before + n <= Len(body) /\ before + n = Len(body)
  BY <1>1, <1>2
<1> HIDE DEF n
<1>8. back \in Seq(U) /\ Sized(back, drawn) /\ IsPart(back, body, before, n)
  <2>1. back \in Seq(U) /\ IsPart(back, body, before, n)
    <3>1. LET few == SubSeq(body, before + 1, before + n)
          IN few \in Seq(U) /\ IsPart(few, body, before, n)
      BY <1>1, <1>2, <1>7, PartOf
    <3> QED
      BY <1>7, <3>1
  <2> HIDE DEF back
  <2> QED
    BY <1>1, <1>2, <1>5, <1>7, <2>1, SumOfPart
<1> HIDE DEF front, back
<1>9. body = front \o back
  <2> DEFINE whole == front \o back
  <2>1. /\ Len(whole) = Len(front) + Len(back)
        /\ \A q \in 1..Len(front) : whole[q] = front[q]
        /\ \A q \in 1..Len(back) : whole[Len(front) + q] = back[q]
    BY <1>6, <1>8, JoinIs
  <2>2. whole \in Seq(U)
    BY <1>6, <1>8
  <2>3. Len(front) = before /\ Len(back) = n
    BY <1>6, <1>8 DEF IsPart
  <2> HIDE DEF whole
  <2>4. Len(whole) = Len(body)
    BY <1>7, <2>1, <2>3
  <2>5. ASSUME NEW i \in 1..Len(body) PROVE whole[i] = body[i]
    <3>1. CASE i <= before
      <4>1. i \in 1..before /\ 0 + i = i
        BY <1>2, <3>1
      <4>2. front[i] = body[i]
        BY <1>6, <4>1 DEF IsPart
      <4> QED
        BY <2>1, <2>3, <4>1, <4>2
    <3>2. CASE i > before
      <4> DEFINE k == i - before
      <4>1. k \in 1..n /\ before + k = i
        BY <1>1, <1>2, <1>7, <3>2
      <4> HIDE DEF k
      <4>2. back[k] = body[i]
        BY <1>8, <4>1 DEF IsPart
      <4>3. whole[before + k] = back[k]
        BY <2>1, <2>3, <4>1
      <4> QED
        BY <4>1, <4>2, <4>3
    <3> QED
      BY <1>2, <3>1, <3>2
  <2>6. whole = body
    BY <1>1, <2>2, <2>4, <2>5
  <2> QED
    BY <2>6 DEF whole
<1>10. /\ Cardinality(On(F, id)) = drawn[id] * Cardinality(By(front, id))
       /\ Cardinality(On(B, id)) = drawn[id] * Cardinality(By(back, id))
  BY <1>6, <1>8, OnDrawings
<1>11. Cardinality(By(body, id)) = Cardinality(By(front, id)) + Cardinality(By(back, id))
       /\ Cardinality(By(front, id)) \in Nat /\ Cardinality(By(back, id)) \in Nat
  <2>1. Cardinality(By(front, id)) \in Nat
    BY <1>6, OnIsCounted
  <2>2. Cardinality(By(back, id)) \in Nat
    BY <1>8, OnIsCounted
  <2>3. Cardinality(By(front \o back, id)) = Cardinality(By(front, id)) + Cardinality(By(back, id))
    BY <1>6, <1>8, OnJoined
  <2> QED
    BY <1>9, <2>1, <2>2, <2>3
<1>12. Cardinality(On(inner, id)) = 0
  <2>1. On(inner, id) = {}
    BY <1>4 DEF On
  <2> QED
    BY <2>1, FS_EmptySet
<1>13. Cardinality(On(sheets, id)) = Cardinality(On(F, id)) + Cardinality(On(inner, id)) + Cardinality(On(B, id))
  <2> DEFINE A == {PageFor(front[i].id) : i \in 1..Len(front)}
             Z == {PageFor(back[i].id) : i \in 1..Len(back)}
             W == A \cup V \cup Z
  <2>1. F \in Seq(A) /\ B \in Seq(Z)
    BY <1>6, <1>8, DrawnAt
  <2> HIDE DEF F, B, A, Z
  <2>2. F \in Seq(W) /\ B \in Seq(W) /\ inner \in Seq(W)
    BY <1>4, <2>1
  <2> HIDE DEF W
  <2> DEFINE FC == F \o inner
  <2>3. FC \in Seq(W)
    BY <2>2
  <2>4. Cardinality(On(FC, id)) = Cardinality(On(F, id)) + Cardinality(On(inner, id))
    BY <2>2, OnJoined
  <2>5. sheets = FC \o B
    BY <1>3
  <2> HIDE DEF FC
  <2>6. Cardinality(On(sheets, id)) = Cardinality(On(FC, id)) + Cardinality(On(B, id))
    BY <2>2, <2>3, <2>5, OnJoined
  <2> QED
    BY <2>4, <2>6
<1> DEFINE d == drawn[id]  x == Cardinality(By(front, id))  y == Cardinality(By(back, id))
<1>14. d * x + 0 + d * y = d * (x + y)
  <2>1. d \in Nat /\ x \in Nat /\ y \in Nat
    BY <1>11
  <2> HIDE DEF d, x, y
  <2>2. d * (x + y) = d * x + d * y /\ d * x \in Nat
    BY <2>1
  <2> QED
    BY <2>2
<1>15. Cardinality(On(sheets, id)) = d * Cardinality(By(body, id))
  <2>1. Cardinality(On(sheets, id)) = d * x + 0 + d * y /\ Cardinality(By(body, id)) = x + y
    BY <1>10, <1>11, <1>12, <1>13
  <2> HIDE DEF d, x, y
  <2> QED
    BY <1>14, <2>1
<1> QED
  BY <1>15 DEF sheets, body

(* The number of a topic is that of the first sheet of its last drawing.   *)
LEMMA FirstPageIs ==
  ASSUME NEW U, NEW some \in Seq(U), NEW drawn, Ready(some, drawn), NEW j \in 1..Len(P!Body(some))
  PROVE  LET id == P!Body(some)[j].id
             first == P!PageNumbers(some, drawn)[id]
         IN  /\ first \in Nat \ {0}
             /\ drawn[id] \in Nat \ {0}
             /\ first \in On(NumberedOf(some, drawn), id)
             /\ {q \in On(NumberedOf(some, drawn), id) : q >= first} = first..first + drawn[id] - 1
<1> DEFINE body == P!Body(some)  before == P!BeforeContents(some)  inner == ContentsOf(some, drawn)
           sheets == NumberedOf(some, drawn)  N == Len(body)  extra == Len(inner)
           id == body[j].id
           same == {i \in DOMAIN body : body[i].id = id}
           last == CHOOSE i \in DOMAIN body : body[i].id = id /\ \A k \in DOMAIN body : body[k].id = id => k <= i
           first == P!PageNumbers(some, drawn)[id]
           w == drawn[id]
<1>1. body \in Seq(U) /\ Sized(body, drawn) /\ N \in Nat /\ DOMAIN body = 1..N
  BY BodyIs, LenProperties
<1>2. before \in Nat /\ extra \in Nat /\ extra = Len(P!ContentsPages(body))
  BY NumberedIs, ContentsAre, LenProperties
<1>3. PICK sum : /\ SumOf(sum, body, drawn)
                 /\ \A i \in 1..N : P!PagesBefore(body, i, drawn) = sum[i - 1]
                 /\ BoundSo(sheets, inner, sum, body, drawn, before)
  BY NumberedIs
<1>4. id # None /\ w \in Nat \ {0}
  <2>1. PICK i \in 1..Len(some) : body[j] = some[i] /\ ~P!IsTitle(some[i]) /\ ~P!IsContents(some[i])
    BY BodyIs
  <2>2. id = some[i].id
    BY <2>1
  <2> HIDE DEF id
  <2> QED
    BY <2>1, <2>2 DEF Ready
<1>5. last \in 1..N /\ body[last].id = id /\ \A k \in 1..N : body[k].id = id => k <= last
  <2>1. same # {} /\ same \subseteq 1..N
    BY <1>1
  <2>2. PICK i \in same : \A k \in same : k <= i
    <3> HIDE DEF same, N
    <3> QED
      BY <1>1, <2>1, GreatestExists
  <2>3. i \in DOMAIN body /\ body[i].id = id /\ \A k \in DOMAIN body : body[k].id = id => k <= i
    BY <2>2
  <2> HIDE DEF body, id
  <2>4. last \in DOMAIN body /\ body[last].id = id /\ \A k \in DOMAIN body : body[k].id = id => k <= last
    BY <2>3
  <2> HIDE DEF last
  <2> QED
    BY <1>1, <2>4
<1> DEFINE ahead(i) == Ahead(sum, before, extra, i)
           a == ahead(last)
<1>6. first = 1 + sum[last - 1] + (IF last > before THEN extra ELSE 0)
  <2>1. id \in {body[i].id : i \in DOMAIN body}
    BY <1>1
  <2> DEFINE number(i) == 1 + P!PagesBefore(body, i, drawn)
                            + (IF i > before THEN Len(P!ContentsPages(body)) ELSE 0)
             chosen(x) == CHOOSE i \in DOMAIN body : body[i].id = x /\ \A k \in DOMAIN body : body[k].id = x => k <= i
             all_ids == {body[i].id : i \in DOMAIN body}
  <2>2. P!PageNumbers(some, drawn) = [x \in all_ids |-> number(chosen(x))]
    BY DEF P!PageNumbers
  <2>3. chosen(id) = last
    OBVIOUS
  <2> HIDE DEF chosen, number, last, all_ids
  <2>4. first = number(last)
    BY <2>1, <2>2, <2>3 DEF all_ids
  <2> HIDE DEF first
  <2>5. number(last) = 1 + sum[last - 1] + (IF last > before THEN extra ELSE 0)
    BY <1>2, <1>3, <1>5 DEF number
  <2> QED
    BY <2>4, <2>5
<1> HIDE DEF body, before, inner, sheets, last, first, id, N, extra
<1>7. a \in Nat /\ first = a + 1
  <2>1. AheadSo(sum, body, drawn, before, extra, last)
    BY <1>1, <1>2, <1>3, <1>5, AheadIs DEF N
  <2>2. sum[last - 1] \in Nat /\ a \in Nat
    BY <2>1 DEF AheadSo
  <2> DEFINE x == sum[last - 1]  y == IF last > before THEN extra ELSE 0
  <2>3. x \in Nat /\ y \in Nat /\ a \in Nat /\ a = x + y /\ first = 1 + x + y
    BY <1>2, <1>6, <2>2 DEF Ahead
  <2> HIDE DEF x, y, a
  <2> QED
    BY <2>3
<1>8. \A k \in 1..w : a + k \in 1..Len(sheets) /\ sheets[a + k] = PageFor(id)
  BY <1>3, <1>5 DEF BoundSo, N, extra
<1>9. \A k \in 1..w : a + k \in On(sheets, id)
  BY <1>8 DEF On, PageFor
<1>10. ASSUME NEW q \in On(sheets, id), q >= first PROVE q \in a + 1..a + w
  <2>1. q \in 1..Len(sheets) /\ sheets[q].topic = id
    BY DEF On
  <2>2. \/ \E p \in 1..extra : q = sum[before] + p
        \/ \E i \in 1..N : \E k \in 1..drawn[body[i].id] : q = ahead(i) + k
    BY <1>3, <2>1 DEF BoundSo, N, extra
  <2>3. ~\E p \in 1..extra : q = sum[before] + p
    <3> SUFFICES ASSUME NEW p \in 1..extra, q = sum[before] + p PROVE FALSE
      OBVIOUS
    <3>1. sheets[q] = inner[p]
      BY <1>3 DEF BoundSo, extra
    <3>2. inner[p].topic = None
      <4>1. DOMAIN inner = DOMAIN P!ContentsPages(body)
        BY DEF ContentsOf, inner, body
      <4>2. DOMAIN inner = 1..extra
        BY ContentsAre, LenProperties DEF inner, extra
      <4>3. p \in DOMAIN P!ContentsPages(body)
        BY <4>1, <4>2
      <4> QED
        BY <4>3 DEF ContentsOf, inner, body
    <3> QED
      BY <1>4, <2>1, <3>1, <3>2
  <2>4. PICK i \in 1..N : \E k \in 1..drawn[body[i].id] : q = ahead(i) + k
    BY <2>2, <2>3
  <2>5. PICK k \in 1..drawn[body[i].id] : q = ahead(i) + k
    BY <2>4
  <2>6. sheets[q] = PageFor(body[i].id)
    BY <1>3, <2>5 DEF BoundSo, N, extra
  <2>7. body[i].id = id
    BY <2>1, <2>6 DEF PageFor
  <2>8. i <= last /\ k \in 1..w
    BY <1>5, <2>5, <2>7
  <2>9. i = last
    <3> SUFFICES ASSUME i < last PROVE FALSE
      BY <1>1, <1>5, <2>8
    <3>1. ahead(i) + drawn[body[i].id] <= a
      BY <1>1, <1>2, <1>3, <1>5, AheadInOrder DEF N
    <3>2. ahead(i) \in Nat
      <4>1. AheadSo(sum, body, drawn, before, extra, i)
        BY <1>1, <1>2, <1>3, AheadIs DEF N
      <4> QED
        BY <4>1 DEF AheadSo
    <3> DEFINE x == ahead(i)
    <3>3. x + w <= a /\ x \in Nat /\ q = x + k
      BY <2>5, <2>7, <3>1, <3>2
    <3> HIDE DEF x, a, w
    <3> QED
      BY <1>4, <1>7, <1>10, <2>8, <3>3
  <2>10. q = a + k
    BY <2>5, <2>9
  <2> HIDE DEF a, w
  <2> QED
    BY <1>4, <1>7, <2>8, <2>10
<1> HIDE DEF a, w
<1>11. 1 \in 1..w /\ first \in Nat \ {0}
  BY <1>4, <1>7
<1>12. first \in On(sheets, id)
  BY <1>7, <1>9, <1>11
<1>13. {q \in On(sheets, id) : q >= first} = first..first + w - 1
  <2>1. first..first + w - 1 = a + 1..a + w
    BY <1>4, <1>7
  <2>2. ASSUME NEW q \in a + 1..a + w PROVE q \in On(sheets, id) /\ q >= first
    <3>1. q - a \in 1..w /\ q = a + (q - a)
      BY <1>4, <1>7
    <3>2. q \in On(sheets, id)
      BY <1>9, <3>1
    <3> QED
      BY <1>7, <3>2
  <2>3. \A q \in On(sheets, id) : q >= first => q \in a + 1..a + w
    BY <1>10
  <2> QED
    BY <2>1, <2>2, <2>3
<1> QED
  BY <1>4, <1>11, <1>12, <1>13 DEF body, sheets, first, id, w

PagesOf(bk, id) == {p \in DOMAIN bk : bk[p].topic = id}
RowFor(some, drawn, id) == [id |-> id, number |-> P!PageNumbers(some, drawn)[id]]

(* The pages of a topic are those of the titles and those of the sheets.   *)
LEMMA PagesAre ==
  ASSUME NEW some, NEW drawn, NEW bk, BookSo(bk, some, drawn), NEW id
  PROVE  LET t == Len(TitlesOf(some, drawn))
         IN  PagesOf(bk, id) = On(TitlesOf(some, drawn), id) \cup {t + q : q \in On(NumberedOf(some, drawn), id)}
<1> DEFINE titles == TitlesOf(some, drawn)  sheets == NumberedOf(some, drawn)
           t == Len(titles)  n == Len(sheets)
<1>1. /\ t \in Nat /\ n \in Nat /\ DOMAIN bk = 1..t + n
      /\ \A p \in 1..t : bk[p].topic = titles[p].topic
      /\ \A q \in 1..n : bk[t + q].topic = sheets[q].topic
  BY DEF BookSo
<1> DEFINE A == On(titles, id)  B == On(sheets, id)
<1>2. /\ \A p : p \in A <=> p \in 1..t /\ titles[p].topic = id
      /\ \A q : q \in B <=> q \in 1..n /\ sheets[q].topic = id
  BY DEF On
<1> HIDE DEF titles, sheets, t, n, A, B
<1>3. ASSUME NEW p \in PagesOf(bk, id) PROVE p \in A \cup {t + q : q \in B}
  <2>1. p \in 1..t + n /\ bk[p].topic = id
    BY <1>1 DEF PagesOf
  <2>2. CASE p <= t
    <3>1. p \in 1..t
      BY <1>1, <2>1, <2>2
    <3> QED
      BY <1>1, <1>2, <2>1, <3>1
  <2>3. CASE p > t
    <3> DEFINE q == p - t
    <3>1. q \in 1..n /\ p = t + q
      BY <1>1, <2>1, <2>3
    <3> HIDE DEF q
    <3>2. sheets[q].topic = id
      BY <1>1, <2>1, <3>1
    <3>3. q \in B
      BY <1>2, <3>1, <3>2
    <3> QED
      BY <3>1, <3>3
  <2> QED
    BY <1>1, <2>1, <2>2, <2>3
<1>4. ASSUME NEW p \in A PROVE p \in PagesOf(bk, id)
  <2>1. p \in 1..t /\ titles[p].topic = id
    BY <1>2
  <2>2. p \in 1..t + n /\ bk[p].topic = id
    BY <1>1, <2>1
  <2> QED
    BY <1>1, <2>2 DEF PagesOf
<1>5. ASSUME NEW q \in B PROVE t + q \in PagesOf(bk, id)
  <2>1. q \in 1..n /\ sheets[q].topic = id
    BY <1>2
  <2>2. t + q \in 1..t + n
    BY <1>1, <2>1
  <2>3. bk[t + q].topic = id
    BY <1>1, <2>1
  <2> QED
    BY <1>1, <2>2, <2>3 DEF PagesOf
<1> QED
  BY <1>3, <1>4, <1>5 DEF A, B, t, titles, sheets

(* A topic has as many pages as the titles and the sheets show of it.      *)
LEMMA PagesCounted ==
  ASSUME NEW some, NEW drawn, NEW bk, BookSo(bk, some, drawn), NEW id
  PROVE  Cardinality(PagesOf(bk, id))
           = Cardinality(On(TitlesOf(some, drawn), id)) + Cardinality(On(NumberedOf(some, drawn), id))
<1> DEFINE titles == TitlesOf(some, drawn)  sheets == NumberedOf(some, drawn)
           t == Len(titles)  n == Len(sheets)
           A == On(titles, id)  B == On(sheets, id)  Behind == {t + q : q \in B}
<1>1. PagesOf(bk, id) = A \cup Behind
  BY PagesAre
<1>2. t \in Nat /\ n \in Nat
  BY DEF BookSo
<1>3. A \in SUBSET (1..t) /\ B \in SUBSET (1..n)
  BY DEF On
<1> HIDE DEF titles, sheets, t, n, A, B
<1>4. IsFiniteSet(A) /\ IsFiniteSet(B)
  <2>1. IsFiniteSet(1..t) /\ IsFiniteSet(1..n)
    BY <1>2, FS_Interval
  <2> QED
    BY <1>3, <2>1, FS_Subset
<1>5. IsFiniteSet(Behind) /\ Cardinality(Behind) = Cardinality(B)
  <2>1. B \subseteq Nat
    BY <1>2, <1>3
  <2> QED
    BY <1>2, <1>4, <2>1, Moved
<1>6. A \cap Behind = {}
  BY <1>2, <1>3
<1> HIDE DEF Behind
<1>7. Cardinality(A) \in Nat /\ Cardinality(Behind) \in Nat /\ Cardinality(A \cap Behind) = 0
  BY <1>4, <1>5, <1>6, FS_CardinalityType, FS_EmptySet
<1>8. Cardinality(A \cup Behind) = Cardinality(A) + Cardinality(Behind) - Cardinality(A \cap Behind)
  BY <1>4, <1>5, FS_Union
<1>9. Cardinality(A \cup Behind) = Cardinality(A) + Cardinality(B)
  BY <1>5, <1>7, <1>8
<1> QED
  BY <1>1, <1>9 DEF A, B, titles, sheets

RowsSo(beside, ids, some, drawn) ==
  /\ DOMAIN beside = 1..Len(beside)
  /\ \A l \in DOMAIN beside : \E id \in ids : beside[l] = RowFor(some, drawn, id)
  /\ \A id \in ids : \E l \in DOMAIN beside : beside[l] = RowFor(some, drawn, id)

(* The rows on the pages are those of the body, with their numbers.        *)
LEMMA RowsAre ==
  ASSUME NEW U, NEW some \in Seq(U), NEW drawn, Ready(some, drawn), NEW bk, BookSo(bk, some, drawn)
  PROVE  RowsSo(P!FlattenSeq([p \in DOMAIN bk |-> bk[p].rows]),
                {P!Body(some)[j].id : j \in 1..Len(P!Body(some))}, some, drawn)
<1> DEFINE body == P!Body(some)  before == P!BeforeContents(some)  inner == ContentsOf(some, drawn)
           cp == P!ContentsPages(body)
           sheets == NumberedOf(some, drawn)  N == Len(body)  extra == Len(inner)
           t == Len(TitlesOf(some, drawn))  n == Len(sheets)
           ids == {body[j].id : j \in 1..N}
           Beside == {RowFor(some, drawn, id) : id \in ids}
           ss == [p \in DOMAIN bk |-> bk[p].rows]
<1>1. body \in Seq(U) /\ N \in Nat
  BY BodyIs, LenProperties
<1>2. /\ cp \in Seq(Seq(U))
      /\ \A x : StandsOn(cp, x) <=> \E i \in 1..N : body[i] = x
  BY <1>1, ContentsHold
<1>3. extra = Len(cp) /\ extra \in Nat /\ DOMAIN cp = 1..extra
  BY <1>2, ContentsAre, LenProperties
<1>4. PICK sum : BoundSo(sheets, inner, sum, body, drawn, before)
  BY NumberedIs
<1>5. /\ t \in Nat /\ n \in Nat /\ DOMAIN bk = 1..t + n
      /\ \A p \in 1..t : bk[p].rows = <<>>
      /\ \A q \in 1..n : bk[t + q].rows = sheets[q].rows
  BY DEF BookSo
<1>6. \A p \in 1..extra : inner[p].rows = [r \in DOMAIN cp[p] |-> RowFor(some, drawn, cp[p][r].id)]
  BY <1>3 DEF ContentsOf, RowFor
<1>7. \A p \in 1..extra : cp[p] \in Seq(U) /\ DOMAIN cp[p] = 1..Len(cp[p]) /\ Len(cp[p]) \in Nat
  BY <1>2, <1>3
<1> HIDE DEF body, before, inner, cp, sheets, N, extra, t, n
<1>8. \A p \in 1..extra : \A r \in 1..Len(cp[p]) : cp[p][r].id \in ids
  <2> SUFFICES ASSUME NEW p \in 1..extra, NEW r \in 1..Len(cp[p]) PROVE cp[p][r].id \in ids
    OBVIOUS
  <2>1. StandsOn(cp, cp[p][r])
    BY <1>3 DEF StandsOn
  <2>2. PICK i \in 1..N : body[i] = cp[p][r]
    BY <1>2, <2>1
  <2> QED
    BY <2>2
<1>9. ASSUME NEW p \in 1..extra
      PROVE  /\ inner[p].rows \in Seq(Beside) /\ Len(inner[p].rows) = Len(cp[p])
             /\ \A r \in 1..Len(cp[p]) : inner[p].rows[r] = RowFor(some, drawn, cp[p][r].id)
  <2> DEFINE m == Len(cp[p])  x(r) == RowFor(some, drawn, cp[p][r].id)  row == inner[p].rows
  <2>1. m \in Nat /\ row = [r \in 1..m |-> x(r)]
    BY <1>6, <1>7
  <2>2. \A r \in 1..m : x(r) \in Beside
    BY <1>8
  <2> HIDE DEF m, x, row, Beside
  <2>3. row \in Seq(Beside) /\ Len(row) = m /\ \A r \in 1..m : row[r] = x(r)
    BY <2>1, <2>2
  <2> QED
    BY <2>3 DEF m, x, row
<1>10. \A q \in 1..n : sheets[q].rows \in Seq(Beside)
  <2> SUFFICES ASSUME NEW q \in 1..n PROVE sheets[q].rows \in Seq(Beside)
    OBVIOUS
  <2>1. \/ \E p \in 1..extra : q = sum[before] + p
        \/ \E i \in 1..N : \E k \in 1..drawn[body[i].id] : q = Ahead(sum, before, extra, i) + k
    BY <1>4 DEF BoundSo, n, N, extra
  <2>2. CASE \E p \in 1..extra : q = sum[before] + p
    <3>1. PICK p \in 1..extra : q = sum[before] + p
      BY <2>2
    <3>2. sheets[q] = inner[p]
      BY <1>4, <3>1 DEF BoundSo, extra
    <3> HIDE DEF Beside
    <3> QED
      BY <1>9, <3>2
  <2>3. CASE \E i \in 1..N : \E k \in 1..drawn[body[i].id] : q = Ahead(sum, before, extra, i) + k
    <3>1. PICK i \in 1..N : \E k \in 1..drawn[body[i].id] : q = Ahead(sum, before, extra, i) + k
      BY <2>3
    <3>2. PICK k \in 1..drawn[body[i].id] : q = Ahead(sum, before, extra, i) + k
      BY <3>1
    <3>3. sheets[q] = PageFor(body[i].id)
      BY <1>4, <3>2 DEF BoundSo, N, extra
    <3>4. sheets[q].rows = <<>>
      BY <3>3 DEF PageFor
    <3>5. <<>> \in Seq(Beside)
      OBVIOUS
    <3> QED
      BY <3>4, <3>5
  <2> QED
    BY <2>1, <2>2, <2>3
<1>11. ss \in Seq(Seq(Beside)) /\ Len(ss) = t + n /\ \A p \in 1..t + n : ss[p] = bk[p].rows
  <2>1. \A p \in 1..t + n : bk[p].rows \in Seq(Beside)
    <3> SUFFICES ASSUME NEW p \in 1..t + n PROVE bk[p].rows \in Seq(Beside)
      OBVIOUS
    <3>1. CASE p <= t
      <4>1. p \in 1..t
        BY <1>5, <3>1
      <4>2. bk[p].rows = <<>>
        BY <1>5, <4>1
      <4>3. <<>> \in Seq(Beside)
        OBVIOUS
      <4> QED
        BY <4>2, <4>3
    <3>2. CASE p > t
      <4> DEFINE q == p - t
      <4>1. q \in 1..n /\ p = t + q
        BY <1>5, <3>2
      <4> HIDE DEF q, Beside
      <4>2. bk[p].rows = sheets[q].rows
        BY <1>5, <4>1
      <4> QED
        BY <1>10, <4>1, <4>2
    <3> QED
      BY <1>5, <3>1, <3>2
  <2>2. ss = [p \in 1..t + n |-> bk[p].rows] /\ t + n \in Nat
    BY <1>5
  <2> DEFINE m == t + n
  <2> HIDE DEF Beside, ss, m
  <2>3. m \in Nat /\ ss = [p \in 1..m |-> bk[p].rows] /\ \A p \in 1..m : bk[p].rows \in Seq(Beside)
    BY <2>1, <2>2 DEF m
  <2>4. ss \in Seq(Seq(Beside)) /\ Len(ss) = m /\ \A p \in 1..m : ss[p] = bk[p].rows
    BY <2>3
  <2> QED
    BY <2>4 DEF m
<1> DEFINE beside == FlattenSeq(ss)
<1> HIDE DEF ss, Beside
<1>12. /\ beside \in Seq(Beside)
       /\ \A l \in 1..Len(beside) : \E p \in 1..Len(ss) : \E r \in 1..Len(ss[p]) : beside[l] = ss[p][r]
       /\ \A p \in 1..Len(ss) : \A r \in 1..Len(ss[p]) : \E l \in 1..Len(beside) : beside[l] = ss[p][r]
  BY <1>11, JoinedHolds
<1> HIDE DEF beside
<1>13. DOMAIN beside = 1..Len(beside) /\ \A l \in DOMAIN beside : beside[l] \in Beside
  BY <1>12
<1>14. \A l \in DOMAIN beside : \E id \in ids : beside[l] = RowFor(some, drawn, id)
  BY <1>13 DEF Beside
<1>15. ASSUME NEW id \in ids PROVE \E l \in DOMAIN beside : beside[l] = RowFor(some, drawn, id)
  <2>1. PICK j \in 1..N : body[j].id = id
    OBVIOUS
  <2>2. StandsOn(cp, body[j])
    BY <1>2
  <2>3. PICK p \in 1..extra : \E r \in 1..Len(cp[p]) : cp[p][r] = body[j]
    BY <1>3, <2>2 DEF StandsOn
  <2>4. PICK r \in 1..Len(cp[p]) : cp[p][r] = body[j]
    BY <2>3
  <2>5. inner[p].rows[r] = RowFor(some, drawn, id) /\ Len(inner[p].rows) = Len(cp[p])
    BY <1>9, <2>1, <2>4
  <2> DEFINE q == sum[before] + p  b == t + q
  <2>6. q \in 1..n /\ sheets[q] = inner[p]
    BY <1>4 DEF BoundSo, extra, n
  <2> HIDE DEF q
  <2>7. b \in 1..t + n
    BY <1>5, <2>6
  <2>8. bk[b].rows = inner[p].rows
    BY <1>5, <2>6
  <2> HIDE DEF b
  <2>9. b \in 1..Len(ss) /\ ss[b] = inner[p].rows
    BY <1>11, <2>7, <2>8
  <2>10. r \in 1..Len(ss[b]) /\ ss[b][r] = RowFor(some, drawn, id)
    BY <2>4, <2>5, <2>9
  <2>11. PICK l \in 1..Len(beside) : beside[l] = ss[b][r]
    BY <1>12, <2>9, <2>10
  <2> QED
    BY <1>13, <2>10, <2>11
<1>16. P!FlattenSeq(ss) = beside
  BY SameFlat DEF beside
<1>17. RowsSo(beside, ids, some, drawn)
  BY <1>13, <1>14, <1>15 DEF RowsSo
<1> QED
  BY <1>16, <1>17 DEF ss, body, N

(* The pages before the first numbered one.                                *)
Plain(bk) == {p \in DOMAIN bk : bk[p].number = 0}

(* The pages without a number are the titles; behind them it counts on.    *)
LEMMA PlainIs ==
  ASSUME NEW some, NEW drawn, NEW bk, BookSo(bk, some, drawn)
  PROVE  LET t == Len(TitlesOf(some, drawn))
         IN  /\ t \in Nat \ {0}
             /\ Plain(bk) = 1..t /\ Cardinality(Plain(bk)) = t
             /\ \A p \in DOMAIN bk \ Plain(bk) : bk[p].number = p - t
<1> DEFINE t == Len(TitlesOf(some, drawn))  n == Len(NumberedOf(some, drawn))
<1>1. /\ t \in Nat \ {0} /\ n \in Nat /\ DOMAIN bk = 1..t + n
      /\ \A p \in 1..t : bk[p].number = 0
      /\ \A q \in 1..n : bk[t + q].number = q
  BY DEF BookSo
<1> HIDE DEF t, n
<1>2. ASSUME NEW p \in 1..t + n, p > t PROVE bk[p].number = p - t /\ p - t # 0
  <2> DEFINE q == p - t
  <2>1. q \in 1..n /\ p = t + q
    BY <1>1, <1>2
  <2> HIDE DEF q
  <2>2. bk[p].number = q /\ q # 0
    BY <1>1, <2>1
  <2> QED
    BY <2>2 DEF q
<1>3. Plain(bk) = 1..t
  <2>1. \A p \in 1..t : p \in Plain(bk)
    <3>1. \A p \in 1..t : p \in 1..t + n
      BY <1>1
    <3> QED
      BY <1>1, <3>1 DEF Plain
  <2>2. ASSUME NEW p \in Plain(bk) PROVE p \in 1..t
    <3>1. p \in 1..t + n /\ bk[p].number = 0
      BY <1>1 DEF Plain
    <3>2. ~(p > t)
      BY <1>2, <3>1
    <3> QED
      BY <1>1, <3>1, <3>2
  <2> QED
    BY <2>1, <2>2
<1>4. Cardinality(1..t) = t
  BY <1>1, FS_Interval
<1>5. ASSUME NEW p \in DOMAIN bk \ Plain(bk) PROVE bk[p].number = p - t
  <2>1. p \in 1..t + n /\ p > t
    BY <1>1, <1>3
  <2> QED
    BY <1>2, <2>1
<1> QED
  BY <1>1, <1>3, <1>4, <1>5 DEF t

(* A row names the first page of the last drawing of its topic.            *)
LEMMA RowNamesIts ==
  ASSUME NEW U, NEW some \in Seq(U), NEW drawn, Ready(some, drawn), NEW bk, BookSo(bk, some, drawn),
         NEW j \in 1..Len(P!Body(some))
  PROVE  LET id == P!Body(some)[j].id
             p  == P!PageNumbers(some, drawn)[id] + Len(TitlesOf(some, drawn))
         IN  /\ p \in PagesOf(bk, id)
             /\ Cardinality({q \in PagesOf(bk, id) : q >= p}) = drawn[id]
<1> DEFINE id == P!Body(some)[j].id  first == P!PageNumbers(some, drawn)[id]
           t == Len(TitlesOf(some, drawn))  w == drawn[id]
           A == On(TitlesOf(some, drawn), id)  B == On(NumberedOf(some, drawn), id)
           G == PagesOf(bk, id)
           last == first..first + w - 1
           p == first + t
<1>1. /\ first \in Nat \ {0} /\ w \in Nat \ {0} /\ first \in B
      /\ {q \in B : q >= first} = last
  BY FirstPageIs
<1>2. G = A \cup {t + q : q \in B}
  BY PagesAre
<1>3. t \in Nat
  BY DEF BookSo
<1>4. A \in SUBSET (1..t)
  BY DEF On
<1>5. B \in SUBSET Nat
  <2>1. Len(NumberedOf(some, drawn)) \in Nat
    BY DEF BookSo
  <2> QED
    BY <2>1 DEF On
<1> HIDE DEF id, first, t, w, A, B, G
<1>6. p \in G
  BY <1>1, <1>2, <1>3
<1>7. {q \in G : q >= p} = {t + q : q \in last}
  <2>1. ASSUME NEW q \in G, q >= p PROVE q \in {t + x : x \in last}
    <3>1. q \notin A
      <4> SUFFICES ASSUME q \in A PROVE FALSE
        OBVIOUS
      <4>1. q \in 1..t /\ q >= first + t
        BY <1>4, <2>1
      <4> QED
        BY <1>1, <1>3, <4>1
    <3>2. PICK x \in B : q = t + x
      BY <1>2, <2>1, <3>1
    <3>3. x \in Nat /\ x >= first
      BY <1>1, <1>3, <1>5, <2>1, <3>2
    <3>4. x \in last
      BY <1>1, <3>3
    <3> QED
      BY <3>2, <3>4
  <2>2. ASSUME NEW x \in last PROVE t + x \in G /\ t + x >= p
    <3>1. x \in B /\ x >= first /\ x \in Nat
      BY <1>1, <1>5
    <3>2. t + x \in G
      BY <1>2, <3>1
    <3> QED
      BY <1>1, <1>3, <3>1, <3>2
  <2> HIDE DEF p, last
  <2> QED
    BY <2>1, <2>2
<1>8. Cardinality({t + x : x \in last}) = w
  <2>1. last \subseteq Nat
    BY <1>1
  <2>2. IsFiniteSet(last) /\ Cardinality(last) = w
    <3> DEFINE b == first + w - 1
    <3>1. b \in Int /\ first \in Int /\ b - first + 1 = w /\ ~(first > b)
      BY <1>1
    <3> HIDE DEF b
    <3>2. IsFiniteSet(first..b) /\ Cardinality(first..b) = b - first + 1
      BY <3>1, FS_Interval
    <3> QED
      BY <3>1, <3>2 DEF b
  <2> HIDE DEF last
  <2> QED
    BY <1>3, <2>1, <2>2, Moved
<1> QED
  BY <1>6, <1>7, <1>8 DEF id, first, t, w, G

(* Nothing lies between 1 and 0.                                           *)
LEMMA AtTheEdge == 1..0 = {} /\ (\A p \in 1..1 : p = 1) /\ \A n \in Nat : n * 0 = 0
  OBVIOUS

(* The titles show the topics they are of, and no other.                   *)
LEMMA OnTitles ==
  ASSUME NEW U, NEW some \in Seq(U), NEW drawn, Ready(some, drawn),
         NEW id, drawn[id] \in Nat, id # "title page"
  PROVE  Cardinality(On(TitlesOf(some, drawn), id)) = drawn[id] * Cardinality(By(P!Titles(some), id))
<1> DEFINE titles == P!Titles(some)  t == TitlesOf(some, drawn)
           blank == [topic |-> "title page", rows |-> <<>>]
<1>1. titles \in Seq(U) /\ Sized(titles, drawn)
  BY TitlesAre
<1>2. t = IF titles = <<>> THEN <<blank>> ELSE P!Drawings(titles, drawn)
  BY DEF TitlesOf
<1> HIDE DEF titles, t
<1>3. CASE titles # <<>>
  <2>1. t = P!Drawings(titles, drawn)
    BY <1>2, <1>3
  <2> QED
    BY <1>1, <2>1, OnDrawings DEF t, titles
<1>4. CASE titles = <<>>
  <2>1. blank.topic # id
    OBVIOUS
  <2> HIDE DEF blank
  <2>2. t = <<blank>>
    BY <1>2, <1>4
  <2>3. Len(t) = 1 /\ t[1] = blank
    BY <2>2
  <2>4. On(t, id) = {}
    <3>1. \A p \in 1..1 : p = 1
      BY AtTheEdge
    <3>2. \A p \in 1..Len(t) : t[p].topic # id
      BY <2>1, <2>3, <3>1
    <3> QED
      BY <3>2 DEF On
  <2>5. By(titles, id) = {}
    <3>1. Len(titles) = 0
      BY <1>4
    <3>2. 1..0 = {}
      BY AtTheEdge
    <3> QED
      BY <3>1, <3>2 DEF By
  <2>6. Cardinality(On(t, id)) = 0 /\ Cardinality(By(titles, id)) = 0
    BY <2>4, <2>5, FS_EmptySet
  <2>7. drawn[id] * 0 = 0
    <3> DEFINE w == drawn[id]
    <3>1. w \in Nat
      OBVIOUS
    <3> HIDE DEF w
    <3> QED
      BY <3>1, AtTheEdge DEF w
  <2> QED
    BY <2>6, <2>7 DEF t, titles
<1> QED
  BY <1>3, <1>4

(* Every topic is there with all its pages, once for each of its rows.     *)
LEMMA AllIsThere ==
  ASSUME NEW U, NEW some \in Seq(U), NEW drawn, Ready(some, drawn), NEW bk, BookSo(bk, some, drawn),
         NEW i \in 1..Len(some), ~P!IsContents(some[i])
  PROVE  Cardinality(PagesOf(bk, some[i].id)) = drawn[some[i].id] * Cardinality(By(some, some[i].id))
<1> DEFINE id == some[i].id  w == drawn[id]
           x == Cardinality(By(P!Titles(some), id))  y == Cardinality(By(P!Body(some), id))
<1>1. id \notin {None, "title page", "CONTENTS"} /\ w \in Nat
  BY DEF Ready, P!IsContents
<1> HIDE DEF id
<1>2. Cardinality(PagesOf(bk, id))
        = Cardinality(On(TitlesOf(some, drawn), id)) + Cardinality(On(NumberedOf(some, drawn), id))
  BY PagesCounted
<1>3. Cardinality(On(TitlesOf(some, drawn), id)) = w * x
  BY <1>1, OnTitles
<1>4. Cardinality(On(NumberedOf(some, drawn), id)) = w * y
  BY <1>1, OnNumbered
<1>5. x + y = Cardinality(By(some, id))
  BY <1>1, ByParts
<1>6. x \in Nat /\ y \in Nat
  BY BodyIs, TitlesAre, OnIsCounted
<1>7. w * x + w * y = w * (x + y)
  <2>1. w \in Nat /\ x \in Nat /\ y \in Nat
    BY <1>1, <1>6
  <2> HIDE DEF w, x, y
  <2> QED
    BY <2>1
<1> QED
  BY <1>2, <1>3, <1>4, <1>5, <1>7 DEF id

(* What NumbersAreThePages says of a book.                                 *)
Numbered(bk, some, drawn) ==
  LET plain  == Plain(bk)
      beside == P!FlattenSeq([p \in DOMAIN bk |-> bk[p].rows])
  IN  /\ plain = 1..Cardinality(plain) /\ plain # {}
      /\ \A p \in DOMAIN bk \ plain : bk[p].number = p - Cardinality(plain)
      /\ \A l \in DOMAIN beside :
           LET p == beside[l].number + Cardinality(plain)
           IN  p \in PagesOf(bk, beside[l].id)
                 /\ Cardinality({q \in PagesOf(bk, beside[l].id) : q >= p}) = drawn[beside[l].id]
      /\ \A i \in DOMAIN some : ~P!IsContents(some[i]) =>
           /\ Cardinality(PagesOf(bk, some[i].id)) = drawn[some[i].id] * Cardinality(By(some, some[i].id))
           /\ P!IsTitle(some[i]) \/ \E l \in DOMAIN beside : beside[l].id = some[i].id

(* Whatever is listed and drawn, the assembled book has this.              *)
LEMMA AssembledIsNumbered ==
  ASSUME NEW U, NEW some \in Seq(U), NEW drawn, Ready(some, drawn)
  PROVE  Numbered(P!Assembled(some, drawn), some, drawn)
<1> DEFINE bk == P!Assembled(some, drawn)  t == Len(TitlesOf(some, drawn))
           beside == P!FlattenSeq([p \in DOMAIN bk |-> bk[p].rows])
           body == P!Body(some)
           ids == {body[j].id : j \in 1..Len(body)}
<1>1. BookSo(bk, some, drawn)
  BY AssembledSo
<1> HIDE DEF bk
<1>2. /\ t \in Nat \ {0} /\ Plain(bk) = 1..t /\ Cardinality(Plain(bk)) = t
      /\ \A p \in DOMAIN bk \ Plain(bk) : bk[p].number = p - t
  BY <1>1, PlainIs
<1>3. /\ DOMAIN beside = 1..Len(beside)
      /\ \A l \in DOMAIN beside : \E id \in ids : beside[l] = RowFor(some, drawn, id)
      /\ \A id \in ids : \E l \in DOMAIN beside : beside[l] = RowFor(some, drawn, id)
  <2>1. RowsSo(beside, ids, some, drawn)
    BY <1>1, RowsAre
  <2> HIDE DEF beside, ids
  <2> QED
    BY <2>1 DEF RowsSo
<1>4. /\ \A j \in 1..Len(body) : \E i \in 1..Len(some) : body[j] = some[i]
      /\ \A i \in 1..Len(some) : ~P!IsTitle(some[i]) /\ ~P!IsContents(some[i]) =>
           \E j \in 1..Len(body) : body[j] = some[i]
  BY BodyIs
<1>5. DOMAIN some = 1..Len(some)
  BY LenProperties
<1>6. ASSUME NEW j \in 1..Len(body)
      PROVE  /\ P!PageNumbers(some, drawn)[body[j].id] + t \in PagesOf(bk, body[j].id)
             /\ Cardinality({q \in PagesOf(bk, body[j].id) : q >= P!PageNumbers(some, drawn)[body[j].id] + t})
                  = drawn[body[j].id]
  BY <1>1, RowNamesIts
<1> HIDE DEF t, beside, body
<1>7. ASSUME NEW l \in DOMAIN beside
      PROVE  LET p == beside[l].number + t
             IN  p \in PagesOf(bk, beside[l].id)
                   /\ Cardinality({q \in PagesOf(bk, beside[l].id) : q >= p}) = drawn[beside[l].id]
  <2>1. PICK id \in ids : beside[l] = RowFor(some, drawn, id)
    BY <1>3
  <2>2. beside[l].id = id /\ beside[l].number = P!PageNumbers(some, drawn)[id]
    BY <2>1 DEF RowFor
  <2>3. PICK j \in 1..Len(body) : body[j].id = id
    BY <2>1
  <2> QED
    BY <1>6, <2>2, <2>3
<1>8. ASSUME NEW i \in 1..Len(some), ~P!IsContents(some[i])
      PROVE  /\ Cardinality(PagesOf(bk, some[i].id)) = drawn[some[i].id] * Cardinality(By(some, some[i].id))
             /\ P!IsTitle(some[i]) \/ \E l \in DOMAIN beside : beside[l].id = some[i].id
  <2>1. Cardinality(PagesOf(bk, some[i].id)) = drawn[some[i].id] * Cardinality(By(some, some[i].id))
    BY <1>1, <1>8, AllIsThere
  <2>2. ASSUME ~P!IsTitle(some[i]) PROVE \E l \in DOMAIN beside : beside[l].id = some[i].id
    <3>1. PICK j \in 1..Len(body) : body[j] = some[i]
      BY <1>4, <1>8, <2>2
    <3>2. some[i].id \in ids
      BY <3>1
    <3>3. PICK l \in DOMAIN beside : beside[l] = RowFor(some, drawn, some[i].id)
      BY <1>3, <3>2
    <3>4. beside[l].id = some[i].id
      BY <3>3 DEF RowFor
    <3> QED
      BY <3>4
  <2> QED
    BY <2>1, <2>2
<1>9. 1..t # {}
  BY <1>2
<1> QED
  BY <1>2, <1>5, <1>7, <1>8, <1>9 DEF Numbered, bk, beside

(* The topics before row j, but for the contents, are drawn.               *)
Measured(j) ==
  \A i \in DOMAIN listed : i < j /\ ~P!IsContents(listed[i]) =>
    listed[i].id \in DOMAIN rendered /\ rendered[listed[i].id] \in 1..MaxPages

(* What is drawn grows with the index, to all that a book is made of.      *)
DrawnInv ==
  /\ listed \in Printed /\ index \in Nat
  /\ P!Live => Measured(index)
  /\ P!Live /\ awaits \in {"navigation", "fonts", "breaks", "pdf"} => index \in DOMAIN listed
  /\ ~P!Live => \/ answers \in {<<P!Error>>, <<P!Nothing>>}
                \/ /\ answers = <<P!Book(P!Assembled(listed, rendered))>>
                   /\ Measured(Len(listed) + 1)

(* What may be printed is a sequence of rows.                              *)
LEMMA ListingIs ==
  ASSUME NEW some \in Printed
  PROVE  some \in Seq({some[i] : i \in DOMAIN some}) /\ DOMAIN some = 1..Len(some) /\ Len(some) \in Nat
<1>1. some \in Seq({some[i] : i \in DOMAIN some})
  BY PrintedAssumption DEF IsASequence
<1> QED
  BY <1>1, LenProperties

LEMMA DrawnStarts == P!Init => DrawnInv
<1> SUFFICES ASSUME P!Init PROVE DrawnInv
  OBVIOUS
<1>1. listed \in Printed /\ index = 0 /\ awaits = "start" /\ P!Live
  BY DEF P!Init, P!Live
<1>2. DOMAIN listed = 1..Len(listed)
  BY <1>1, ListingIs
<1>3. Measured(index)
  BY <1>1, <1>2 DEF Measured
<1> QED
  BY <1>1, <1>3 DEF DrawnInv

LEMMA LoadKeepsDrawn ==
  ASSUME DrawnInv, P!Live, NEW from \in Nat, Measured(from), P!LoadNext(from, rendered)
  PROVE  DrawnInv'
<1> DEFINE loads == {i \in DOMAIN listed : i >= from /\ ~P!IsContents(listed[i])}
<1>1. /\ listed \in Printed /\ DOMAIN listed = 1..Len(listed) /\ Len(listed) \in Nat
      /\ listed' = listed /\ rendered' = rendered
  BY ListingIs DEF DrawnInv, P!LoadNext
<1>2. CASE loads = {}
  <2>1. /\ index' = Len(listed) + 1 /\ awaits' = None
        /\ answers' = Append(answers, P!Book(P!Assembled(listed, rendered)))
    BY <1>2 DEF P!LoadNext
  <2>2. answers' = <<P!Book(P!Assembled(listed, rendered))>>
    BY <2>1 DEF P!Live
  <2>3. ~(P!Live')
    BY <2>2 DEF P!Live
  <2>4. Measured(Len(listed) + 1)
    BY <1>2 DEF Measured
  <2>5. Measured(Len(listed) + 1)'
    BY <1>1, <2>4 DEF Measured
  <2> QED
    BY <1>1, <2>1, <2>2, <2>3, <2>5 DEF DrawnInv
<1>3. CASE loads # {}
  <2> DEFINE first == CHOOSE i \in loads : \A j \in loads : i <= j
  <2>1. index' = first /\ awaits' = "navigation" /\ answers' = answers
    BY <1>3 DEF P!LoadNext
  <2>2. first \in loads /\ \A j \in loads : first <= j
    <3>1. loads \in SUBSET Nat
      BY <1>1
    <3> HIDE DEF loads
    <3>2. \E i \in loads : \A j \in loads : i <= j
      BY <1>3, <3>1, LeastExists
    <3> QED
      BY <3>2
  <2> HIDE DEF first
  <2>3. first \in DOMAIN listed /\ first \in Nat
    BY <1>1, <2>2
  <2>4. Measured(first)
    <3> SUFFICES ASSUME NEW i \in DOMAIN listed, i < first, ~P!IsContents(listed[i])
                 PROVE  listed[i].id \in DOMAIN rendered /\ rendered[listed[i].id] \in 1..MaxPages
      BY DEF Measured
    <3>1. i < from
      <4>1. i \in Nat /\ i \notin loads
        BY <1>1, <2>2, <2>3
      <4> QED
        BY <4>1
    <3> QED
      BY <3>1 DEF Measured
  <2>5. Measured(index)'
    BY <1>1, <2>1, <2>4 DEF Measured
  <2>6. P!Live'
    BY <2>1 DEF P!Live
  <2> QED
    BY <1>1, <2>1, <2>3, <2>5, <2>6 DEF DrawnInv
<1> QED
  BY <1>2, <1>3

LEMMA DrawnStays == PrintInv /\ DrawnInv /\ [P!Next]_(P!vars) => DrawnInv'
<1> SUFFICES ASSUME PrintInv, DrawnInv, [P!Next]_(P!vars) PROVE DrawnInv'
  OBVIOUS
<1>a. listed \in Printed /\ DOMAIN listed = 1..Len(listed) /\ index \in Nat
  BY ListingIs DEF DrawnInv
<1>1. CASE P!Start
  <2>1. P!Live /\ P!LoadNext(1, rendered)
    BY <1>1 DEF P!Start, PrintInv
  <2>2. Measured(1)
    BY <1>a DEF Measured
  <2> QED
    BY <2>1, <2>2, LoadKeepsDrawn
<1>2. CASE P!Cancel
  <2>1. answers' = <<P!Nothing>> /\ UNCHANGED <<listed, index, rendered>>
    BY <1>2 DEF P!Cancel, P!Finish, P!Live
  <2>2. ~(P!Live')
    BY <2>1 DEF P!Live
  <2> QED
    BY <1>a, <2>1, <2>2 DEF DrawnInv
<1>3. CASE P!Ignored
  <2>1. ~P!Live /\ UNCHANGED <<listed, index, rendered, answers>>
    BY <1>3 DEF P!Ignored
  <2> QED
    BY <2>1 DEF DrawnInv, Measured, P!Live
<1>4. CASE P!Fails
  <2>1. answers' = <<P!Error>> /\ UNCHANGED <<listed, index, rendered>>
    BY <1>4 DEF P!Fails, P!Finish, P!Live
  <2>2. ~(P!Live')
    BY <2>1 DEF P!Live
  <2> QED
    BY <1>a, <2>1, <2>2 DEF DrawnInv
<1>5. CASE P!Rendered
  <2>1. PICK n \in 1..MaxPages :
          rendered' = [id \in DOMAIN rendered \cup {listed[index].id} |->
                         IF id = listed[index].id THEN n ELSE rendered[id]]
    BY <1>5 DEF P!Rendered
  <2>2. /\ P!Live /\ awaits = "pdf" /\ index' = index + 1 /\ awaits' = "dispatch"
        /\ UNCHANGED <<listed, cancelled, answers>>
    BY <1>5 DEF P!Rendered
  <2>3. Measured(index) /\ index \in DOMAIN listed
    BY <2>2 DEF DrawnInv
  <2>4. ASSUME NEW i \in DOMAIN listed, i < index + 1, ~P!IsContents(listed[i])
        PROVE  listed[i].id \in DOMAIN rendered' /\ rendered'[listed[i].id] \in 1..MaxPages
    <3>1. CASE listed[i].id = listed[index].id
      BY <2>1, <3>1
    <3>2. CASE listed[i].id # listed[index].id
      <4>1. i < index
        BY <1>a, <2>4, <3>2
      <4>2. listed[i].id \in DOMAIN rendered /\ rendered[listed[i].id] \in 1..MaxPages
        BY <2>3, <2>4, <4>1 DEF Measured
      <4> QED
        BY <2>1, <3>2, <4>2
    <3> QED
      BY <3>1, <3>2
  <2>5. Measured(index)'
    BY <2>2, <2>4 DEF Measured
  <2>6. P!Live'
    BY <2>2 DEF P!Live
  <2> QED
    BY <1>a, <2>2, <2>5, <2>6 DEF DrawnInv
<1>6. CASE P!Dispatched
  <2>1. P!Live /\ P!LoadNext(index, rendered)
    BY <1>6 DEF P!Dispatched
  <2>2. Measured(index)
    BY <2>1 DEF DrawnInv
  <2> QED
    BY <1>a, <2>1, <2>2, LoadKeepsDrawn
<1>7. CASE P!DidFinishNavigation \/ P!FontsReady \/ P!BreaksKnown
  <2>1. /\ P!Live /\ awaits \in {"navigation", "fonts", "breaks"}
        /\ UNCHANGED <<listed, index, rendered, answers>>
    BY <1>7 DEF P!DidFinishNavigation, P!FontsReady, P!BreaksKnown, P!Goes
  <2>2. index \in DOMAIN listed /\ Measured(index)
    BY <2>1 DEF DrawnInv
  <2> QED
    BY <1>a, <2>1, <2>2 DEF DrawnInv, Measured, P!Live
<1>8. CASE UNCHANGED P!vars
  BY <1>8 DEF P!vars, DrawnInv, Measured, P!Live
<1> QED
  BY <1>1, <1>2, <1>3, <1>4, <1>5, <1>6, <1>7, <1>8 DEF P!Next

(* The Cardinality of the instance is that of the library.                 *)
LEMMA SameCount == ASSUME NEW few PROVE P!Cardinality(few) = Cardinality(few)
  BY DEF P!Cardinality, Cardinality

(* The same of a book, where P!NumbersAreThePages says it of the answer.   *)
Right(bound) ==
  LET plain  == {p \in DOMAIN bound : bound[p].number = 0}
      Pages(id) == {p \in DOMAIN bound : bound[p].topic = id}
      beside == P!FlattenSeq([p \in DOMAIN bound |-> bound[p].rows])
      Rows(id) == P!Cardinality({i \in DOMAIN listed : listed[i].id = id})
  IN  /\ plain = 1..P!Cardinality(plain) /\ plain # {}
      /\ \A p \in DOMAIN bound \ plain : bound[p].number = p - P!Cardinality(plain)
      /\ \A l \in DOMAIN beside :
           LET p == beside[l].number + P!Cardinality(plain)
           IN  p \in Pages(beside[l].id)
                 /\ P!Cardinality({q \in Pages(beside[l].id) : q >= p}) = rendered[beside[l].id]
      /\ \A i \in DOMAIN listed : ~P!IsContents(listed[i]) =>
           /\ P!Cardinality(Pages(listed[i].id)) = rendered[listed[i].id] * Rows(listed[i].id)
           /\ P!IsTitle(listed[i]) \/ \E l \in DOMAIN beside : beside[l].id = listed[i].id

LEMMA DrawnInvSuffices == DrawnInv => P!NumbersAreThePages
<1> SUFFICES ASSUME DrawnInv, answers \notin {<<>>, <<P!Error>>, <<P!Nothing>>} PROVE P!NumbersAreThePages
  BY DEF P!NumbersAreThePages
<1> DEFINE bk == P!Assembled(listed, rendered)
           U == {listed[i] : i \in DOMAIN listed}
<1>1. /\ listed \in Printed /\ listed \in Seq(U)
      /\ DOMAIN listed = 1..Len(listed) /\ Len(listed) \in Nat
  BY ListingIs DEF DrawnInv
<1>2. answers = <<P!Book(bk)>> /\ Measured(Len(listed) + 1)
  BY DEF DrawnInv, P!Live
<1>3. answers[1].pages = bk
  <2> HIDE DEF bk
  <2>1. P!Book(bk).pages = bk
    BY DEF P!Book
  <2> QED
    BY <1>2, <2>1
<1>4. Ready(listed, rendered)
  <2> SUFFICES ASSUME NEW i \in 1..Len(listed)
               PROVE  /\ listed[i].id \notin {None, "title page"}
                      /\ ~P!IsContents(listed[i]) => rendered[listed[i].id] \in Nat \ {0}
    BY DEF Ready
  <2>1. listed[i].id \notin {None, "title page"}
    BY <1>1, PrintedAssumption
  <2>2. ASSUME ~P!IsContents(listed[i]) PROVE rendered[listed[i].id] \in Nat \ {0}
    <3>1. i < Len(listed) + 1
      BY <1>1
    <3>2. rendered[listed[i].id] \in 1..MaxPages
      BY <1>1, <1>2, <2>2, <3>1 DEF Measured
    <3>a. MaxPages \in Nat
      BY PrintedAssumption
    <3>3. \A n \in 1..MaxPages : n \in Nat \ {0}
      BY <3>a
    <3> QED
      BY <3>2, <3>3
  <2> QED
    BY <2>1, <2>2
<1>5. Numbered(bk, listed, rendered)
  <2> HIDE DEF U
  <2> QED
    BY <1>1, <1>4, AssembledIsNumbered
<1>6. \A id : By(listed, id) = {i \in DOMAIN listed : listed[i].id = id}
  BY <1>1 DEF By
<1> HIDE DEF bk
<1>7. Right(bk)
  BY <1>5, <1>6, SameCount DEF Numbered, Right, Plain, PagesOf
<1>8. Right(answers[1].pages)
  <2> HIDE DEF Right
  <2> QED
    BY <1>3, <1>7
<1> QED
  BY <1>8 DEF Right, P!NumbersAreThePages

(* BookPrintJob.mm:313-402: the numbers beside the contents are those of   *)
(* the pages, whatever the books list and however long their topics are.   *)
THEOREM NumbersAreRight == MCSpec => []NumbersAreThePages
<1> DEFINE Held == part = "print" => PrintInv /\ DrawnInv
<1>1. MCInit => Held
  BY PrintStarts, DrawnStarts DEF MCInit
<1>2. Held /\ [MCNext]_all => Held'
  BY PrintStays, DrawnStays, PartsApart
<1>3. Held => NumbersAreThePages
  BY DrawnInvSuffices DEF NumbersAreThePages
<1>4. QED
  BY <1>1, <1>2, <1>3, PTL DEF MCSpec
-----------------------------------------------------------------------------
(* TopicRoute *)

(* A topic that several families claim goes to none of them; if one claims *)
(* it, CHOOSE has no choice.                                               *)
LEMMA OneClaimant ==
  ASSUME NEW entry, R!Claiming(entry) # {}, ~(\E f, g \in R!Claiming(entry) : f # g)
  PROVE  R!Claiming(entry) = {CHOOSE f \in R!Claiming(entry) : TRUE}
  OBVIOUS

(* A document is lowered only by the one family that claims the topic, and *)
(* says how far that family got.                                           *)
LEMMA LoweredAlone ==
  ASSUME NEW entry \in Routes, NEW typed
  PROVE  typed = R!TypedLowering(entry) =>
         \/ /\ typed.document = None
            /\ typed.family \in R!Families \cup {"prose", "none"}
         \/ /\ R!Decoded(entry)
            /\ typed.family \in R!Families \cup {"prose"}
            /\ R!Claiming(entry) \cup (IF R!Claiming(entry) = {} THEN {"prose"} ELSE {}) = {typed.family}
            /\ entry.verdict[typed.family] \in R!Lowered
            /\ typed.document = [body |-> entry.verdict[typed.family] # "bare",
                                 degraded |-> entry.verdict[typed.family] = "degraded"]
<1>0. HAVE typed = R!TypedLowering(entry)
<1>1. ASSUME NEW f \in R!Families \cup {"prose"}
      PROVE  LET lowered == R!LoweredBy(entry, f)
             IN  \/ lowered.document = None /\ lowered.family \in {f, "none"}
                 \/ /\ lowered.family = f /\ entry.verdict[f] \in R!Lowered
                    /\ lowered.document = [body |-> entry.verdict[f] # "bare",
                                           degraded |-> entry.verdict[f] = "degraded"]
  <2>1. entry.verdict[f] \in R!Verdicts
    BY RouteAssumption
  <2>2. QED
    BY <2>1 DEF R!LoweredBy, R!Verdicts, R!Declined
<1>2a. ASSUME NEW f \in R!Families \cup {"prose"}, typed = R!LoweredBy(entry, f)
      PROVE  \/ typed.document = None /\ typed.family \in R!Families \cup {"prose", "none"}
             \/ /\ typed.family = f /\ entry.verdict[f] \in R!Lowered
                /\ typed.document = [body |-> entry.verdict[f] # "bare",
                                     degraded |-> entry.verdict[f] = "degraded"]
  BY <1>1, <1>2a
<1>2. CASE ~R!Decoded(entry) \/ ~entry.laid \/ (\E f, g \in R!Claiming(entry) : f # g)
  <2>0. R!TypedLowering(entry) = [document |-> None, family |-> "none"]
    BY <1>2 DEF R!TypedLowering
  <2>1. typed = [document |-> None, family |-> "none"]
    BY <1>0, <2>0
  <2>2. QED
    BY <2>1
<1>3. CASE /\ R!Decoded(entry) /\ entry.laid /\ ~(\E f, g \in R!Claiming(entry) : f # g)
           /\ R!Claiming(entry) = {}
  <2>0. R!TypedLowering(entry) = R!LoweredBy(entry, "prose")
    BY <1>3 DEF R!TypedLowering
  <2>1. typed = R!LoweredBy(entry, "prose")
    BY <1>0, <2>0
  <2>2. R!Claiming(entry) \cup (IF R!Claiming(entry) = {} THEN {"prose"} ELSE {}) = {"prose"}
    BY <1>3
  <2>3. QED
    BY <1>2a, <1>3, <2>1, <2>2
<1>4. CASE /\ R!Decoded(entry) /\ entry.laid /\ ~(\E f, g \in R!Claiming(entry) : f # g)
           /\ R!Claiming(entry) # {}
  <2> DEFINE f == CHOOSE g \in R!Claiming(entry) : TRUE
  <2>0. R!TypedLowering(entry) = R!LoweredBy(entry, f)
    BY <1>4 DEF R!TypedLowering
  <2>1. typed = R!LoweredBy(entry, f)
    BY <1>0, <2>0
  <2>2. R!Claiming(entry) = {f}
    BY <1>4, OneClaimant
  <2>3. f \in R!Families
    <3>1. f \in R!Claiming(entry)
      BY <2>2
    <3> HIDE DEF f
    <3>2. QED
      BY <3>1 DEF R!Claiming, R!Offered, R!Families
  <2>4. R!Claiming(entry) \cup (IF R!Claiming(entry) = {} THEN {"prose"} ELSE {}) = {f}
    BY <2>2
  <2> HIDE DEF f
  <2>5. QED
    BY <1>2a, <1>4, <2>1, <2>3, <2>4
<1>5. QED
  BY <1>2, <1>3, <1>4

(* Rows come of the records, and words in a framed one leave a row: it is  *)
(* kept unless no row before it nor itself is anything but the title.      *)
LEMMA RowsAreDecoded ==
  ASSUME NEW entry \in Routes
  PROVE  /\ R!Decoded(entry) \in BOOLEAN /\ R!HasRows(entry) \in BOOLEAN
         /\ R!HasRows(entry) => R!Decoded(entry)
         /\ R!ShowsWords(entry) => R!HasRows(entry)
<1>1. entry.records \in Seq(R!Records)
  BY RouteAssumption
<1>2. \A i \in DOMAIN entry.records : i <= i
  <2>1. DOMAIN entry.records = 1..Len(entry.records)
    BY <1>1
  <2>2. \A i \in 1..Len(entry.records) : i <= i
    BY <1>1
  <2>3. QED
    BY <2>1, <2>2
<1>3. entry.records = <<>> => DOMAIN entry.records = {}
  BY <1>1
<1>4. ASSUME NEW i \in DOMAIN entry.records, entry.records[i].framed, entry.records[i].text = "words"
      PROVE  i \in R!DisplayRows(entry)
  BY <1>2, <1>4 DEF R!DisplayRows, R!Lines
<1>5. QED
  BY <1>3, <1>4 DEF R!ShowsWords, R!Decoded, R!HasRows, R!DisplayRows, R!Lines

(* What the loader keeps of it: nothing, the source rows, or the document. *)
LEMMA OutcomeKinds ==
  ASSUME NEW entry \in Routes, NEW typed, typed = R!TypedLowering(entry)
  PROVE  \/ /\ ~R!Decoded(entry)
            /\ R!Outcome(entry) = [claimed |-> FALSE, family |-> "none", decoded |-> FALSE, rows |-> FALSE,
                                 representation |-> "none", document |-> None]
         \/ /\ R!Decoded(entry) /\ (typed.document = None \/ R!HasRows(entry))
            /\ typed.document # None => ~typed.document.body /\ typed.family # "generated navigation"
            /\ R!Outcome(entry) = [claimed |-> typed.document # None, family |-> typed.family,
                                 decoded |-> TRUE, rows |-> R!HasRows(entry),
                                 representation |-> "source_rows", document |-> R!SourceRows(entry)]
         \/ /\ R!Decoded(entry) /\ typed.document # None
            /\ \/ typed.document.body \/ typed.family = "generated navigation" \/ ~R!HasRows(entry)
            /\ R!Outcome(entry) = [claimed |-> TRUE, family |-> typed.family, decoded |-> TRUE,
                                 rows |-> FALSE,
                                 representation |-> "structured", document |-> typed.document]
<1> R!Decoded(entry) \in BOOLEAN /\ R!HasRows(entry) \in BOOLEAN /\ (R!HasRows(entry) => R!Decoded(entry))
  BY RowsAreDecoded
<1>1. CASE ~R!Decoded(entry)
  <2>1. typed = [document |-> None, family |-> "none"]
    BY <1>1 DEF R!TypedLowering
  <2>2. typed.document = None /\ typed.family = "none"
    BY <2>1
  <2>3. QED
    BY <1>1, <2>2 DEF R!Outcome
<1>2. CASE R!Decoded(entry) /\ typed.document = None
  <2>1. R!Outcome(entry) = [claimed |-> FALSE, family |-> typed.family, decoded |-> TRUE, rows |-> R!HasRows(entry),
                          representation |-> "source_rows", document |-> R!SourceRows(entry)]
    BY <1>2 DEF R!Outcome
  <2>2. QED
    BY <1>2, <2>1
<1>3. CASE R!Decoded(entry) /\ typed.document # None
  <2>1. typed.document.body \in BOOLEAN
    <3>1. typed.document = [body |-> entry.verdict[typed.family] # "bare",
                            degraded |-> entry.verdict[typed.family] = "degraded"]
      BY <1>3, LoweredAlone
    <3>2. QED
      BY <3>1
  <2> DEFINE proven == typed.document.body \/ typed.family = "generated navigation"
  <2>2. CASE proven
    BY <1>3, <2>1, <2>2 DEF R!Outcome
  <2>3. CASE ~proven /\ R!HasRows(entry)
    BY <1>3, <2>1, <2>3 DEF R!Outcome
  <2>4. CASE ~proven /\ ~R!HasRows(entry)
    BY <1>3, <2>1, <2>4 DEF R!Outcome
  <2>5. QED
    BY <2>2, <2>3, <2>4
<1>4. QED
  BY <1>1, <1>2, <1>3

(* The diagnostic of what the loader kept, and what the page shows of it.  *)
LEMMA WhatIsSaid ==
  ASSUME NEW entry \in Routes, NEW outcome, NEW said
  PROVE  outcome = R!Outcome(entry) /\ said = R!Diagnostic(outcome) =>
         /\ outcome # None
         /\ R!BodyOf(outcome) \in BOOLEAN
         /\ R!ShowsWords(entry) => R!BodyOf(outcome)
         /\ said.severity \in {"failed", "best-effort", "typed-degraded", "typed"}
         /\ said.severity = "failed" <=> ~R!Decoded(entry)
         /\ ~R!BodyOf(outcome) /\ said.severity # "failed" <=> said.reason = "empty-topic-body"
         /\ outcome.representation = "structured" <=> said.severity \in {"typed", "typed-degraded"}
         /\ said.severity = "typed" =>
              /\ R!Claiming(entry) \cup (IF R!Claiming(entry) = {} THEN {"prose"} ELSE {}) = {said.family}
              /\ entry.verdict[said.family] \in {"proven", "bare"}
<1>0. HAVE outcome = R!Outcome(entry) /\ said = R!Diagnostic(outcome)
<1>a. said = R!Diagnostic(outcome)
  BY <1>0
<1> DEFINE typed == R!TypedLowering(entry)
<1>1. /\ R!Decoded(entry) \in BOOLEAN /\ R!HasRows(entry) \in BOOLEAN /\ R!ShowsWords(entry) \in BOOLEAN
      /\ R!HasRows(entry) => R!Decoded(entry)
      /\ R!ShowsWords(entry) => R!HasRows(entry)
      /\ entry.verdict["generated navigation"] = "bare" => ~R!ShowsWords(entry)
      /\ None \notin R!Documents /\ None \notin R!Outcomes
  BY RouteAssumption, RowsAreDecoded DEF R!ShowsWords
<1>2. CASE ~R!Decoded(entry)
  <2>1. outcome = [claimed |-> FALSE, family |-> "none", decoded |-> FALSE, rows |-> FALSE,
                   representation |-> "none", document |-> None]
    BY <1>0, <1>2, OutcomeKinds
  <2>2. outcome \in R!Outcomes
    BY <2>1 DEF R!Outcomes
  <2>3. said = [severity |-> "failed", route |-> "none", reason |-> "no-recoverable-source",
                family |-> "none"]
    BY <1>a, <1>1, <2>1, <2>2 DEF R!Diagnostic, R!Classified, R!Escalated
  <2>4. QED
    BY <1>1, <1>2, <2>1, <2>2, <2>3 DEF R!BodyOf
<1>3. CASE /\ R!Decoded(entry) /\ (typed.document = None \/ R!HasRows(entry))
           /\ outcome = [claimed |-> typed.document # None, family |-> typed.family,
                         decoded |-> TRUE, rows |-> R!HasRows(entry),
                         representation |-> "source_rows", document |-> R!SourceRows(entry)]
  <2>1. outcome \in R!Outcomes /\ outcome.document # None /\ outcome.document.body = R!HasRows(entry)
    <3>1. typed.family \in R!Families \cup {"prose", "none"}
      BY LoweredAlone
    <3>2. R!SourceRows(entry) \in R!Documents
      BY <1>1 DEF R!SourceRows, R!Documents
    <3>3. R!SourceRows(entry).body = R!HasRows(entry)
      BY DEF R!SourceRows
    <3> HIDE DEF typed
    <3>4. QED
      BY <1>1, <1>3, <3>1, <3>2, <3>3 DEF R!Outcomes
  <2>2. said.severity = "best-effort" /\ (said.reason = "empty-topic-body" <=> ~outcome.rows)
    <3> DEFINE class == R!Classified(IF outcome.claimed THEN outcome.document ELSE None, outcome.family)
               raised == R!Escalated(class, FALSE, outcome.rows, outcome.decoded)
    <3>1. said = [raised EXCEPT !.family = "none"]
      BY <1>a, <1>1, <1>3, <2>1 DEF R!Diagnostic
    <3> HIDE DEF class, raised
    <3>2. \E sev, way, why, who :
             /\ class = [severity |-> sev, route |-> way, reason |-> why, family |-> who]
             /\ ~outcome.claimed => sev = "best-effort"
             /\ why # "empty-topic-body"
      <4>1. CASE ~outcome.claimed
        <5>1. class = [severity |-> "best-effort", route |-> "best-effort",
                       reason |-> "typed-lowering-declined", family |-> "none"]
          BY <4>1 DEF R!Classified, class
        <5>2. QED
          BY <5>1
      <4>2. CASE outcome.claimed
        <5>1. \/ class = [severity |-> "best-effort", route |-> "best-effort",
                          reason |-> "typed-lowering-declined", family |-> "none"]
              \/ class = [severity |-> "typed-degraded", route |-> "typed",
                          reason |-> "degraded-block", family |-> outcome.family]
              \/ class = [severity |-> "typed", route |-> "typed",
                          reason |-> "typed", family |-> outcome.family]
          BY <4>2 DEF R!Classified, class
        <5>2. QED
          BY <4>2, <5>1
      <4>3. QED
        BY <4>1, <4>2, <1>3
    <3>3. raised.severity = "best-effort" /\ (raised.reason = "empty-topic-body" <=> ~outcome.rows) /\ \E sev, way, why, who :
                    raised = [severity |-> sev, route |-> way, reason |-> why, family |-> who]
      <4> PICK sev, way, why, who :
             /\ class = [severity |-> sev, route |-> way, reason |-> why, family |-> who]
             /\ ~outcome.claimed => sev = "best-effort"
             /\ why # "empty-topic-body"
        BY <3>2
      <4>1. CASE outcome.rows
        <5>1. raised = [severity |-> "best-effort", route |-> "best-effort", family |-> who,
                        reason |-> IF why = "typed-lowering-declined" THEN why ELSE "no-structured-content"]
          BY <4>1 DEF R!Escalated, raised
        <5>2. QED
          BY <4>1, <5>1
      <4>2. CASE ~outcome.rows
        <5>1. ~outcome.claimed /\ outcome.decoded
          BY <1>1, <1>3, <4>2
        <5>2. raised = [severity |-> "best-effort", route |-> way, family |-> who, reason |-> "empty-topic-body"]
          BY <4>2, <5>1 DEF R!Escalated, raised
        <5>3. QED
          BY <4>2, <5>2
      <4>3. QED
        BY <1>1, <1>3, <4>1, <4>2
    <3>4. QED
      BY <3>1, <3>3
  <2>3. outcome.representation = "source_rows"
    BY <1>3
  <2> HIDE DEF typed
  <2>4. QED
    BY <1>1, <1>3, <2>1, <2>2, <2>3 DEF R!BodyOf
<1>4. CASE /\ R!Decoded(entry) /\ typed.document # None
           /\ \/ typed.document.body \/ typed.family = "generated navigation" \/ ~R!HasRows(entry)
           /\ outcome = [claimed |-> TRUE, family |-> typed.family, decoded |-> TRUE, rows |-> FALSE,
                         representation |-> "structured", document |-> typed.document]
  <2> DEFINE claims == R!Claiming(entry) \cup (IF R!Claiming(entry) = {} THEN {"prose"} ELSE {})
             verdict == entry.verdict[typed.family]
  <2>1. /\ typed.family \in R!Families \cup {"prose"} /\ claims = {typed.family}
        /\ verdict \in R!Lowered
        /\ typed.document = [body |-> verdict # "bare", degraded |-> verdict = "degraded"]
    BY <1>4, LoweredAlone
  <2> HIDE DEF typed, claims, verdict
  <2>2. typed.document.body = (verdict # "bare") /\ typed.document.degraded = (verdict = "degraded")
    BY <2>1
  <2>3. typed.document \in R!Documents
    BY <2>1 DEF R!Documents
  <2>4. outcome \in R!Outcomes
    BY <1>4, <2>1, <2>3 DEF R!Outcomes
  <2>5. outcome.document # None /\ outcome.document.body = (verdict # "bare")
    BY <1>4, <2>2
  <2> DEFINE class == R!Classified(outcome.document, outcome.family)
  <2>6. said = R!Escalated(class, verdict # "bare", FALSE, TRUE)
    BY <1>a, <1>1, <1>4, <2>4, <2>5 DEF R!Diagnostic
  <2>7. class = [severity |-> IF verdict = "degraded" THEN "typed-degraded" ELSE "typed", route |-> "typed",
                 reason |-> IF verdict = "degraded" THEN "degraded-block" ELSE "typed",
                 family |-> typed.family]
    BY <1>4, <2>2 DEF R!Classified
  <2> HIDE DEF class
  <2>8. said.severity = (IF verdict = "degraded" THEN "typed-degraded" ELSE "typed")
        /\ said.family = typed.family /\ (said.reason = "empty-topic-body" <=> verdict = "bare")
    BY <2>6, <2>7 DEF R!Escalated
  <2>9. R!ShowsWords(entry) => outcome.document.body
    BY <1>1, <1>4, <2>2, <2>5 DEF verdict
  <2>10. verdict # "degraded" => verdict \in {"proven", "bare"}
    BY <2>1 DEF R!Lowered
  <2>11. QED
    <3>1. outcome.representation = "structured"
      BY <1>4
    <3>2. entry.verdict[said.family] = verdict /\ claims = {said.family}
      BY <2>1, <2>8 DEF verdict
    <3>3. outcome # None
      BY <1>1, <2>4
    <3>4. R!BodyOf(outcome) = (verdict # "bare")
      BY <2>5, <3>3 DEF R!BodyOf
    <3>5. R!ShowsWords(entry) => R!BodyOf(outcome)
      BY <2>5, <2>9, <3>4
    <3>6. QED
      BY <1>4, <2>8, <2>10, <3>1, <3>2, <3>3, <3>4, <3>5 DEF claims
<1>5. QED
  BY <1>0, <1>2, <1>3, <1>4, OutcomeKinds

(* An unknown topic gets a notice, no marker, and no count.                *)
LEMMA Unheard ==
  LET said == R!NotAttempted(R!Diagnostic(None))
  IN  said.severity = "failed" /\ said.reason # "empty-topic-body" /\ said = R!NotAttempted(said)
  BY DEF R!NotAttempted, R!Diagnostic, R!Escalated, R!Classified

RouteInv ==
  /\ loaded \in Routes
  /\ told \in {None, [markdown |-> R!Rendered(loaded), html |-> R!Html(loaded), inventory |-> R!Inventoried(loaded)]}

LEMMA RouteStarts == R!Init => RouteInv
  BY DEF R!Init, RouteInv

LEMMA RouteStays == RouteInv /\ [R!Render]_(R!vars) => RouteInv'
<1> SUFFICES ASSUME RouteInv, [R!Render]_(R!vars) PROVE RouteInv'
  OBVIOUS
<1>1. CASE R!Render
  <2>1. R!Rendered(loaded)' = R!Rendered(loaded) /\ R!Html(loaded)' = R!Html(loaded)
        /\ R!Inventoried(loaded)' = R!Inventoried(loaded)
    BY <1>1 DEF R!Render
  <2>2. QED
    BY <1>1, <2>1 DEF R!Render, RouteInv
<1>2. CASE UNCHANGED R!vars
  <2>1. R!Rendered(loaded)' = R!Rendered(loaded) /\ R!Html(loaded)' = R!Html(loaded)
        /\ R!Inventoried(loaded)' = R!Inventoried(loaded)
    BY <1>2 DEF R!vars
  <2>2. QED
    BY <1>2, <2>1 DEF R!vars, RouteInv
<1>3. QED
  BY <1>1, <1>2

LEMMA RouteInvSuffices == RouteInv => R!RowsReachThePage
<1> SUFFICES ASSUME RouteInv, told # None PROVE R!RowsReachThePage
  BY DEF R!RowsReachThePage
<1>1. /\ loaded \in Routes /\ loaded.known \in BOOLEAN /\ R!Decoded(loaded) \in BOOLEAN
      /\ told.markdown = R!Rendered(loaded) /\ told.html = R!Html(loaded) /\ told.inventory = R!Inventoried(loaded)
  <2>1. told = [markdown |-> R!Rendered(loaded), html |-> R!Html(loaded), inventory |-> R!Inventoried(loaded)]
        /\ loaded \in Routes
    BY DEF RouteInv
  <2>2. told.markdown = R!Rendered(loaded) /\ told.html = R!Html(loaded) /\ told.inventory = R!Inventoried(loaded)
    BY <2>1
  <2>3. loaded.known \in BOOLEAN /\ R!Decoded(loaded) \in BOOLEAN
    BY <2>1, RouteAssumption, RowsAreDecoded
  <2>4. QED
    BY <2>1, <2>2, <2>3
<1>2. CASE ~loaded.known
  <2>1. R!Rendered(loaded).diagnostic = R!NotAttempted(R!Diagnostic(None))
    BY <1>2 DEF R!Rendered, R!LoweringOf
  <2>2. R!Rendered(loaded).diagnostic.severity = "failed" /\ R!Rendered(loaded).placeholder
        /\ R!Rendered(loaded).marked = FALSE
    BY <1>2, <2>1, Unheard DEF R!Rendered
  <2>3. R!Html(loaded).placeholder /\ R!Html(loaded).severity = R!Rendered(loaded).diagnostic.severity
    BY <2>2 DEF R!Html
  <2>4. R!Inventoried(loaded).diagnostic = R!Rendered(loaded).diagnostic /\ R!Inventoried(loaded).counted = "legacy"
    BY <1>2, <2>1 DEF R!Inventoried
  <2>5. QED
    BY <1>1, <1>2, <2>1, <2>2, <2>3, <2>4, Unheard DEF R!RowsReachThePage
<1>3. CASE loaded.known
  <2> DEFINE outcome == R!Outcome(loaded)
             said == R!Diagnostic(outcome)
  <2>1. R!LoweringOf(loaded) = outcome
    BY <1>3 DEF R!LoweringOf
  <2>2. /\ R!BodyOf(outcome) \in BOOLEAN
        /\ R!ShowsWords(loaded) => R!BodyOf(outcome)
        /\ said.severity \in {"failed", "best-effort", "typed-degraded", "typed"}
        /\ said.severity = "failed" <=> ~R!Decoded(loaded)
        /\ ~R!BodyOf(outcome) /\ said.severity # "failed" <=> said.reason = "empty-topic-body"
        /\ outcome.representation = "structured" <=> said.severity \in {"typed", "typed-degraded"}
        /\ said.severity = "typed" =>
             /\ R!Claiming(loaded) \cup (IF R!Claiming(loaded) = {} THEN {"prose"} ELSE {}) = {said.family}
             /\ loaded.verdict[said.family] \in {"proven", "bare"}
    BY <1>1, WhatIsSaid
  <2>3. /\ R!Rendered(loaded).diagnostic = said /\ R!Rendered(loaded).body = R!BodyOf(outcome)
        /\ R!Rendered(loaded).placeholder = (said.severity = "failed")
        /\ R!Rendered(loaded).marked = (said.severity # "typed")
    BY <1>3, <2>1 DEF R!Rendered
  <2>4. /\ R!Html(loaded).body = R!BodyOf(outcome) /\ R!Html(loaded).severity = said.severity
        /\ R!Html(loaded).placeholder = (said.severity = "failed")
    BY <2>1, <2>3 DEF R!Html
  <2>5. /\ R!Inventoried(loaded).diagnostic = said
        /\ R!Inventoried(loaded).counted = (IF outcome.representation = "structured" THEN "typed" ELSE "legacy")
    BY <1>3, <2>1 DEF R!Inventoried
  <2> HIDE DEF outcome, said
  <2>6. QED
    BY <1>1, <1>3, <2>2, <2>3, <2>4, <2>5 DEF R!RowsReachThePage, R!ShowsWords
<1>4. QED
  BY <1>1, <1>2, <1>3

(* render_diagnostic.hpp:17-23: a display row that does not end in the      *)
(* title reaches the page whatever the families make of the topic, a page  *)
(* without text is said to be empty, and the page, the fragment and the    *)
(* inventory say the same of it.                                           *)
THEOREM RowsAreOnThePage == MCSpec => []RowsReachThePage
<1> DEFINE Held == part = "route" => RouteInv
<1>1. MCInit => Held
  BY RouteStarts DEF MCInit
<1>2. Held /\ [MCNext]_all => Held'
  BY RouteStays, PartsApart
<1>3. Held => RowsReachThePage
  BY RouteInvSuffices DEF RowsReachThePage
<1>4. QED
  BY <1>1, <1>2, <1>3, PTL DEF MCSpec
-----------------------------------------------------------------------------
(* LogicalRecords *)

(* logical.cpp:753-810: no payload is refused, and any lines of references *)
(* are read back as they were written.  The tokens of either walk cover    *)
(* the payload and the lines cover the tokens (DecodedIsVerified); one of  *)
(* the walks stops at each length byte (RelinedReads, LinesDecided), and   *)
(* where the lines begin the payload says itself (LinesUnique).            *)
THEOREM LinesAreReadBack == MCSpec => []LinesReadBack
<1> DEFINE Held == part = "lines" => LinesInv
<1>1. MCInit => Held
  BY LinesStart DEF MCInit
<1>2. Held /\ [MCNext]_all => Held'
  BY LinesStay, PartsApart
<1>3. Held => LinesReadBack
  BY LinesAreBack DEF LinesReadBack
<1>4. QED
  BY <1>1, <1>2, <1>3, PTL DEF MCSpec

(* logical.cpp:389-490, display_lines.cpp:193-235: a display line shows    *)
(* the text of its own references, whatever its neighbours are and         *)
(* whatever its length byte spells, for every dictionary and payload.      *)
(* With its neighbours and alone, a line grows by the same entries         *)
(* (AlikeGoesOn), as there is always something to attach to: ink is never  *)
(* taken back (InkStays).  What follows the line takes back nothing of it  *)
(* but spaces (TextPassed), and every entry stays in the span of its token *)
(* (TokenSpanned).                                                         *)
THEOREM LinesKeepText == MCSpec => []LinesKeepTheirText
<1> DEFINE Held == part = "lines" => LinesInv
<1>1. MCInit => Held
  BY LinesStart DEF MCInit
<1>2. Held /\ [MCNext]_all => Held'
  BY LinesStay, PartsApart
<1>3. Held => LinesKeepTheirText
  BY LinesStayThemselves DEF LinesKeepTheirText
<1>4. QED
  BY <1>1, <1>2, <1>3, PTL DEF MCSpec
-----------------------------------------------------------------------------
(* Contents *)

(* Contents that list their topics in order are drawn as the topics hang   *)
(* together, in every book with any number of topics and of entries: a     *)
(* level is the length of the chain of the parents (ChainStepwise), the    *)
(* path that populate_contents() keeps holds the chain of the entry before *)
(* (DrawnByChains), so it holds the parent at the level of the child.      *)
THEOREM TreesFollowParents == MCSpec => []TreeFollowsParents
<1> DEFINE Held == part = "contents" => ContentsInv
<1>1. MCInit => Held
  BY ContentsStart DEF MCInit
<1>2. Held /\ [MCNext]_all => Held'
  BY ContentsStay, PartsApart
<1>3. Held => TreeFollowsParents
  BY ContentsFollowParents DEF TreeFollowsParents
<1>4. QED
  BY <1>1, <1>2, <1>3, PTL DEF MCSpec
-----------------------------------------------------------------------------
(* Ownership *)

(* A ledger that is accepted draws every run whole or not at all.          *)
THEOREM RunsStayWhole == MCSpec => []RunsOwnedWhole
<1> DEFINE Held == part = "ledger" => LedgerInv
<1>1. MCInit => Held
  BY LedgerStarts DEF MCInit
<1>2. Held /\ [MCNext]_all => Held'
  BY LedgerStays, PartsApart
<1>3. Held => RunsOwnedWhole
  BY LedgerOwnsWhole DEF RunsOwnedWhole
<1>4. QED
  BY <1>1, <1>2, <1>3, PTL DEF MCSpec
=============================================================================
