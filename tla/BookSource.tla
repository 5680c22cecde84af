----------------------------- MODULE BookSource -----------------------------
(***************************************************************************)
(* The book behind one reader window, as its class offers it               *)
(* (win32/book_source.cpp): one thread opens and closes books, and any     *)
(* number of others render topics, decode stored objects and search.       *)
(* What they share is under mutex_; the title and the contents rows are    *)
(* the opening thread's own.                                               *)
(*                                                                         *)
(* Every open makes another BooDocument, named here by its number: a       *)
(* snapshot keeps its document alive, so no two compare equal.             *)
(***************************************************************************)
EXTENDS Naturals

CONSTANTS Callers,    \* threads that serve and search
          Objects,    \* names of stored objects
          Topics,     \* contents entries of every book
          MaxOpened,  \* bound: documents opened
          None

Documents == 1..MaxOpened
Maybe(S)  == S \cup {None}

VARIABLES
  opened,    \* BooDocuments made so far
  document,  \* document_
  links,     \* links_: the document it was harvested from
  objects,   \* objects_: [Objects -> what was decoded]
  rows,      \* contents_: [of: Maybe(Documents), count: 0..Topics]
  title,     \* title_ and information_: the document they describe
  opening,   \* the opening thread: [at, doc]
  call       \* [Callers -> a call in progress]

shared == <<document, links, objects>>
own    == <<opened, rows, title, opening>>
vars   == <<shared, own, call>>

(* A decoded object: of which document, and nothing when decoding threw.   *)
Decoded == [of : Documents, png : BOOLEAN]
Calls   == [at : {"idle", "page", "scan", "decode", "store", "answer"}, doc : Maybe(Documents),
            links : Maybe(Documents), id : Maybe(Objects), data : Maybe(Decoded)]
Resting == [at |-> "idle", doc |-> None, links |-> None, id |-> None, data |-> None]
NoRows  == [of |-> None, count |-> 0]

Init == /\ opened = 0
        /\ document = None /\ links = None
        /\ objects = [o \in Objects |-> None]
        /\ rows = NoRows /\ title = None
        /\ opening = [at |-> "idle", doc |-> None]
        /\ call = [c \in Callers |-> Resting]
-----------------------------------------------------------------------------
(* open(): a file that is no book leaves everything as it was.             *)
Open == /\ opening.at = "idle" /\ opened < MaxOpened
        /\ opened' = opened + 1
        /\ \/ opening' = [at |-> "close", doc |-> opened']
           \/ UNCHANGED opening
        /\ UNCHANGED <<shared, rows, title, call>>

(* close(), on its own or from open().                                     *)
Close == /\ opening.at = "idle"
         /\ opening' = [at |-> "close", doc |-> None]
         /\ UNCHANGED <<shared, opened, rows, title, call>>

(* Its part under the mutex, and then the fields of the opening thread.    *)
Drop == /\ opening.at = "close"
        /\ document' = None /\ links' = None
        /\ objects' = [o \in Objects |-> None]
        /\ opening' = [opening EXCEPT !.at = "clear"]
        /\ UNCHANGED <<opened, rows, title, call>>

Clear == /\ opening.at = "clear"
         /\ rows' = NoRows /\ title' = None
         /\ opening' = IF opening.doc = None THEN [opening EXCEPT !.at = "idle"]
                       ELSE [opening EXCEPT !.at = "harvest"]
         /\ UNCHANGED <<shared, opened, call>>

(* One contents entry: its row, and the ids its topic reports.             *)
Harvest == /\ opening.at = "harvest" /\ rows.count < Topics
           /\ rows' = [of |-> opening.doc, count |-> rows.count + 1]
           /\ UNCHANGED <<shared, opened, title, opening, call>>

(* A topic that cannot be lowered ends the open without a book.            *)
HarvestThrows == /\ opening.at = "harvest" /\ rows.count > 0
                 /\ rows' = NoRows
                 /\ opening' = [at |-> "idle", doc |-> None]
                 /\ UNCHANGED <<shared, opened, title, call>>

Describe == /\ opening.at = "harvest" /\ rows.count = Topics
            /\ title' = opening.doc
            /\ opening' = [opening EXCEPT !.at = "publish"]
            /\ UNCHANGED <<shared, opened, rows, call>>

Publish == /\ opening.at = "publish"
           /\ document' = opening.doc /\ links' = opening.doc
           /\ opening' = [at |-> "idle", doc |-> None]
           /\ UNCHANGED <<objects, opened, rows, title, call>>
-----------------------------------------------------------------------------
Answer(c) == call' = [call EXCEPT ![c] = Resting]

(* topic_page() takes the document and its link map under one lock; the    *)
(* page resolves its references with what it took.                         *)
TopicPage(c) == /\ call[c].at = "idle" /\ document # None
                /\ call' = [call EXCEPT ![c] = [Resting EXCEPT !.at = "page",
                                                  !.doc = document, !.links = links]]
                /\ UNCHANGED <<shared, own>>

(* search() scans every topic of its snapshot.                             *)
Search(c) == /\ call[c].at = "idle" /\ document # None
             /\ call' = [call EXCEPT ![c] = [Resting EXCEPT !.at = "scan", !.doc = document]]
             /\ UNCHANGED <<shared, own>>

(* object_png(): what was decoded, or could not be, is not decoded again.  *)
ObjectPng(c) ==
  /\ call[c].at = "idle" /\ document # None
  /\ \E o \in Objects :
       call' = [call EXCEPT ![c] = [Resting EXCEPT !.doc = document, !.id = o,
                  !.at = IF objects[o] = None THEN "decode" ELSE "answer", !.data = objects[o]]]
  /\ UNCHANGED <<shared, own>>

(* Decoding takes no lock, and may throw.                                  *)
Decode(c) == /\ call[c].at = "decode"
             /\ \E png \in BOOLEAN :
                  call' = [call EXCEPT ![c].at = "store",
                                       ![c].data = [of |-> call[c].doc, png |-> png]]
             /\ UNCHANGED <<shared, own>>

(* A mutant: what was decoded is kept whatever is open by now. *)
StoreAlways(c) ==
  /\ call[c].at = "store"
  /\ objects' = [objects EXCEPT ![call[c].id] = call[c].data]
  /\ call' = [call EXCEPT ![c].at = "answer"]
  /\ UNCHANGED <<document, links, own>>

Store(c) == /\ call[c].at = "store"
            /\ objects' = IF call[c].doc = document
                          THEN [objects EXCEPT ![call[c].id] = call[c].data] ELSE objects
            /\ call' = [call EXCEPT ![c].at = "answer"]
            /\ UNCHANGED <<document, links, own>>

Return(c) == /\ call[c].at \in {"page", "scan", "answer"}
             /\ Answer(c)
             /\ UNCHANGED <<shared, own>>

Next == \/ Open \/ Close \/ Drop \/ Clear \/ Harvest \/ HarvestThrows \/ Describe \/ Publish
        \/ \E c \in Callers : \/ TopicPage(c) \/ Search(c) \/ ObjectPng(c)
                              \/ Decode(c) \/ Store(c) \/ Return(c)

Spec == Init /\ [][Next]_vars
-----------------------------------------------------------------------------
TypeOK == /\ opened \in 0..MaxOpened
          /\ document \in Maybe(Documents) /\ links \in Maybe(Documents)
          /\ objects \in [Objects -> Maybe(Decoded)]
          /\ rows \in [of : Maybe(Documents), count : 0..Topics]
          /\ title \in Maybe(Documents)
          /\ opening \in [at : {"idle", "close", "clear", "harvest", "publish"},
                          doc : Maybe(Documents)]
          /\ call \in [Callers -> Calls]

(* A page resolves its references through the link map of its own book,    *)
(* although books are opened and closed while it renders                   *)
(* (book_source.cpp:266-272).                                              *)
PagesOfOneBook == \A c \in Callers : call[c].at = "page" => call[c].links = call[c].doc

(* A picture that is answered, now or from the cache later on, was decoded *)
(* from the book the caller asked (book_source.cpp:329).                   *)
ObjectsOfTheBook ==
  /\ \A o \in Objects : objects[o] # None => objects[o].of = document
  /\ \A c \in Callers : call[c].at = "answer" => call[c].data.of = call[c].doc

(* Between two calls of the opening thread its tree and its title are of   *)
(* the book it serves and list all of it, or are empty when it serves none *)
(* (book_source.cpp:190-239).                                              *)
TreeOfTheBook ==
  opening.at = "idle" =>
    /\ title = document /\ links = document
    /\ rows = IF document = None THEN NoRows ELSE [of |-> document, count |-> Topics]

(* All that a source shows or serves is of the one book it has open.       *)
OfItsBook == PagesOfOneBook /\ ObjectsOfTheBook /\ TreeOfTheBook
=============================================================================
