----------------------------- MODULE BookCache ------------------------------
(***************************************************************************)
(* The opened books of one httpd child (src/apache/mod_geist.cpp): worker  *)
(* threads answer requests for .boo files while the files are replaced.    *)
(* A request stats the file, takes the cached Book if it was opened under  *)
(* the same identity, and otherwise opens the file itself, outside any     *)
(* lock; the Book it publishes is labelled with the identity statted       *)
(* first, which becomes the ETag of the answer.  A page needs the link map *)
(* of its book, harvested from every topic under the book's own mutex and  *)
(* read with no lock afterwards.  A harvest that throws leaves what it     *)
(* emplaced and answers 500; the next page harvests again.                 *)
(*                                                                         *)
(* A version stands for a file's content and, as statted, for its identity *)
(* (mtime, size, ctime, device and inode): a replacement that leaves all   *)
(* of them equal is below this model.  A thread is a worker with one       *)
(* keep-alive connection, so it also stands for that connection's client,  *)
(* whose stored copies outlive the child.                                  *)
(***************************************************************************)
EXTENDS Naturals

CONSTANTS Threads, Paths,
          Books,       \* addresses for Book objects; free ones are reused
          MaxVersion,  \* bound: replacements of one file
          Entries,     \* number of topics in a book's table of contents
          Names,       \* spellings a cross reference can use
          Reports,     \* Reports[v][e]: the names entry e of version v reports
          MaxThrows,   \* bound: harvests that fail
          None

Versions == 1..MaxVersion

ASSUME SizesAssumption ==
  MaxVersion \in Nat \ {0} /\ Entries \in Nat /\ MaxThrows \in Nat
ASSUME ReportsAssumption == Reports \in [Versions -> [1..Entries -> SUBSET Names]]
ASSUME NoneAssumption == None \notin Books /\ None \notin Threads

VARIABLES file,          \* [Paths -> Versions]: what lies on disk
          cache,         \* [Paths -> Books \cup {None}]: cache()
          label,         \* [Books -> 0..MaxVersion]: Book::identity
          content,       \* [Books -> 0..MaxVersion]: what document was parsed from
          links,         \* [Books -> [Names -> 0..Entries]]: Book::links, 0 for absent
          built,         \* [Books -> BOOLEAN]: Book::links_built
          mutex,         \* [Books -> Threads \cup {None}]: holder of links_mutex
          at,            \* [Threads -> Places]
          path, asked,   \* the request of a thread: file and statted identity
          book,          \* [Threads -> Books \cup {None}]: its shared_ptr<Book>
          pos,           \* [Threads -> 1..Entries+1]: next entry of its harvest
          copyLabel,     \* [Threads \X Paths -> 0..MaxVersion]: ETag a client keeps
          copyContent,   \* [Threads \X Paths -> 0..MaxVersion]: and the body it is for
          throws

heap    == <<label, content, links, built, mutex>>
request == <<path, asked>>
clients == <<copyLabel, copyContent>>
vars == <<file, cache, label, content, links, built, mutex, at, path, asked,
          book, pos, copyLabel, copyContent, throws>>

Places == {"idle", "lookup", "open", "store", "serve", "links", "walk", "page"}
InBook == {"serve", "links", "walk", "page"}

(* A Book lives as long as the cache or a request refers to it.            *)
Referenced == {b \in Books : \/ \E p \in Paths : cache[p] = b
                             \/ \E t \in Threads : book[t] = b}

Unused == [n \in Names |-> 0]

Init == /\ file  = [p \in Paths |-> 1]
        /\ cache = [p \in Paths |-> None]
        /\ label = [b \in Books |-> 0] /\ content = [b \in Books |-> 0]
        /\ links = [b \in Books |-> Unused]
        /\ built = [b \in Books |-> FALSE]
        /\ mutex = [b \in Books |-> None]
        /\ at = [t \in Threads |-> "idle"]
        /\ path \in [Threads -> Paths] /\ asked = [t \in Threads |-> 1]
        /\ book = [t \in Threads |-> None] /\ pos = [t \in Threads |-> 1]
        /\ copyLabel   = [c \in Threads \X Paths |-> 0]
        /\ copyContent = [c \in Threads \X Paths |-> 0]
        /\ throws = 0

Goto(t, place) == at' = [at EXCEPT ![t] = place]

(* The handler returns: its shared_ptr goes out of scope.                  *)
Leave(t) == /\ Goto(t, "idle")
            /\ book'  = [book EXCEPT ![t] = None]
            /\ asked' = [asked EXCEPT ![t] = 1]
            /\ pos'   = [pos EXCEPT ![t] = 1]

(* The body and its ETag reach the client.                                 *)
Deliver(t) ==
  /\ Leave(t)
  /\ copyLabel'   = [copyLabel EXCEPT ![<<t, path[t]>>] = label[book[t]]]
  /\ copyContent' = [copyContent EXCEPT ![<<t, path[t]>>] = content[book[t]]]

Replace(p) == /\ file[p] < MaxVersion
              /\ file' = [file EXCEPT ![p] = @ + 1]
              /\ UNCHANGED <<cache, heap, at, request, book, pos, clients, throws>>

Stat(t) == /\ at[t] = "idle"
           /\ \E p \in Paths : /\ path'  = [path EXCEPT ![t] = p]
                               /\ asked' = [asked EXCEPT ![t] = file[p]]
           /\ Goto(t, "lookup")
           /\ UNCHANGED <<file, cache, heap, book, pos, clients, throws>>

(* A mutant: a book is looked up by its path alone. *)
CachedByPath(t) == cache[path[t]] # None
Cached(t) == cache[path[t]] # None /\ label[cache[path[t]]] = asked[t]

Hit(t) == /\ at[t] = "lookup" /\ Cached(t)
          /\ book' = [book EXCEPT ![t] = cache[path[t]]]
          /\ Goto(t, "serve")
          /\ UNCHANGED <<file, cache, heap, request, pos, clients, throws>>

Miss(t) == /\ at[t] = "lookup" /\ ~Cached(t)
           /\ Goto(t, "open")
           /\ UNCHANGED <<file, cache, heap, request, book, pos, clients, throws>>

(* A fresh Book parses whatever lies at the path now.                      *)
Open(t) == /\ at[t] = "open"
           /\ \E b \in Books \ Referenced :
                /\ book'    = [book EXCEPT ![t] = b]
                /\ content' = [content EXCEPT ![b] = file[path[t]]]
                /\ label'   = [label EXCEPT ![b] = 0]
                /\ links'   = [links EXCEPT ![b] = Unused]
                /\ built'   = [built EXCEPT ![b] = FALSE]
                /\ mutex'   = [mutex EXCEPT ![b] = None]
           /\ Goto(t, "store")
           /\ UNCHANGED <<file, cache, request, pos, clients, throws>>

(* Unreadable or gone since the stat: the request is declined.             *)
OpenFails(t) == /\ at[t] = "open"
                /\ Leave(t)
                /\ UNCHANGED <<file, cache, heap, path, clients, throws>>

(* A mutant: the file is statted again once it is parsed. *)
StoreRestatted(t) ==
  /\ at[t] = "store"
  /\ label' = [label EXCEPT ![book[t]] = file[path[t]]]
  /\ cache' = [cache EXCEPT ![path[t]] = book[t]]
  /\ Goto(t, "serve")
  /\ UNCHANGED <<file, content, links, built, mutex, request, book, pos, clients, throws>>

(* The last thread to have missed wins, whatever it finds there.           *)
Store(t) == /\ at[t] = "store"
            /\ label' = [label EXCEPT ![book[t]] = asked[t]]
            /\ cache' = [cache EXCEPT ![path[t]] = book[t]]
            /\ Goto(t, "serve")
            /\ UNCHANGED <<file, content, links, built, mutex, request, book, pos,
                           clients, throws>>

(* If-None-Match carries the ETag of the client's copy: 304.               *)
NotModified(t) == /\ at[t] = "serve"
                  /\ copyLabel[<<t, path[t]>>] = label[book[t]]
                  /\ Leave(t)
                  /\ UNCHANGED <<file, cache, heap, path, clients, throws>>

(* An object or an index without a contents topic needs no link map.       *)
Plain(t) == /\ at[t] = "serve"
            /\ Deliver(t)
            /\ UNCHANGED <<file, cache, heap, path, throws>>

(* 404, 403, HEAD and a client that went away leave no copy.               *)
NoBody(t) == /\ at[t] \in {"serve", "page"}
             /\ Leave(t)
             /\ UNCHANGED <<file, cache, heap, path, clients, throws>>

Page(t) == /\ at[t] = "serve"
           /\ Goto(t, "links")
           /\ UNCHANGED <<file, cache, heap, request, book, pos, clients, throws>>

LinksBuilt(t) == /\ at[t] = "links" /\ mutex[book[t]] = None
                 /\ built[book[t]]
                 /\ Goto(t, "page")
                 /\ UNCHANGED <<file, cache, heap, request, book, pos, clients, throws>>

(* A mutant: the flag is raised before the map is complete and looked at   *)
(* without the mutex.                                                      *)
LinksStartFlagged(t) ==
  /\ at[t] = "links" /\ mutex[book[t]] = None
  /\ ~built[book[t]]
  /\ built' = [built EXCEPT ![book[t]] = TRUE]
  /\ pos'   = [pos EXCEPT ![t] = 1]
  /\ Goto(t, "walk")
  /\ UNCHANGED <<file, cache, label, content, links, mutex, request, book, clients, throws>>

LinksStart(t) ==
  /\ at[t] = "links" /\ mutex[book[t]] = None
  /\ ~built[book[t]]
  /\ mutex' = [mutex EXCEPT ![book[t]] = t]
  /\ pos'   = [pos EXCEPT ![t] = 1]
  /\ Goto(t, "walk")
  /\ UNCHANGED <<file, cache, label, content, links, built, request, book, clients, throws>>


(* map::emplace: an entry that comes first in the contents keeps the name. *)
Emplaced(map, e, names) ==
  [n \in Names |-> IF map[n] = 0 /\ n \in names THEN e ELSE map[n]]

Harvest(t) ==
  /\ at[t] = "walk" /\ pos[t] <= Entries
  /\ links' = [links EXCEPT ![book[t]] =
                 Emplaced(@, pos[t], Reports[content[book[t]]][pos[t]])]
  /\ pos'   = [pos EXCEPT ![t] = @ + 1]
  /\ UNCHANGED <<file, cache, label, content, built, mutex, at, request, book,
                 clients, throws>>

HarvestDone(t) ==
  /\ at[t] = "walk" /\ pos[t] = Entries + 1
  /\ built' = [built EXCEPT ![book[t]] = TRUE]
  /\ mutex' = [mutex EXCEPT ![book[t]] = None]
  /\ pos'   = [pos EXCEPT ![t] = 1]
  /\ Goto(t, "page")
  /\ UNCHANGED <<file, cache, label, content, links, request, book, clients, throws>>

(* An entry fails to render, or an allocation fails among its emplaces:    *)
(* the lock is released, what is in the map stays, the answer is a 500.    *)
(* (An index page has written its head by then: what a client may keep of  *)
(* such an answer is not modelled.)                                        *)
HarvestThrows(t) ==
  /\ at[t] = "walk" /\ pos[t] <= Entries /\ throws < MaxThrows
  /\ \E names \in SUBSET Reports[content[book[t]]][pos[t]] :
       links' = [links EXCEPT ![book[t]] = Emplaced(@, pos[t], names)]
  /\ mutex'  = [mutex EXCEPT ![book[t]] = None]
  /\ Leave(t)
  /\ throws' = throws + 1
  /\ UNCHANGED <<file, cache, label, content, built, path, clients>>

(* The page is rendered; the anchors of the topic are looked up in links.  *)
Rendered(t) == /\ at[t] = "page"
               /\ Deliver(t)
               /\ UNCHANGED <<file, cache, heap, path, throws>>

(* The child is replaced: every book and request of it is gone, what the   *)
(* clients stored is not.                                                  *)
Restart == /\ cache' = [p \in Paths |-> None]
           /\ label' = [b \in Books |-> 0] /\ content' = [b \in Books |-> 0]
           /\ links' = [b \in Books |-> Unused]
           /\ built' = [b \in Books |-> FALSE]
           /\ mutex' = [b \in Books |-> None]
           /\ at'    = [t \in Threads |-> "idle"]
           /\ asked' = [t \in Threads |-> 1]
           /\ book'  = [t \in Threads |-> None]
           /\ pos'   = [t \in Threads |-> 1]
           /\ UNCHANGED <<file, path, clients, throws>>

Step(t) == \/ Hit(t) \/ Miss(t) \/ Open(t) \/ OpenFails(t) \/ Store(t)
           \/ NotModified(t) \/ Plain(t) \/ NoBody(t) \/ Page(t)
           \/ LinksBuilt(t) \/ LinksStart(t) \/ Harvest(t) \/ HarvestDone(t)
           \/ HarvestThrows(t) \/ Rendered(t)

Next == \/ \E p \in Paths : Replace(p)
        \/ \E t \in Threads : Stat(t) \/ Step(t)
        \/ Restart

Spec == Init /\ [][Next]_vars
-----------------------------------------------------------------------------
TypeOK == /\ file \in [Paths -> Versions]
          /\ cache \in [Paths -> Books \cup {None}]
          /\ label \in [Books -> 0..MaxVersion]
          /\ content \in [Books -> 0..MaxVersion]
          /\ links \in [Books -> [Names -> 0..Entries]]
          /\ built \in [Books -> BOOLEAN]
          /\ mutex \in [Books -> Threads \cup {None}]
          /\ at \in [Threads -> Places]
          /\ path \in [Threads -> Paths] /\ asked \in [Threads -> Versions]
          /\ book \in [Threads -> Books \cup {None}]
          /\ pos \in [Threads -> 1..Entries+1]
          /\ copyLabel \in [Threads \X Paths -> 0..MaxVersion]
          /\ copyContent \in [Threads \X Paths -> 0..MaxVersion]
          /\ throws \in 0..MaxThrows

(* "A rebuilt book must not be served from a stale parse"                  *)
(* (mod_geist.cpp:422): the book a request is answered from is at least as *)
(* new as the file was when the request came in, whoever opened it.        *)
NeverStale == \A t \in Threads : at[t] \in InBook => content[book[t]] >= asked[t]

(* An ETag never outruns the body it was sent with: a 304 confirms a copy  *)
(* that is at least as new as the identity it names, also when the file    *)
(* was replaced between stat and open or the child between two requests.   *)
EtagsSound == \A c \in Threads \X Paths : copyContent[c] >= copyLabel[c]

(* A page is rendered over a link map nobody writes to and which names for *)
(* each reference the first entry that reports it, however many harvests   *)
(* failed half way before (mod_geist.cpp:501-507).                         *)
First(v, n, e) == n \in Reports[v][e] /\ \A d \in 1..(e-1) : n \notin Reports[v][d]
Resolved(b, n) ==
  IF links[b][n] = 0 THEN \A e \in 1..Entries : n \notin Reports[content[b]][e]
                     ELSE First(content[b], n, links[b][n])
LinksFinished ==
  \A t \in Threads : at[t] = "page" =>
     /\ \A n \in Names : Resolved(book[t], n)
     /\ \A u \in Threads : book[u] = book[t] => at[u] # "walk"

(* A client that comes back never gets an older book than the one it has.  *)
ClientsMoveForward == [][\A c \in Threads \X Paths : copyContent'[c] >= copyContent[c]]_vars

(* The mutex of a book is only ever held by a request that is harvesting   *)
(* that very book: however a harvest ends, by throwing too, and whichever  *)
(* book later takes the address, no page waits for a harvest that is over. *)
LocksAreHarvests ==
  \A b \in Books : mutex[b] # None => at[mutex[b]] = "walk" /\ book[mutex[b]] = b
=============================================================================
