----------------------------- MODULE Site_proofs -----------------------------
(***************************************************************************)
(* Proofs about the cache of books of the Apache module, for any threads,  *)
(* paths, addresses, versions and contents of a book, and about the parts  *)
(* that MCSite sets side by side with it, for all layers of settings and   *)
(* any number of replacements.                                             *)
(*   BookCache     the inductive invariant says what a Book may be whoever *)
(*                 holds it (Sound, Truthful, Complete), what a request    *)
(*                 knows of the Book in its hand and of the file on disk   *)
(*                 (Holding, Asking, Walking, Paging), and that neither    *)
(*                 the cache nor a client ever has a body newer than the   *)
(*                 file (Kept, Copied): that last part is what makes the   *)
(*                 next stat of a client name at least the version it      *)
(*                 already has                                             *)
(*   SiteRequests  merging the layers one by one is what the closest of    *)
(*                 them says (SettingsAreClosest): the merged settings are *)
(*                 a recursive function, whose value is shown by its least *)
(*                 counterexample; then what each handler has passed on    *)
(*   MachineApi    what the scan and each opening found, against the file  *)
(***************************************************************************)
EXTENDS MCSite, FiniteSetTheorems, SequenceTheorems, WellFoundedInduction, TLAPS
-----------------------------------------------------------------------------
(* BookCache *)

(* The label of a Book never outruns what it was parsed from.              *)
Sound(b) == label[b] <= content[b]

(* Every link in the map, finished or not, is to the first entry.          *)
Truthful(b) ==
  \A n \in Names : links[b][n] # 0 => First(content[b], n, links[b][n])

(* A map that is flagged has every name an entry reports.                  *)
Complete(b) ==
  built[b] => \A n \in Names : links[b][n] = 0 =>
                 \A e \in 1..Entries : n \notin Reports[content[b]][e]

Holding(t) ==
  at[t] \in {"store", "serve", "links", "walk", "page"} =>
    /\ book[t] \in Books
    /\ asked[t] <= content[book[t]]
    /\ content[book[t]] <= file[path[t]]

Asking(t) == /\ asked[t] <= file[path[t]]
             /\ at[t] # "idle" => copyContent[<<t, path[t]>>] <= asked[t]

(* A harvest has the mutex and the names of the entries it is past.        *)
Walking(t) ==
  at[t] = "walk" =>
    /\ mutex[book[t]] = t
    /\ ~built[book[t]]
    /\ \A e \in 1..(pos[t] - 1) : \A n \in Names :
         n \in Reports[content[book[t]]][e] => links[book[t]][n] # 0

Paging(t) == at[t] = "page" => built[book[t]]

Kept(p) == cache[p] # None => content[cache[p]] <= file[p]

Copied(c) == copyLabel[c] <= copyContent[c] /\ copyContent[c] <= file[c[2]]

IInv == /\ TypeOK
        /\ \A b \in Books : Sound(b)
        /\ \A b \in Books : Truthful(b)
        /\ \A b \in Books : Complete(b)
        /\ \A t \in Threads : Holding(t)
        /\ \A t \in Threads : Asking(t)
        /\ \A t \in Threads : Walking(t)
        /\ \A t \in Threads : Paging(t)
        /\ \A p \in Paths : Kept(p)
        /\ \A c \in Threads \X Paths : Copied(c)

-----------------------------------------------------------------------------
(* What an emplace leaves in a map: nothing that was there changes, and    *)
(* what is new names the entry of the emplace.                             *)
LEMMA EmplacedKeeps ==
  ASSUME NEW map \in [Names -> 0..Entries], NEW e \in 1..Entries,
         NEW names \in SUBSET Names
  PROVE  /\ Emplaced(map, e, names) \in [Names -> 0..Entries]
         /\ \A n \in Names : map[n] # 0 => Emplaced(map, e, names)[n] = map[n]
         /\ \A n \in names : Emplaced(map, e, names)[n] # 0
         /\ \A n \in Names : map[n] = 0 /\ Emplaced(map, e, names)[n] # 0
                               => n \in names /\ Emplaced(map, e, names)[n] = e
  BY SizesAssumption DEF Emplaced

(* The entries a harvest is past report only names that are in the map, so *)
(* a name the next entry adds is reported by none before it.               *)
LEMMA EmplacedFirst ==
  ASSUME NEW v \in Versions, NEW e \in 1..Entries,
         NEW map \in [Names -> 0..Entries], NEW names \in SUBSET Reports[v][e],
         \A n \in Names : map[n] # 0 => First(v, n, map[n]),
         \A d \in 1..(e - 1) : \A n \in Names : n \in Reports[v][d] => map[n] # 0
  PROVE  \A n \in Names : Emplaced(map, e, names)[n] # 0
                            => First(v, n, Emplaced(map, e, names)[n])
<1>1. names \in SUBSET Names
  BY ReportsAssumption
<1>2. SUFFICES ASSUME NEW n \in Names, Emplaced(map, e, names)[n] # 0
               PROVE  First(v, n, Emplaced(map, e, names)[n])
  OBVIOUS
<1>3. CASE map[n] # 0
  BY <1>1, <1>3, EmplacedKeeps
<1>4. CASE map[n] = 0
  <2>1. n \in names /\ Emplaced(map, e, names)[n] = e
    BY <1>1, <1>2, <1>4, EmplacedKeeps
  <2>2. \A d \in 1..(e - 1) : n \notin Reports[v][d]
    BY <1>4
  <2>3. QED
    BY <2>1, <2>2 DEF First
<1>5. QED
  BY <1>3, <1>4

-----------------------------------------------------------------------------
LEMMA Starts == Init => IInv
<1>1. SUFFICES ASSUME Init PROVE IInv
  OBVIOUS
<1>2. TypeOK
  BY <1>1, SizesAssumption DEF Init, TypeOK, Versions, Unused, Places
<1>3. QED
  BY <1>1, <1>2, SizesAssumption
     DEF Init, IInv, TypeOK, Versions, Unused, Sound, Truthful, Complete, Holding,
            Asking,
         Walking, Paging, Kept, Copied

(* A harvest in progress may emplace any names of its entry.               *)
LEMMA Harvesting ==
  ASSUME IInv, NEW t \in Threads, at[t] = "walk", pos[t] <= Entries,
         NEW names \in SUBSET Reports[content[book[t]]][pos[t]]
  PROVE  LET b == book[t]
             m == Emplaced(links[b], pos[t], names)
         IN  /\ b \in Books /\ content[b] \in Versions /\ pos[t] \in 1..Entries
             /\ names \in SUBSET Names
             /\ Reports[content[b]][pos[t]] \in SUBSET Names
             /\ m \in [Names -> 0..Entries]
             /\ \A n \in Names : m[n] # 0 => First(content[b], n, m[n])
             /\ \A n \in Names : links[b][n] # 0 => m[n] = links[b][n]
             /\ \A n \in names : m[n] # 0
<1>1. book[t] \in Books /\ asked[t] <= content[book[t]]
  BY DEF IInv, Holding
<1>2. content[book[t]] \in Versions /\ pos[t] \in 1..Entries
  BY <1>1, SizesAssumption DEF IInv, TypeOK, Versions
<1>3. names \in SUBSET Names /\ Reports[content[book[t]]][pos[t]] \in SUBSET Names
  BY <1>2, ReportsAssumption
<1>4. links[book[t]] \in [Names -> 0..Entries]
  BY <1>1 DEF IInv, TypeOK
<1>5. \A n \in Names : links[book[t]][n] # 0 => First(content[book[t]], n, links[book[t]][n])
  BY <1>1 DEF IInv, Truthful
<1>6. \A d \in 1..(pos[t] - 1) : \A n \in Names :
        n \in Reports[content[book[t]]][d] => links[book[t]][n] # 0
  BY DEF IInv, Walking
<1>7. \A n \in Names : Emplaced(links[book[t]], pos[t], names)[n] # 0
        => First(content[book[t]], n, Emplaced(links[book[t]], pos[t], names)[n])
  BY <1>2, <1>4, <1>5, <1>6, EmplacedFirst
<1>8. QED
  BY <1>1, <1>2, <1>3, <1>4, <1>7, EmplacedKeeps

LEMMA ReplaceKeeps == ASSUME IInv, NEW p \in Paths, Replace(p) PROVE IInv'
<1>1. TypeOK'
  BY SizesAssumption
     DEF Replace, heap, request, clients, IInv, TypeOK, Versions, Places, Holding
<1>2. /\ \A b \in Books : Sound(b)'
      /\ \A b \in Books : Truthful(b)'
      /\ \A b \in Books : Complete(b)'
      /\ \A t \in Threads : Walking(t)'
      /\ \A t \in Threads : Paging(t)'
  BY DEF Replace, heap, request, clients, IInv, Sound, Truthful, Complete, Walking,
         Paging, First
<1>3. \A u \in Threads : Holding(u)'
  <2>1. SUFFICES ASSUME NEW u \in Threads PROVE Holding(u)'
    OBVIOUS
  <2>2. QED
    BY <2>1, NoneAssumption, SizesAssumption
       DEF Replace, heap, request, clients, IInv, TypeOK, Versions, Places, Holding
<1>4. \A u \in Threads : Asking(u)'
  <2>1. SUFFICES ASSUME NEW u \in Threads PROVE Asking(u)'
    OBVIOUS
  <2>2. QED
    BY <2>1, NoneAssumption, SizesAssumption
       DEF Replace, heap, request, clients, IInv, TypeOK, Versions, Places, Asking
<1>5. \A q \in Paths : Kept(q)'
  <2>1. SUFFICES ASSUME NEW q \in Paths PROVE Kept(q)'
    OBVIOUS
  <2>2. QED
    BY <2>1, NoneAssumption, SizesAssumption
       DEF Replace, heap, request, clients, IInv, TypeOK, Versions, Places, Kept
<1>6. \A c \in Threads \X Paths : Copied(c)'
  <2>1. SUFFICES ASSUME NEW c \in Threads \X Paths PROVE Copied(c)'
    OBVIOUS
  <2>2. QED
    BY <2>1, NoneAssumption, SizesAssumption
       DEF Replace, heap, request, clients, IInv, TypeOK, Versions, Places, Copied
<1>7. QED
  BY <1>1, <1>2, <1>3, <1>4, <1>5, <1>6 DEF IInv

LEMMA StatKeeps == ASSUME IInv, NEW t \in Threads, Stat(t) PROVE IInv'
<1>1. TypeOK'
  BY SizesAssumption
     DEF Stat, Goto, heap, request, clients, IInv, TypeOK, Versions, Places, Holding
<1>2. /\ \A b \in Books : Sound(b)'
      /\ \A b \in Books : Truthful(b)'
      /\ \A b \in Books : Complete(b)'
      /\ \A p \in Paths : Kept(p)'
      /\ \A c \in Threads \X Paths : Copied(c)'
  BY DEF Stat, heap, request, clients, IInv, Sound, Truthful, Complete, Kept, Copied,
         First
<1>3. \A u \in Threads : Holding(u)'
  <2>1. SUFFICES ASSUME NEW u \in Threads PROVE Holding(u)'
    OBVIOUS
  <2>2. QED
    BY <2>1, NoneAssumption, SizesAssumption
       DEF Stat, Goto, heap, request, clients, IInv, TypeOK, Versions, Places, Holding
<1>4. \A u \in Threads : Asking(u)'
  <2>1. SUFFICES ASSUME NEW u \in Threads PROVE Asking(u)'
    OBVIOUS
  <2>2. QED
    BY <2>1, NoneAssumption, SizesAssumption
       DEF Stat, Goto, heap, request, clients, IInv, TypeOK, Versions, Places, Asking,
              Copied
<1>5. \A u \in Threads : Walking(u)'
  <2>1. SUFFICES ASSUME NEW u \in Threads PROVE Walking(u)'
    OBVIOUS
  <2>2. QED
    BY <2>1, NoneAssumption, SizesAssumption
       DEF Stat, Goto, heap, request, clients, IInv, TypeOK, Versions, Places, Walking,
              Holding
<1>6. \A u \in Threads : Paging(u)'
  <2>1. SUFFICES ASSUME NEW u \in Threads PROVE Paging(u)'
    OBVIOUS
  <2>2. QED
    BY <2>1, NoneAssumption, SizesAssumption
       DEF Stat, Goto, heap, request, clients, IInv, TypeOK, Versions, Places, Paging,
              Holding
<1>7. QED
  BY <1>1, <1>2, <1>3, <1>4, <1>5, <1>6 DEF IInv

LEMMA HitKeeps == ASSUME IInv, NEW t \in Threads, Hit(t) PROVE IInv'
<1>1. TypeOK'
  BY SizesAssumption
     DEF Hit, Goto, Cached, heap, request, clients, IInv, TypeOK, Versions, Places,
         Holding
<1>2. /\ \A b \in Books : Sound(b)'
      /\ \A b \in Books : Truthful(b)'
      /\ \A b \in Books : Complete(b)'
      /\ \A p \in Paths : Kept(p)'
      /\ \A c \in Threads \X Paths : Copied(c)'
  BY DEF Hit, heap, request, clients, IInv, Sound, Truthful, Complete, Kept, Copied,
         First
<1>3. \A u \in Threads : Holding(u)'
  <2>1. SUFFICES ASSUME NEW u \in Threads PROVE Holding(u)'
    OBVIOUS
  <2>2. QED
    BY <2>1, NoneAssumption, SizesAssumption
       DEF Hit, Goto, Cached, heap, request, clients, IInv, TypeOK, Versions, Places,
              Holding, Sound, Kept
<1>4. \A u \in Threads : Asking(u)'
  <2>1. SUFFICES ASSUME NEW u \in Threads PROVE Asking(u)'
    OBVIOUS
  <2>2. QED
    BY <2>1, NoneAssumption, SizesAssumption
       DEF Hit, Goto, Cached, heap, request, clients, IInv, TypeOK, Versions, Places,
              Asking
<1>5. \A u \in Threads : Walking(u)'
  <2>1. SUFFICES ASSUME NEW u \in Threads PROVE Walking(u)'
    OBVIOUS
  <2>2. QED
    BY <2>1, NoneAssumption, SizesAssumption
       DEF Hit, Goto, Cached, heap, request, clients, IInv, TypeOK, Versions, Places,
              Walking, Holding
<1>6. \A u \in Threads : Paging(u)'
  <2>1. SUFFICES ASSUME NEW u \in Threads PROVE Paging(u)'
    OBVIOUS
  <2>2. QED
    BY <2>1, NoneAssumption, SizesAssumption
       DEF Hit, Goto, Cached, heap, request, clients, IInv, TypeOK, Versions, Places,
              Paging, Holding
<1>7. QED
  BY <1>1, <1>2, <1>3, <1>4, <1>5, <1>6 DEF IInv

LEMMA MissKeeps == ASSUME IInv, NEW t \in Threads, Miss(t) PROVE IInv'
<1>1. TypeOK'
  BY SizesAssumption
     DEF Miss, Goto, Cached, heap, request, clients, IInv, TypeOK, Versions, Places,
         Holding
<1>2. /\ \A b \in Books : Sound(b)'
      /\ \A b \in Books : Truthful(b)'
      /\ \A b \in Books : Complete(b)'
      /\ \A p \in Paths : Kept(p)'
      /\ \A c \in Threads \X Paths : Copied(c)'
  BY DEF Miss, heap, request, clients, IInv, Sound, Truthful, Complete, Kept, Copied,
         First
<1>3. \A u \in Threads : Holding(u)'
  <2>1. SUFFICES ASSUME NEW u \in Threads PROVE Holding(u)'
    OBVIOUS
  <2>2. QED
    BY <2>1, NoneAssumption, SizesAssumption
       DEF Miss, Goto, Cached, heap, request, clients, IInv, TypeOK, Versions, Places,
              Holding
<1>4. \A u \in Threads : Asking(u)'
  <2>1. SUFFICES ASSUME NEW u \in Threads PROVE Asking(u)'
    OBVIOUS
  <2>2. QED
    BY <2>1, NoneAssumption, SizesAssumption
       DEF Miss, Goto, Cached, heap, request, clients, IInv, TypeOK, Versions, Places,
              Asking
<1>5. \A u \in Threads : Walking(u)'
  <2>1. SUFFICES ASSUME NEW u \in Threads PROVE Walking(u)'
    OBVIOUS
  <2>2. QED
    BY <2>1, NoneAssumption, SizesAssumption
       DEF Miss, Goto, Cached, heap, request, clients, IInv, TypeOK, Versions, Places,
              Walking, Holding
<1>6. \A u \in Threads : Paging(u)'
  <2>1. SUFFICES ASSUME NEW u \in Threads PROVE Paging(u)'
    OBVIOUS
  <2>2. QED
    BY <2>1, NoneAssumption, SizesAssumption
       DEF Miss, Goto, Cached, heap, request, clients, IInv, TypeOK, Versions, Places,
              Paging, Holding
<1>7. QED
  BY <1>1, <1>2, <1>3, <1>4, <1>5, <1>6 DEF IInv

LEMMA OpenKeeps == ASSUME IInv, NEW t \in Threads, Open(t) PROVE IInv'
<1>1. TypeOK'
  BY SizesAssumption
     DEF Open, Goto, heap, request, clients, IInv, TypeOK, Versions, Places, Holding,
         Unused
<1>2. \A c \in Threads \X Paths : Copied(c)'
  BY DEF Open, heap, request, clients, IInv, Copied
<1>3. \A b \in Books : Sound(b)'
  <2>1. SUFFICES ASSUME NEW b \in Books PROVE Sound(b)'
    OBVIOUS
  <2>2. QED
    BY <2>1, NoneAssumption, SizesAssumption
       DEF Open, Goto, heap, request, clients, IInv, TypeOK, Versions, Places, Sound
<1>4. \A b \in Books : Truthful(b)'
  <2>1. SUFFICES ASSUME NEW b \in Books PROVE Truthful(b)'
    OBVIOUS
  <2>2. QED
    BY <2>1, NoneAssumption, SizesAssumption
       DEF Open, Goto, heap, request, clients, IInv, TypeOK, Versions, Places,
              Truthful, First, Unused
<1>5. \A b \in Books : Complete(b)'
  <2>1. SUFFICES ASSUME NEW b \in Books PROVE Complete(b)'
    OBVIOUS
  <2>2. QED
    BY <2>1, NoneAssumption, SizesAssumption
       DEF Open, Goto, heap, request, clients, IInv, TypeOK, Versions, Places, Complete
<1>6. \A u \in Threads : Holding(u)'
  <2>1. PICK b \in Books \ Referenced :
               /\ book'    = [book EXCEPT ![t] = b]
               /\ content' = [content EXCEPT ![b] = file[path[t]]]
    BY DEF Open
  <2>2. SUFFICES ASSUME NEW u \in Threads PROVE Holding(u)'
    OBVIOUS
  <2>3. UNCHANGED <<file, path, asked>> /\ at' = [at EXCEPT ![t] = "store"]
    BY DEF Open, Goto, request
  <2>4. CASE u = t
    <3>1. book'[t] = b /\ content'[b] = file[path[t]]
      BY <2>1 DEF IInv, TypeOK
    <3>2. asked[t] <= file[path[t]]
      BY DEF IInv, Asking
    <3>3. file[path[t]] <= file[path[t]]
      BY DEF IInv, TypeOK, Versions
    <3>4. QED
      BY <2>1, <2>3, <2>4, <3>1, <3>2, <3>3 DEF Holding
  <2>5. CASE u # t
    <3>1. book'[u] = book[u] /\ at'[u] = at[u]
      BY <2>1, <2>3, <2>5 DEF IInv, TypeOK
    <3>2. content'[book[u]] = content[book[u]] \/ book[u] \notin Books
      BY <2>1 DEF Referenced, IInv, TypeOK
    <3>3. QED
      BY <2>3, <3>1, <3>2 DEF IInv, Holding
  <2>6. QED
    BY <2>4, <2>5
<1>7. \A u \in Threads : Asking(u)'
  <2>1. SUFFICES ASSUME NEW u \in Threads PROVE Asking(u)'
    OBVIOUS
  <2>2. QED
    BY <2>1, NoneAssumption, SizesAssumption
       DEF Open, Goto, heap, request, clients, IInv, TypeOK, Versions, Places, Asking
<1>8. \A u \in Threads : Walking(u)'
  <2>1. SUFFICES ASSUME NEW u \in Threads PROVE Walking(u)'
    OBVIOUS
  <2>2. QED
    BY <2>1, NoneAssumption, SizesAssumption
       DEF Open, Goto, heap, request, clients, IInv, TypeOK, Versions, Places, Walking,
              Holding, Referenced
<1>9. \A u \in Threads : Paging(u)'
  <2>1. SUFFICES ASSUME NEW u \in Threads PROVE Paging(u)'
    OBVIOUS
  <2>2. QED
    BY <2>1, NoneAssumption, SizesAssumption
       DEF Open, Goto, heap, request, clients, IInv, TypeOK, Versions, Places, Paging,
              Holding, Referenced
<1>10. \A q \in Paths : Kept(q)'
  <2>1. SUFFICES ASSUME NEW q \in Paths PROVE Kept(q)'
    OBVIOUS
  <2>2. QED
    BY <2>1, NoneAssumption, SizesAssumption
       DEF Open, Goto, heap, request, clients, IInv, TypeOK, Versions, Places, Kept,
              Referenced
<1>11. QED
  BY <1>1, <1>2, <1>3, <1>4, <1>5, <1>6, <1>7, <1>8, <1>9, <1>10 DEF IInv

LEMMA OpenFailsKeeps == ASSUME IInv, NEW t \in Threads, OpenFails(t) PROVE IInv'
<1>1. TypeOK'
  BY SizesAssumption
     DEF OpenFails, Goto, Leave, heap, request, clients, IInv, TypeOK, Versions,
         Places, Holding
<1>2. /\ \A b \in Books : Sound(b)'
      /\ \A b \in Books : Truthful(b)'
      /\ \A b \in Books : Complete(b)'
      /\ \A p \in Paths : Kept(p)'
      /\ \A c \in Threads \X Paths : Copied(c)'
  BY DEF OpenFails, heap, request, clients, IInv, Sound, Truthful, Complete, Kept,
         Copied, First
<1>3. \A u \in Threads : Holding(u)'
  <2>1. SUFFICES ASSUME NEW u \in Threads PROVE Holding(u)'
    OBVIOUS
  <2>2. QED
    BY <2>1, NoneAssumption, SizesAssumption
       DEF OpenFails, Goto, Leave, heap, request, clients, IInv, TypeOK, Versions,
              Places, Holding
<1>4. \A u \in Threads : Asking(u)'
  <2>1. SUFFICES ASSUME NEW u \in Threads PROVE Asking(u)'
    OBVIOUS
  <2>2. QED
    BY <2>1, NoneAssumption, SizesAssumption
       DEF OpenFails, Goto, Leave, heap, request, clients, IInv, TypeOK, Versions,
              Places, Asking
<1>5. \A u \in Threads : Walking(u)'
  <2>1. SUFFICES ASSUME NEW u \in Threads PROVE Walking(u)'
    OBVIOUS
  <2>2. QED
    BY <2>1, NoneAssumption, SizesAssumption
       DEF OpenFails, Goto, Leave, heap, request, clients, IInv, TypeOK, Versions,
              Places, Walking, Holding
<1>6. \A u \in Threads : Paging(u)'
  <2>1. SUFFICES ASSUME NEW u \in Threads PROVE Paging(u)'
    OBVIOUS
  <2>2. QED
    BY <2>1, NoneAssumption, SizesAssumption
       DEF OpenFails, Goto, Leave, heap, request, clients, IInv, TypeOK, Versions,
              Places, Paging, Holding
<1>7. QED
  BY <1>1, <1>2, <1>3, <1>4, <1>5, <1>6 DEF IInv

LEMMA StoreKeeps == ASSUME IInv, NEW t \in Threads, Store(t) PROVE IInv'
<1>1. TypeOK'
  BY SizesAssumption
     DEF Store, Goto, heap, request, clients, IInv, TypeOK, Versions, Places, Holding
<1>2. /\ \A b \in Books : Truthful(b)'
      /\ \A b \in Books : Complete(b)'
      /\ \A c \in Threads \X Paths : Copied(c)'
  BY DEF Store, heap, request, clients, IInv, Truthful, Complete, Copied, First
<1>3. \A b \in Books : Sound(b)'
  <2>1. SUFFICES ASSUME NEW b \in Books PROVE Sound(b)'
    OBVIOUS
  <2>2. QED
    BY <2>1, NoneAssumption, SizesAssumption
       DEF Store, Goto, heap, request, clients, IInv, TypeOK, Versions, Places, Sound,
              Holding
<1>4. \A u \in Threads : Holding(u)'
  <2>1. SUFFICES ASSUME NEW u \in Threads PROVE Holding(u)'
    OBVIOUS
  <2>2. QED
    BY <2>1, NoneAssumption, SizesAssumption
       DEF Store, Goto, heap, request, clients, IInv, TypeOK, Versions, Places, Holding
<1>5. \A u \in Threads : Asking(u)'
  <2>1. SUFFICES ASSUME NEW u \in Threads PROVE Asking(u)'
    OBVIOUS
  <2>2. QED
    BY <2>1, NoneAssumption, SizesAssumption
       DEF Store, Goto, heap, request, clients, IInv, TypeOK, Versions, Places, Asking
<1>6. \A u \in Threads : Walking(u)'
  <2>1. SUFFICES ASSUME NEW u \in Threads PROVE Walking(u)'
    OBVIOUS
  <2>2. QED
    BY <2>1, NoneAssumption, SizesAssumption
       DEF Store, Goto, heap, request, clients, IInv, TypeOK, Versions, Places,
              Walking, Holding
<1>7. \A u \in Threads : Paging(u)'
  <2>1. SUFFICES ASSUME NEW u \in Threads PROVE Paging(u)'
    OBVIOUS
  <2>2. QED
    BY <2>1, NoneAssumption, SizesAssumption
       DEF Store, Goto, heap, request, clients, IInv, TypeOK, Versions, Places, Paging,
              Holding
<1>8. \A q \in Paths : Kept(q)'
  <2>1. SUFFICES ASSUME NEW q \in Paths PROVE Kept(q)'
    OBVIOUS
  <2>2. QED
    BY <2>1, NoneAssumption, SizesAssumption
       DEF Store, Goto, heap, request, clients, IInv, TypeOK, Versions, Places, Kept,
              Holding
<1>9. QED
  BY <1>1, <1>2, <1>3, <1>4, <1>5, <1>6, <1>7, <1>8 DEF IInv

LEMMA NotModifiedKeeps == ASSUME IInv, NEW t \in Threads, NotModified(t) PROVE IInv'
<1>1. TypeOK'
  BY SizesAssumption
     DEF NotModified, Goto, Leave, heap, request, clients, IInv, TypeOK, Versions,
         Places, Holding
<1>2. /\ \A b \in Books : Sound(b)'
      /\ \A b \in Books : Truthful(b)'
      /\ \A b \in Books : Complete(b)'
      /\ \A p \in Paths : Kept(p)'
      /\ \A c \in Threads \X Paths : Copied(c)'
  BY DEF NotModified, heap, request, clients, IInv, Sound, Truthful, Complete, Kept,
         Copied, First
<1>3. \A u \in Threads : Holding(u)'
  <2>1. SUFFICES ASSUME NEW u \in Threads PROVE Holding(u)'
    OBVIOUS
  <2>2. QED
    BY <2>1, NoneAssumption, SizesAssumption
       DEF NotModified, Goto, Leave, heap, request, clients, IInv, TypeOK, Versions,
              Places, Holding
<1>4. \A u \in Threads : Asking(u)'
  <2>1. SUFFICES ASSUME NEW u \in Threads PROVE Asking(u)'
    OBVIOUS
  <2>2. QED
    BY <2>1, NoneAssumption, SizesAssumption
       DEF NotModified, Goto, Leave, heap, request, clients, IInv, TypeOK, Versions,
              Places, Asking
<1>5. \A u \in Threads : Walking(u)'
  <2>1. SUFFICES ASSUME NEW u \in Threads PROVE Walking(u)'
    OBVIOUS
  <2>2. QED
    BY <2>1, NoneAssumption, SizesAssumption
       DEF NotModified, Goto, Leave, heap, request, clients, IInv, TypeOK, Versions,
              Places, Walking, Holding
<1>6. \A u \in Threads : Paging(u)'
  <2>1. SUFFICES ASSUME NEW u \in Threads PROVE Paging(u)'
    OBVIOUS
  <2>2. QED
    BY <2>1, NoneAssumption, SizesAssumption
       DEF NotModified, Goto, Leave, heap, request, clients, IInv, TypeOK, Versions,
              Places, Paging, Holding
<1>7. QED
  BY <1>1, <1>2, <1>3, <1>4, <1>5, <1>6 DEF IInv

LEMMA PlainKeeps == ASSUME IInv, NEW t \in Threads, Plain(t) PROVE IInv'
<1>1. TypeOK'
  BY SizesAssumption
     DEF Plain, Goto, Leave, Deliver, heap, request, clients, IInv, TypeOK, Versions,
         Places, Holding
<1>2. /\ \A b \in Books : Sound(b)'
      /\ \A b \in Books : Truthful(b)'
      /\ \A b \in Books : Complete(b)'
      /\ \A p \in Paths : Kept(p)'
  BY DEF Plain, heap, request, clients, IInv, Sound, Truthful, Complete, Kept, First
<1>3. \A u \in Threads : Holding(u)'
  <2>1. SUFFICES ASSUME NEW u \in Threads PROVE Holding(u)'
    OBVIOUS
  <2>2. QED
    BY <2>1, NoneAssumption, SizesAssumption
       DEF Plain, Goto, Leave, Deliver, heap, request, clients, IInv, TypeOK, Versions,
              Places, Holding
<1>4. \A u \in Threads : Asking(u)'
  <2>1. SUFFICES ASSUME NEW u \in Threads PROVE Asking(u)'
    OBVIOUS
  <2>2. QED
    BY <2>1, NoneAssumption, SizesAssumption
       DEF Plain, Goto, Leave, Deliver, heap, request, clients, IInv, TypeOK, Versions,
              Places, Asking, Holding
<1>5. \A u \in Threads : Walking(u)'
  <2>1. SUFFICES ASSUME NEW u \in Threads PROVE Walking(u)'
    OBVIOUS
  <2>2. QED
    BY <2>1, NoneAssumption, SizesAssumption
       DEF Plain, Goto, Leave, Deliver, heap, request, clients, IInv, TypeOK, Versions,
              Places, Walking, Holding
<1>6. \A u \in Threads : Paging(u)'
  <2>1. SUFFICES ASSUME NEW u \in Threads PROVE Paging(u)'
    OBVIOUS
  <2>2. QED
    BY <2>1, NoneAssumption, SizesAssumption
       DEF Plain, Goto, Leave, Deliver, heap, request, clients, IInv, TypeOK, Versions,
              Places, Paging, Holding
<1>7. \A c \in Threads \X Paths : Copied(c)'
  <2>1. SUFFICES ASSUME NEW c \in Threads \X Paths PROVE Copied(c)'
    OBVIOUS
  <2>2. QED
    BY <2>1, NoneAssumption, SizesAssumption
       DEF Plain, Goto, Leave, Deliver, heap, request, clients, IInv, TypeOK, Versions,
              Places, Copied, Sound, Holding
<1>8. QED
  BY <1>1, <1>2, <1>3, <1>4, <1>5, <1>6, <1>7 DEF IInv

LEMMA NoBodyKeeps == ASSUME IInv, NEW t \in Threads, NoBody(t) PROVE IInv'
<1>1. TypeOK'
  BY SizesAssumption
     DEF NoBody, Goto, Leave, heap, request, clients, IInv, TypeOK, Versions, Places,
         Holding
<1>2. /\ \A b \in Books : Sound(b)'
      /\ \A b \in Books : Truthful(b)'
      /\ \A b \in Books : Complete(b)'
      /\ \A p \in Paths : Kept(p)'
      /\ \A c \in Threads \X Paths : Copied(c)'
  BY DEF NoBody, heap, request, clients, IInv, Sound, Truthful, Complete, Kept, Copied,
         First
<1>3. \A u \in Threads : Holding(u)'
  <2>1. SUFFICES ASSUME NEW u \in Threads PROVE Holding(u)'
    OBVIOUS
  <2>2. QED
    BY <2>1, NoneAssumption, SizesAssumption
       DEF NoBody, Goto, Leave, heap, request, clients, IInv, TypeOK, Versions, Places,
              Holding
<1>4. \A u \in Threads : Asking(u)'
  <2>1. SUFFICES ASSUME NEW u \in Threads PROVE Asking(u)'
    OBVIOUS
  <2>2. QED
    BY <2>1, NoneAssumption, SizesAssumption
       DEF NoBody, Goto, Leave, heap, request, clients, IInv, TypeOK, Versions, Places,
              Asking
<1>5. \A u \in Threads : Walking(u)'
  <2>1. SUFFICES ASSUME NEW u \in Threads PROVE Walking(u)'
    OBVIOUS
  <2>2. QED
    BY <2>1, NoneAssumption, SizesAssumption
       DEF NoBody, Goto, Leave, heap, request, clients, IInv, TypeOK, Versions, Places,
              Walking, Holding
<1>6. \A u \in Threads : Paging(u)'
  <2>1. SUFFICES ASSUME NEW u \in Threads PROVE Paging(u)'
    OBVIOUS
  <2>2. QED
    BY <2>1, NoneAssumption, SizesAssumption
       DEF NoBody, Goto, Leave, heap, request, clients, IInv, TypeOK, Versions, Places,
              Paging, Holding
<1>7. QED
  BY <1>1, <1>2, <1>3, <1>4, <1>5, <1>6 DEF IInv

LEMMA PageKeeps == ASSUME IInv, NEW t \in Threads, Page(t) PROVE IInv'
<1>1. TypeOK'
  BY SizesAssumption
     DEF Page, Goto, heap, request, clients, IInv, TypeOK, Versions, Places, Holding
<1>2. /\ \A b \in Books : Sound(b)'
      /\ \A b \in Books : Truthful(b)'
      /\ \A b \in Books : Complete(b)'
      /\ \A p \in Paths : Kept(p)'
      /\ \A c \in Threads \X Paths : Copied(c)'
  BY DEF Page, heap, request, clients, IInv, Sound, Truthful, Complete, Kept, Copied,
         First
<1>3. \A u \in Threads : Holding(u)'
  <2>1. SUFFICES ASSUME NEW u \in Threads PROVE Holding(u)'
    OBVIOUS
  <2>2. QED
    BY <2>1, NoneAssumption, SizesAssumption
       DEF Page, Goto, heap, request, clients, IInv, TypeOK, Versions, Places, Holding
<1>4. \A u \in Threads : Asking(u)'
  <2>1. SUFFICES ASSUME NEW u \in Threads PROVE Asking(u)'
    OBVIOUS
  <2>2. QED
    BY <2>1, NoneAssumption, SizesAssumption
       DEF Page, Goto, heap, request, clients, IInv, TypeOK, Versions, Places, Asking
<1>5. \A u \in Threads : Walking(u)'
  <2>1. SUFFICES ASSUME NEW u \in Threads PROVE Walking(u)'
    OBVIOUS
  <2>2. QED
    BY <2>1, NoneAssumption, SizesAssumption
       DEF Page, Goto, heap, request, clients, IInv, TypeOK, Versions, Places, Walking,
              Holding
<1>6. \A u \in Threads : Paging(u)'
  <2>1. SUFFICES ASSUME NEW u \in Threads PROVE Paging(u)'
    OBVIOUS
  <2>2. QED
    BY <2>1, NoneAssumption, SizesAssumption
       DEF Page, Goto, heap, request, clients, IInv, TypeOK, Versions, Places, Paging,
              Holding
<1>7. QED
  BY <1>1, <1>2, <1>3, <1>4, <1>5, <1>6 DEF IInv

LEMMA LinksBuiltKeeps == ASSUME IInv, NEW t \in Threads, LinksBuilt(t) PROVE IInv'
<1>1. TypeOK'
  BY SizesAssumption
     DEF LinksBuilt, Goto, heap, request, clients, IInv, TypeOK, Versions, Places,
         Holding
<1>2. /\ \A b \in Books : Sound(b)'
      /\ \A b \in Books : Truthful(b)'
      /\ \A b \in Books : Complete(b)'
      /\ \A p \in Paths : Kept(p)'
      /\ \A c \in Threads \X Paths : Copied(c)'
  BY DEF LinksBuilt, heap, request, clients, IInv, Sound, Truthful, Complete, Kept,
         Copied, First
<1>3. \A u \in Threads : Holding(u)'
  <2>1. SUFFICES ASSUME NEW u \in Threads PROVE Holding(u)'
    OBVIOUS
  <2>2. QED
    BY <2>1, NoneAssumption, SizesAssumption
       DEF LinksBuilt, Goto, heap, request, clients, IInv, TypeOK, Versions, Places,
              Holding
<1>4. \A u \in Threads : Asking(u)'
  <2>1. SUFFICES ASSUME NEW u \in Threads PROVE Asking(u)'
    OBVIOUS
  <2>2. QED
    BY <2>1, NoneAssumption, SizesAssumption
       DEF LinksBuilt, Goto, heap, request, clients, IInv, TypeOK, Versions, Places,
              Asking
<1>5. \A u \in Threads : Walking(u)'
  <2>1. SUFFICES ASSUME NEW u \in Threads PROVE Walking(u)'
    OBVIOUS
  <2>2. QED
    BY <2>1, NoneAssumption, SizesAssumption
       DEF LinksBuilt, Goto, heap, request, clients, IInv, TypeOK, Versions, Places,
              Walking, Holding
<1>6. \A u \in Threads : Paging(u)'
  <2>1. SUFFICES ASSUME NEW u \in Threads PROVE Paging(u)'
    OBVIOUS
  <2>2. QED
    BY <2>1, NoneAssumption, SizesAssumption
       DEF LinksBuilt, Goto, heap, request, clients, IInv, TypeOK, Versions, Places,
              Paging, Holding
<1>7. QED
  BY <1>1, <1>2, <1>3, <1>4, <1>5, <1>6 DEF IInv

LEMMA LinksStartKeeps == ASSUME IInv, NEW t \in Threads, LinksStart(t) PROVE IInv'
<1>1. TypeOK'
  BY SizesAssumption
     DEF LinksStart, Goto, heap, request, clients, IInv, TypeOK, Versions, Places,
         Holding
<1>2. /\ \A b \in Books : Sound(b)'
      /\ \A b \in Books : Truthful(b)'
      /\ \A b \in Books : Complete(b)'
      /\ \A p \in Paths : Kept(p)'
      /\ \A c \in Threads \X Paths : Copied(c)'
  BY DEF LinksStart, heap, request, clients, IInv, Sound, Truthful, Complete, Kept,
         Copied, First
<1>3. \A u \in Threads : Holding(u)'
  <2>1. SUFFICES ASSUME NEW u \in Threads PROVE Holding(u)'
    OBVIOUS
  <2>2. QED
    BY <2>1, NoneAssumption, SizesAssumption
       DEF LinksStart, Goto, heap, request, clients, IInv, TypeOK, Versions, Places,
              Holding
<1>4. \A u \in Threads : Asking(u)'
  <2>1. SUFFICES ASSUME NEW u \in Threads PROVE Asking(u)'
    OBVIOUS
  <2>2. QED
    BY <2>1, NoneAssumption, SizesAssumption
       DEF LinksStart, Goto, heap, request, clients, IInv, TypeOK, Versions, Places,
              Asking
<1>5. \A u \in Threads : Walking(u)'
  <2>1. SUFFICES ASSUME NEW u \in Threads PROVE Walking(u)'
    OBVIOUS
  <2>2. QED
    BY <2>1, NoneAssumption, SizesAssumption
       DEF LinksStart, Goto, heap, request, clients, IInv, TypeOK, Versions, Places,
              Walking, Holding
<1>6. \A u \in Threads : Paging(u)'
  <2>1. SUFFICES ASSUME NEW u \in Threads PROVE Paging(u)'
    OBVIOUS
  <2>2. QED
    BY <2>1, NoneAssumption, SizesAssumption
       DEF LinksStart, Goto, heap, request, clients, IInv, TypeOK, Versions, Places,
              Paging, Holding
<1>7. QED
  BY <1>1, <1>2, <1>3, <1>4, <1>5, <1>6 DEF IInv

LEMMA HarvestKeeps == ASSUME IInv, NEW t \in Threads, Harvest(t) PROVE IInv'
<1>1. TypeOK'
  <2>1. DEFINE m == Emplaced(links[book[t]], pos[t], Reports[content[book[t]]][pos[t]])
  <2>2. /\ at[t] = "walk" /\ pos[t] <= Entries
        /\ links' = [links EXCEPT ![book[t]] = m]
        /\ pos' = [pos EXCEPT ![t] = @ + 1]
        /\ UNCHANGED <<file, cache, label, content, built, mutex, at, path, asked,
                       book, copyLabel, copyContent, throws>>
    BY DEF Harvest, request, clients
  <2>3. /\ book[t] \in Books /\ content[book[t]] \in Versions /\ pos[t] \in 1..Entries
        /\ m \in [Names -> 0..Entries]
        /\ \A n \in Names : m[n] # 0 => First(content[book[t]], n, m[n])
        /\ \A n \in Names : links[book[t]][n] # 0 => m[n] = links[book[t]][n]
        /\ \A n \in Reports[content[book[t]]][pos[t]] : n \in Names
    BY <2>2, Harvesting
  <2>4. pos'[t] \in 1..(Entries + 1)
    BY <2>2, <2>3, SizesAssumption DEF IInv, TypeOK
  <2> HIDE DEF m
  <2>5. QED
    BY <2>2, <2>3, <2>4, SizesAssumption DEF IInv, TypeOK
<1>2. /\ \A b \in Books : Sound(b)'
      /\ \A u \in Threads : Holding(u)'
      /\ \A u \in Threads : Asking(u)'
      /\ \A u \in Threads : Paging(u)'
      /\ \A p \in Paths : Kept(p)'
      /\ \A c \in Threads \X Paths : Copied(c)'
  BY DEF Harvest, heap, request, clients, IInv, Sound, Holding, Asking, Paging, Kept,
         Copied
<1>3. \A b \in Books : Truthful(b)'
  <2>1. DEFINE m == Emplaced(links[book[t]], pos[t], Reports[content[book[t]]][pos[t]])
  <2>2. /\ at[t] = "walk" /\ pos[t] <= Entries
        /\ links' = [links EXCEPT ![book[t]] = m]
        /\ pos' = [pos EXCEPT ![t] = @ + 1]
        /\ UNCHANGED <<content, built, mutex, at, book>>
    BY DEF Harvest, heap
  <2>3. /\ book[t] \in Books /\ content[book[t]] \in Versions /\ pos[t] \in 1..Entries
        /\ m \in [Names -> 0..Entries]
        /\ \A n \in Names : m[n] # 0 => First(content[book[t]], n, m[n])
        /\ \A n \in Names : links[book[t]][n] # 0 => m[n] = links[book[t]][n]
        /\ \A n \in Reports[content[book[t]]][pos[t]] : n \in Names
    BY <2>2, Harvesting
  <2> HIDE DEF m
  <2>4. SUFFICES ASSUME NEW b \in Books PROVE Truthful(b)'
    OBVIOUS
  <2>5. \A v, n, e : First(v, n, e)' <=> First(v, n, e)
    BY DEF First
  <2>6. CASE b = book[t]
    BY <2>2, <2>3, <2>5, <2>6 DEF IInv, TypeOK, Truthful
  <2>7. CASE b # book[t]
    BY <2>2, <2>3, <2>5, <2>7 DEF IInv, TypeOK, Truthful
  <2>8. QED
    BY <2>6, <2>7
<1>4. \A b \in Books : Complete(b)'
  <2>1. DEFINE m == Emplaced(links[book[t]], pos[t], Reports[content[book[t]]][pos[t]])
  <2>2. /\ at[t] = "walk" /\ pos[t] <= Entries
        /\ links' = [links EXCEPT ![book[t]] = m]
        /\ pos' = [pos EXCEPT ![t] = @ + 1]
        /\ UNCHANGED <<content, built, mutex, at, book>>
    BY DEF Harvest, heap
  <2>3. /\ book[t] \in Books /\ content[book[t]] \in Versions /\ pos[t] \in 1..Entries
        /\ m \in [Names -> 0..Entries]
        /\ \A n \in Names : m[n] # 0 => First(content[book[t]], n, m[n])
        /\ \A n \in Names : links[book[t]][n] # 0 => m[n] = links[book[t]][n]
        /\ \A n \in Reports[content[book[t]]][pos[t]] : n \in Names
    BY <2>2, Harvesting
  <2> HIDE DEF m
  <2>4. ~built[book[t]]
    BY <2>2 DEF IInv, Walking
  <2>5. QED
    BY <2>2, <2>3, <2>4 DEF IInv, TypeOK, Complete
<1>5. \A u \in Threads : Walking(u)'
  <2>1. DEFINE m == Emplaced(links[book[t]], pos[t], Reports[content[book[t]]][pos[t]])
  <2>2. /\ at[t] = "walk" /\ pos[t] <= Entries
        /\ links' = [links EXCEPT ![book[t]] = m]
        /\ pos' = [pos EXCEPT ![t] = @ + 1]
        /\ UNCHANGED <<content, built, mutex, at, book>>
    BY DEF Harvest, heap
  <2>3. /\ book[t] \in Books /\ content[book[t]] \in Versions /\ pos[t] \in 1..Entries
        /\ m \in [Names -> 0..Entries]
        /\ \A n \in Names : m[n] # 0 => First(content[book[t]], n, m[n])
        /\ \A n \in Names : links[book[t]][n] # 0 => m[n] = links[book[t]][n]
        /\ \A n \in Reports[content[book[t]]][pos[t]] : n \in Names
        /\ \A n \in Reports[content[book[t]]][pos[t]] : m[n] # 0
    BY <2>2, Harvesting
  <2> HIDE DEF m
  <2>4. SUFFICES ASSUME NEW u \in Threads, at[u] = "walk" PROVE Walking(u)'
    BY <2>2 DEF Walking
  <2>5. book[u] \in Books /\ Walking(u)
    BY <2>4 DEF IInv, Holding
  <2>6. CASE u = t
    <3>1. pos'[t] = pos[t] + 1 /\ pos[t] \in 1..Entries
      BY <2>2, <2>3 DEF IInv, TypeOK
    <3>2. links'[book[t]] = m
      BY <2>2, <2>3 DEF IInv, TypeOK
    <3>3. ASSUME NEW e \in 1..(pos'[t] - 1), NEW n \in Names, n \in Reports[content[book[t]]][e]
          PROVE  m[n] # 0
      <4>1. CASE e = pos[t]
        BY <2>3, <3>3, <4>1
      <4>2. CASE e # pos[t]
        <5>1. e \in 1..(pos[t] - 1)
          BY <3>1, <4>2, SizesAssumption
        <5>2. links[book[t]][n] # 0
          BY <2>4, <2>5, <2>6, <3>3, <5>1 DEF Walking
        <5>3. m[n] = links[book[t]][n]
          BY <2>3, <5>2
        <5>4. QED
          BY <5>2, <5>3
      <4>3. QED
        BY <4>1, <4>2
    <3>4. QED
      BY <2>2, <2>4, <2>5, <2>6, <3>2, <3>3 DEF Walking
  <2>7. CASE u # t
    <3>1. book[u] # book[t]
      BY <2>2, <2>4, <2>5, <2>7 DEF IInv, Walking
    <3>2. links'[book[u]] = links[book[u]] /\ pos'[u] = pos[u]
      BY <2>2, <2>5, <2>7, <3>1 DEF IInv, TypeOK
    <3>3. QED
      BY <2>2, <2>4, <2>5, <3>2 DEF Walking
  <2>8. QED
    BY <2>6, <2>7
<1>6. QED
  BY <1>1, <1>2, <1>3, <1>4, <1>5 DEF IInv

LEMMA HarvestDoneKeeps == ASSUME IInv, NEW t \in Threads, HarvestDone(t) PROVE IInv'
<1>1. TypeOK'
  BY SizesAssumption
     DEF HarvestDone, Goto, heap, request, clients, IInv, TypeOK, Versions, Places,
         Holding
<1>2. /\ \A b \in Books : Sound(b)'
      /\ \A b \in Books : Truthful(b)'
      /\ \A p \in Paths : Kept(p)'
      /\ \A c \in Threads \X Paths : Copied(c)'
  BY DEF HarvestDone, heap, request, clients, IInv, Sound, Truthful, Kept, Copied, First
<1>3. \A b \in Books : Complete(b)'
  <2>1. /\ at[t] = "walk" /\ pos[t] - 1 = Entries
        /\ built' = [built EXCEPT ![book[t]] = TRUE]
        /\ UNCHANGED <<content, links>>
    BY SizesAssumption DEF HarvestDone, Goto
  <2>2. book[t] \in Books /\ Walking(t)
    BY <2>1 DEF IInv, Holding
  <2>3. \A e \in 1..Entries : \A n \in Names :
          n \in Reports[content[book[t]]][e] => links[book[t]][n] # 0
    BY <2>1, <2>2 DEF Walking
  <2>4. SUFFICES ASSUME NEW b \in Books PROVE Complete(b)'
    OBVIOUS
  <2>5. CASE b = book[t]
    BY <2>1, <2>3, <2>5 DEF Complete
  <2>6. CASE b # book[t]
    BY <2>1, <2>2, <2>6 DEF IInv, TypeOK, Complete
  <2>7. QED
    BY <2>5, <2>6
<1>4. \A u \in Threads : Holding(u)'
  <2>1. SUFFICES ASSUME NEW u \in Threads PROVE Holding(u)'
    OBVIOUS
  <2>2. QED
    BY <2>1, NoneAssumption, SizesAssumption
       DEF HarvestDone, Goto, heap, request, clients, IInv, TypeOK, Versions, Places,
              Holding
<1>5. \A u \in Threads : Asking(u)'
  <2>1. SUFFICES ASSUME NEW u \in Threads PROVE Asking(u)'
    OBVIOUS
  <2>2. QED
    BY <2>1, NoneAssumption, SizesAssumption
       DEF HarvestDone, Goto, heap, request, clients, IInv, TypeOK, Versions, Places,
              Asking
<1>6. \A u \in Threads : Walking(u)'
  <2>1. SUFFICES ASSUME NEW u \in Threads PROVE Walking(u)'
    OBVIOUS
  <2>2. QED
    BY <2>1, NoneAssumption, SizesAssumption
       DEF HarvestDone, Goto, heap, request, clients, IInv, TypeOK, Versions, Places,
              Walking, Holding
<1>7. \A u \in Threads : Paging(u)'
  <2>1. SUFFICES ASSUME NEW u \in Threads PROVE Paging(u)'
    OBVIOUS
  <2>2. QED
    BY <2>1, NoneAssumption, SizesAssumption
       DEF HarvestDone, Goto, heap, request, clients, IInv, TypeOK, Versions, Places,
              Paging, Holding
<1>8. QED
  BY <1>1, <1>2, <1>3, <1>4, <1>5, <1>6, <1>7 DEF IInv

LEMMA HarvestThrowsKeeps == ASSUME IInv, NEW t \in Threads, HarvestThrows(t) PROVE IInv'
<1>1. TypeOK'
  <2>1. /\ at[t] = "walk" /\ pos[t] <= Entries
        /\ throws < MaxThrows /\ throws' = throws + 1
        /\ mutex' = [mutex EXCEPT ![book[t]] = None]
        /\ at' = [at EXCEPT ![t] = "idle"]
        /\ book' = [book EXCEPT ![t] = None]
        /\ asked' = [asked EXCEPT ![t] = 1]
        /\ pos' = [pos EXCEPT ![t] = 1]
        /\ UNCHANGED <<file, cache, label, content, built, path, copyLabel, copyContent>>
    BY DEF HarvestThrows, Goto, Leave, clients
  <2>2. PICK names \in SUBSET Reports[content[book[t]]][pos[t]] :
          links' = [links EXCEPT ![book[t]] = Emplaced(links[book[t]], pos[t], names)]
    BY DEF HarvestThrows
  <2> DEFINE m == Emplaced(links[book[t]], pos[t], names)
  <2>3. /\ book[t] \in Books
        /\ m \in [Names -> 0..Entries]
        /\ \A n \in Names : m[n] # 0 => First(content[book[t]], n, m[n])
    BY <2>1, Harvesting
  <2>4. links' = [links EXCEPT ![book[t]] = m]
    BY <2>2
  <2> HIDE DEF m
  <2>5. throws' \in 0..MaxThrows
    BY <2>1, SizesAssumption DEF IInv, TypeOK
  <2>6. QED
    BY <2>1, <2>3, <2>4, <2>5, SizesAssumption DEF IInv, TypeOK, Versions, Places
<1>2. /\ \A b \in Books : Sound(b)'
      /\ \A p \in Paths : Kept(p)'
      /\ \A c \in Threads \X Paths : Copied(c)'
  BY DEF HarvestThrows, heap, request, clients, IInv, Sound, Kept, Copied
<1>3. \A b \in Books : Truthful(b)'
  <2>1. /\ at[t] = "walk" /\ pos[t] <= Entries
        /\ throws < MaxThrows /\ throws' = throws + 1
        /\ mutex' = [mutex EXCEPT ![book[t]] = None]
        /\ at' = [at EXCEPT ![t] = "idle"]
        /\ book' = [book EXCEPT ![t] = None]
        /\ asked' = [asked EXCEPT ![t] = 1]
        /\ pos' = [pos EXCEPT ![t] = 1]
        /\ UNCHANGED <<file, cache, label, content, built, path, copyLabel, copyContent>>
    BY DEF HarvestThrows, Goto, Leave, clients
  <2>2. PICK names \in SUBSET Reports[content[book[t]]][pos[t]] :
          links' = [links EXCEPT ![book[t]] = Emplaced(links[book[t]], pos[t], names)]
    BY DEF HarvestThrows
  <2> DEFINE m == Emplaced(links[book[t]], pos[t], names)
  <2>3. /\ book[t] \in Books
        /\ m \in [Names -> 0..Entries]
        /\ \A n \in Names : m[n] # 0 => First(content[book[t]], n, m[n])
    BY <2>1, Harvesting
  <2>4. links' = [links EXCEPT ![book[t]] = m]
    BY <2>2
  <2> HIDE DEF m
  <2>5. SUFFICES ASSUME NEW b \in Books PROVE Truthful(b)'
    OBVIOUS
  <2>6. \A v, n, e : First(v, n, e)' <=> First(v, n, e)
    BY DEF First
  <2>7. CASE b = book[t]
    BY <2>1, <2>3, <2>4, <2>6, <2>7 DEF IInv, TypeOK, Truthful
  <2>8. CASE b # book[t]
    BY <2>1, <2>3, <2>4, <2>6, <2>8 DEF IInv, TypeOK, Truthful
  <2>9. QED
    BY <2>7, <2>8
<1>4. \A b \in Books : Complete(b)'
  <2>1. /\ at[t] = "walk" /\ pos[t] <= Entries
        /\ throws < MaxThrows /\ throws' = throws + 1
        /\ mutex' = [mutex EXCEPT ![book[t]] = None]
        /\ at' = [at EXCEPT ![t] = "idle"]
        /\ book' = [book EXCEPT ![t] = None]
        /\ asked' = [asked EXCEPT ![t] = 1]
        /\ pos' = [pos EXCEPT ![t] = 1]
        /\ UNCHANGED <<file, cache, label, content, built, path, copyLabel, copyContent>>
    BY DEF HarvestThrows, Goto, Leave, clients
  <2>2. PICK names \in SUBSET Reports[content[book[t]]][pos[t]] :
          links' = [links EXCEPT ![book[t]] = Emplaced(links[book[t]], pos[t], names)]
    BY DEF HarvestThrows
  <2> DEFINE m == Emplaced(links[book[t]], pos[t], names)
  <2>3. /\ book[t] \in Books
        /\ m \in [Names -> 0..Entries]
        /\ \A n \in Names : m[n] # 0 => First(content[book[t]], n, m[n])
    BY <2>1, Harvesting
  <2>4. links' = [links EXCEPT ![book[t]] = m]
    BY <2>2
  <2> HIDE DEF m
  <2>5. ~built[book[t]]
    BY <2>1 DEF IInv, Walking
  <2>6. QED
    BY <2>1, <2>3, <2>4, <2>5 DEF IInv, TypeOK, Complete
<1>5. \A u \in Threads : Holding(u)'
  <2>1. SUFFICES ASSUME NEW u \in Threads PROVE Holding(u)'
    OBVIOUS
  <2>2. QED
    BY <2>1, NoneAssumption, SizesAssumption
       DEF HarvestThrows, Goto, Leave, heap, request, clients, IInv, TypeOK, Versions,
              Places, Holding
<1>6. \A u \in Threads : Asking(u)'
  <2>1. SUFFICES ASSUME NEW u \in Threads PROVE Asking(u)'
    OBVIOUS
  <2>2. QED
    BY <2>1, NoneAssumption, SizesAssumption
       DEF HarvestThrows, Goto, Leave, heap, request, clients, IInv, TypeOK, Versions,
              Places, Asking
<1>7. \A u \in Threads : Walking(u)'
  <2>1. SUFFICES ASSUME NEW u \in Threads PROVE Walking(u)'
    OBVIOUS
  <2>2. QED
    BY <2>1, NoneAssumption, SizesAssumption
       DEF HarvestThrows, Goto, Leave, heap, request, clients, IInv, TypeOK, Versions,
              Places, Walking, Holding
<1>8. \A u \in Threads : Paging(u)'
  <2>1. SUFFICES ASSUME NEW u \in Threads PROVE Paging(u)'
    OBVIOUS
  <2>2. QED
    BY <2>1, NoneAssumption, SizesAssumption
       DEF HarvestThrows, Goto, Leave, heap, request, clients, IInv, TypeOK, Versions,
              Places, Paging, Holding
<1>9. QED
  BY <1>1, <1>2, <1>3, <1>4, <1>5, <1>6, <1>7, <1>8 DEF IInv

LEMMA RenderedKeeps == ASSUME IInv, NEW t \in Threads, Rendered(t) PROVE IInv'
<1>1. TypeOK'
  BY SizesAssumption
     DEF Rendered, Goto, Leave, Deliver, heap, request, clients, IInv, TypeOK,
         Versions, Places, Holding
<1>2. /\ \A b \in Books : Sound(b)'
      /\ \A b \in Books : Truthful(b)'
      /\ \A b \in Books : Complete(b)'
      /\ \A p \in Paths : Kept(p)'
  BY DEF Rendered, heap, request, clients, IInv, Sound, Truthful, Complete, Kept, First
<1>3. \A u \in Threads : Holding(u)'
  <2>1. SUFFICES ASSUME NEW u \in Threads PROVE Holding(u)'
    OBVIOUS
  <2>2. QED
    BY <2>1, NoneAssumption, SizesAssumption
       DEF Rendered, Goto, Leave, Deliver, heap, request, clients, IInv, TypeOK,
              Versions, Places, Holding
<1>4. \A u \in Threads : Asking(u)'
  <2>1. SUFFICES ASSUME NEW u \in Threads PROVE Asking(u)'
    OBVIOUS
  <2>2. QED
    BY <2>1, NoneAssumption, SizesAssumption
       DEF Rendered, Goto, Leave, Deliver, heap, request, clients, IInv, TypeOK,
              Versions, Places, Asking
<1>5. \A u \in Threads : Walking(u)'
  <2>1. SUFFICES ASSUME NEW u \in Threads PROVE Walking(u)'
    OBVIOUS
  <2>2. QED
    BY <2>1, NoneAssumption, SizesAssumption
       DEF Rendered, Goto, Leave, Deliver, heap, request, clients, IInv, TypeOK,
              Versions, Places, Walking, Holding
<1>6. \A u \in Threads : Paging(u)'
  <2>1. SUFFICES ASSUME NEW u \in Threads PROVE Paging(u)'
    OBVIOUS
  <2>2. QED
    BY <2>1, NoneAssumption, SizesAssumption
       DEF Rendered, Goto, Leave, Deliver, heap, request, clients, IInv, TypeOK,
              Versions, Places, Paging, Holding
<1>7. \A c \in Threads \X Paths : Copied(c)'
  <2>1. SUFFICES ASSUME NEW c \in Threads \X Paths PROVE Copied(c)'
    OBVIOUS
  <2>2. QED
    BY <2>1, NoneAssumption, SizesAssumption
       DEF Rendered, Goto, Leave, Deliver, heap, request, clients, IInv, TypeOK,
              Versions, Places, Copied, Sound, Holding
<1>8. QED
  BY <1>1, <1>2, <1>3, <1>4, <1>5, <1>6, <1>7 DEF IInv

LEMMA RestartKeeps == ASSUME IInv, Restart PROVE IInv'
<1>1. TypeOK'
  BY SizesAssumption
     DEF Restart, heap, request, clients, IInv, TypeOK, Versions, Places, Holding,
         Unused
<1>2. \A c \in Threads \X Paths : Copied(c)'
  BY DEF Restart, heap, request, clients, IInv, Copied
<1>3. \A b \in Books : Sound(b)'
  <2>1. SUFFICES ASSUME NEW b \in Books PROVE Sound(b)'
    OBVIOUS
  <2>2. QED
    BY <2>1, NoneAssumption, SizesAssumption
       DEF Restart, heap, request, clients, IInv, TypeOK, Versions, Places, Sound
<1>4. \A b \in Books : Truthful(b)'
  <2>1. SUFFICES ASSUME NEW b \in Books, NEW n \in Names PROVE links'[b][n] = 0
    BY DEF Truthful
  <2>2. QED
    BY <2>1 DEF Restart, Unused
<1>5. \A b \in Books : Complete(b)'
  <2>1. SUFFICES ASSUME NEW b \in Books PROVE Complete(b)'
    OBVIOUS
  <2>2. QED
    BY <2>1, NoneAssumption, SizesAssumption
       DEF Restart, heap, request, clients, IInv, TypeOK, Versions, Places, Complete
<1>6. \A u \in Threads : Holding(u)'
  <2>1. SUFFICES ASSUME NEW u \in Threads PROVE Holding(u)'
    OBVIOUS
  <2>2. QED
    BY <2>1, NoneAssumption, SizesAssumption
       DEF Restart, heap, request, clients, IInv, TypeOK, Versions, Places, Holding
<1>7. \A u \in Threads : Asking(u)'
  <2>1. SUFFICES ASSUME NEW u \in Threads PROVE Asking(u)'
    OBVIOUS
  <2>2. QED
    BY <2>1, NoneAssumption, SizesAssumption
       DEF Restart, heap, request, clients, IInv, TypeOK, Versions, Places, Asking
<1>8. \A u \in Threads : Walking(u)'
  <2>1. SUFFICES ASSUME NEW u \in Threads PROVE Walking(u)'
    OBVIOUS
  <2>2. QED
    BY <2>1, NoneAssumption, SizesAssumption
       DEF Restart, heap, request, clients, IInv, TypeOK, Versions, Places, Walking,
              Holding
<1>9. \A u \in Threads : Paging(u)'
  <2>1. SUFFICES ASSUME NEW u \in Threads PROVE Paging(u)'
    OBVIOUS
  <2>2. QED
    BY <2>1, NoneAssumption, SizesAssumption
       DEF Restart, heap, request, clients, IInv, TypeOK, Versions, Places, Paging,
              Holding
<1>10. \A q \in Paths : Kept(q)'
  <2>1. SUFFICES ASSUME NEW q \in Paths PROVE Kept(q)'
    OBVIOUS
  <2>2. QED
    BY <2>1, NoneAssumption, SizesAssumption
       DEF Restart, heap, request, clients, IInv, TypeOK, Versions, Places, Kept
<1>11. QED
  BY <1>1, <1>2, <1>3, <1>4, <1>5, <1>6, <1>7, <1>8, <1>9, <1>10 DEF IInv

LEMMA Stutters == IInv /\ UNCHANGED vars => IInv'
  BY DEF vars, IInv, TypeOK, Sound, Truthful, First, Complete, Holding, Asking,
         Walking, Paging, Kept, Copied

LEMMA Preserved == IInv /\ [Next]_vars => IInv'
<1>1. SUFFICES ASSUME IInv, [Next]_vars PROVE IInv'
  OBVIOUS
<1>2. CASE \E p \in Paths : Replace(p)
  BY <1>1, <1>2, ReplaceKeeps
<1>3. CASE \E t \in Threads : Stat(t)
  BY <1>1, <1>3, StatKeeps
<1>4. CASE \E t \in Threads : Step(t)
  <2>1. PICK t \in Threads : Step(t)
    BY <1>4
  <2>2. QED
    BY <1>1, <2>1, HitKeeps, MissKeeps, OpenKeeps, OpenFailsKeeps, StoreKeeps,
       NotModifiedKeeps, PlainKeeps, NoBodyKeeps, PageKeeps, LinksBuiltKeeps,
       LinksStartKeeps, HarvestKeeps, HarvestDoneKeeps, HarvestThrowsKeeps,
       RenderedKeeps DEF Step
<1>5. CASE Restart
  BY <1>1, <1>5, RestartKeeps
<1>6. CASE UNCHANGED vars
  BY <1>1, <1>6, Stutters
<1>7. QED
  BY <1>1, <1>2, <1>3, <1>4, <1>5, <1>6 DEF Next

LEMMA Invariance == Spec => []IInv
  BY Starts, Preserved, PTL DEF Spec

-----------------------------------------------------------------------------
(* The heap, the requests and the clients' copies stay within their types, *)
(* for any threads and any book contents.                                  *)
THEOREM Typed == Spec => []TypeOK
<1>1. IInv => TypeOK
  BY DEF IInv
<1>2. QED
  BY <1>1, Invariance, PTL

(* No request is answered from a parse older than the file was when the    *)
(* request arrived (open_book_path).                                       *)
THEOREM ServedFresh == Spec => []NeverStale
<1>1. IInv => NeverStale
  BY DEF IInv, NeverStale, Holding, InBook, TypeOK, Versions
<1>2. QED
  BY <1>1, Invariance, PTL

(* A client's copy is at least as new as the identity in its ETag, so a    *)
(* 304 never confirms a copy older than the file that was statted.         *)
THEOREM LabelsHold == Spec => []EtagsSound
<1>1. IInv => EtagsSound
  BY DEF IInv, EtagsSound, Copied, TypeOK
<1>2. QED
  BY <1>1, Invariance, PTL

(* Whatever harvests failed or raced before, the map a page is rendered    *)
(* over is finished, first come first kept, and nobody writes to it        *)
(* (ensure_links).                                                         *)
THEOREM MapsFinished == Spec => []LinksFinished
<1>1. IInv => LinksFinished
  <2>1. SUFFICES ASSUME IInv, NEW t \in Threads, at[t] = "page"
                 PROVE  /\ \A n \in Names : Resolved(book[t], n)
                        /\ \A u \in Threads : book[u] = book[t] => at[u] # "walk"
    BY DEF LinksFinished
  <2>2. book[t] \in Books /\ built[book[t]]
    BY <2>1 DEF IInv, Holding, Paging
  <2>3. \A n \in Names : Resolved(book[t], n)
    BY <2>1, <2>2 DEF IInv, Truthful, Complete, Resolved
  <2>4. \A u \in Threads : book[u] = book[t] => at[u] # "walk"
    BY <2>1, <2>2 DEF IInv, Walking
  <2>5. QED
    BY <2>3, <2>4
<1>2. QED
  BY <1>1, Invariance, PTL

(* A client that comes back is never given an older book: what it has was  *)
(* on disk before it asked again, and the answer is no older than that.    *)
THEOREM ForwardOnly == Spec => ClientsMoveForward
<1> DEFINE Forward == \A c \in Threads \X Paths : copyContent'[c] >= copyContent[c]
<1>1. IInv /\ [Next]_vars => [Forward]_vars
  <2>1. SUFFICES ASSUME IInv, Next PROVE Forward
    OBVIOUS
  <2>2. CASE UNCHANGED copyContent
    BY <2>1, <2>2 DEF IInv, TypeOK
  <2>3. ASSUME NEW t \in Threads, Deliver(t), at[t] \in InBook PROVE Forward
    <3>1. SUFFICES ASSUME NEW c \in Threads \X Paths
                   PROVE  copyContent'[c] >= copyContent[c]
      OBVIOUS
    <3>2. copyContent[<<t, path[t]>>] <= asked[t] /\ asked[t] <= content[book[t]]
      BY <2>1, <2>3 DEF IInv, Asking, Holding, InBook
    <3>3. /\ copyContent' = [copyContent EXCEPT ![<<t, path[t]>>] = content[book[t]]]
          /\ book[t] \in Books /\ path[t] \in Paths
      BY <2>1, <2>3 DEF IInv, TypeOK, Deliver, Holding, InBook
    <3>4. content[book[t]] \in Nat /\ asked[t] \in Nat /\ copyContent[<<t, path[t]>>] \in Nat
      BY <2>1, <3>3 DEF IInv, TypeOK, Versions
    <3>5. content[book[t]] >= copyContent[<<t, path[t]>>]
      BY <3>2, <3>4
    <3>6. copyContent[c] \in Nat
      BY <2>1 DEF IInv, TypeOK
    <3>7. CASE c = <<t, path[t]>>
      BY <2>1, <3>3, <3>5, <3>7 DEF IInv, TypeOK
    <3>8. CASE c # <<t, path[t]>>
      BY <2>1, <3>3, <3>6, <3>8 DEF IInv, TypeOK
    <3>9. QED
      BY <3>7, <3>8
  <2>4. (\E t \in Threads : Deliver(t) /\ at[t] \in InBook) \/ UNCHANGED copyContent
    BY <2>1
       DEF Next, Step, Replace, Stat, Hit, Miss, Open, OpenFails, Store, NotModified,
                Plain, NoBody, Page, LinksBuilt, LinksStart, Harvest, HarvestDone,
                HarvestThrows, Rendered, Restart, clients, InBook
  <2>5. QED
    BY <2>2, <2>3, <2>4
<1>2. QED
  BY <1>1, Invariance, PTL DEF Spec, ClientsMoveForward
(* Where the mutexes are held: a harvest takes its book's and gives it     *)
(* back however it ends (ensure_links, the scoped lock of line 496).       *)
THEOREM OnlyHarvestsLock == Spec => []LocksAreHarvests
<1>1. Init => LocksAreHarvests
  BY DEF Init, LocksAreHarvests
<1>2. IInv /\ LocksAreHarvests /\ [Next]_vars => LocksAreHarvests'
  <2>0. SUFFICES ASSUME IInv, LocksAreHarvests, [Next]_vars PROVE LocksAreHarvests'
    OBVIOUS
  <2>d. /\ mutex \in [Books -> Threads \cup {None}] /\ at \in [Threads -> Places]
        /\ book \in [Threads -> Books \cup {None}] /\ None \notin Books
        /\ None \notin Threads
    BY <2>0, NoneAssumption DEF IInv, TypeOK
  <2>1. ASSUME NEW p \in Paths, Replace(p) PROVE LocksAreHarvests'
    BY <2>0, <2>d, <2>1 DEF Replace, LocksAreHarvests, heap, request, clients, Goto, Leave, Deliver, IInv, Walking
  <2>2. ASSUME NEW t \in Threads, Stat(t) PROVE LocksAreHarvests'
    BY <2>0, <2>d, <2>2 DEF Stat, LocksAreHarvests, heap, request, clients, Goto, Leave, Deliver, IInv, Walking
  <2>3. ASSUME NEW t \in Threads, Hit(t) PROVE LocksAreHarvests'
    BY <2>0, <2>d, <2>3 DEF Hit, LocksAreHarvests, heap, request, clients, Goto, Leave, Deliver, IInv, Walking
  <2>4. ASSUME NEW t \in Threads, Miss(t) PROVE LocksAreHarvests'
    BY <2>0, <2>d, <2>4 DEF Miss, LocksAreHarvests, heap, request, clients, Goto, Leave, Deliver, IInv, Walking
  <2>5. ASSUME NEW t \in Threads, Open(t) PROVE LocksAreHarvests'
    BY <2>0, <2>d, <2>5 DEF Open, LocksAreHarvests, heap, request, clients, Goto, Leave, Deliver, IInv, Walking
  <2>6. ASSUME NEW t \in Threads, OpenFails(t) PROVE LocksAreHarvests'
    BY <2>0, <2>d, <2>6 DEF OpenFails, LocksAreHarvests, heap, request, clients, Goto, Leave, Deliver, IInv, Walking
  <2>7. ASSUME NEW t \in Threads, Store(t) PROVE LocksAreHarvests'
    BY <2>0, <2>d, <2>7 DEF Store, LocksAreHarvests, heap, request, clients, Goto, Leave, Deliver, IInv, Walking
  <2>8. ASSUME NEW t \in Threads, NotModified(t) PROVE LocksAreHarvests'
    BY <2>0, <2>d, <2>8 DEF NotModified, LocksAreHarvests, heap, request, clients, Goto, Leave, Deliver, IInv, Walking
  <2>9. ASSUME NEW t \in Threads, Plain(t) PROVE LocksAreHarvests'
    BY <2>0, <2>d, <2>9 DEF Plain, LocksAreHarvests, heap, request, clients, Goto, Leave, Deliver, IInv, Walking
  <2>10. ASSUME NEW t \in Threads, NoBody(t) PROVE LocksAreHarvests'
    BY <2>0, <2>d, <2>10 DEF NoBody, LocksAreHarvests, heap, request, clients, Goto, Leave, Deliver, IInv, Walking
  <2>11. ASSUME NEW t \in Threads, Page(t) PROVE LocksAreHarvests'
    BY <2>0, <2>d, <2>11 DEF Page, LocksAreHarvests, heap, request, clients, Goto, Leave, Deliver, IInv, Walking
  <2>12. ASSUME NEW t \in Threads, LinksBuilt(t) PROVE LocksAreHarvests'
    BY <2>0, <2>d, <2>12 DEF LinksBuilt, LocksAreHarvests, heap, request, clients, Goto, Leave, Deliver, IInv, Walking
  <2>13. ASSUME NEW t \in Threads, LinksStart(t) PROVE LocksAreHarvests'
    BY <2>0, <2>d, <2>13 DEF LinksStart, LocksAreHarvests, heap, request, clients, Goto, Leave, Deliver, IInv, Walking
  <2>14. ASSUME NEW t \in Threads, Harvest(t) PROVE LocksAreHarvests'
    BY <2>0, <2>d, <2>14 DEF Harvest, LocksAreHarvests, heap, request, clients, Goto, Leave, Deliver, IInv, Walking
  <2>15. ASSUME NEW t \in Threads, HarvestDone(t) PROVE LocksAreHarvests'
    BY <2>0, <2>d, <2>15 DEF HarvestDone, LocksAreHarvests, heap, request, clients, Goto, Leave, Deliver, IInv, Walking
  <2>16. ASSUME NEW t \in Threads, HarvestThrows(t) PROVE LocksAreHarvests'
    BY <2>0, <2>d, <2>16 DEF HarvestThrows, LocksAreHarvests, heap, request, clients, Goto, Leave, Deliver, IInv, Walking
  <2>17. ASSUME NEW t \in Threads, Rendered(t) PROVE LocksAreHarvests'
    BY <2>0, <2>d, <2>17 DEF Rendered, LocksAreHarvests, heap, request, clients, Goto, Leave, Deliver, IInv, Walking
  <2>18. ASSUME Restart PROVE LocksAreHarvests'
    BY <2>d, <2>18 DEF Restart, LocksAreHarvests
  <2>19. ASSUME UNCHANGED vars PROVE LocksAreHarvests'
    BY <2>0, <2>19 DEF vars, heap, LocksAreHarvests
  <2> QED
    BY <2>0, <2>1, <2>2, <2>3, <2>4, <2>5, <2>6, <2>7, <2>8, <2>9, <2>10, <2>11, <2>12, <2>13, <2>14, <2>15, <2>16, <2>17, <2>18, <2>19 DEF Next, Step
<1>3. QED
  BY <1>1, <1>2, Invariance, PTL DEF Spec
-----------------------------------------------------------------------------
(* SiteRequests and MachineApi *)

(* A step is one of the part that was picked, or waits.                    *)
LEMMA SitePartsApart ==
  ASSUME [MCNext]_all
  PROVE  /\ part' = part
         /\ part = "page" => [R!Next]_(R!vars)
         /\ part = "machine" => [M!Next]_(M!vars)
<1> USE DEF all, page, machine, R!vars, M!vars
<1>1. CASE UNCHANGED all
  BY <1>1
<1>2. CASE MCNext
  BY <1>2 DEF MCNext
<1>3. QED
  BY <1>1, <1>2

LEMMA LeastExists ==
  ASSUME NEW T, T \subseteq Nat, T # {}
  PROVE  \E x \in T : \A y \in T : x <= y
<1> DEFINE Below == {0..x : x \in T}
<1>1. Below \subseteq FiniteSubsetsOf(Nat)
  <2>1. ASSUME NEW x \in T PROVE IsFiniteSet(0..x) /\ 0..x \subseteq Nat
    BY FS_Interval
  <2>2. QED
    BY <2>1 DEF FiniteSubsetsOf
<1>2. Below # {}
  OBVIOUS
<1>3. PICK m \in Below : \A s \in Below : <<s, m>> \notin StrictSubsetOrdering(Nat)
  <2>1. IsWellFoundedOn(StrictSubsetOrdering(Nat), FiniteSubsetsOf(Nat))
    BY FS_StrictSubsetOrderingWellFounded
  <2> HIDE DEF Below
  <2>2. QED
    BY <1>1, <1>2, <2>1, WFMin
<1>4. PICK x \in T : m = 0..x
  OBVIOUS
<1>5. ASSUME NEW y \in T PROVE x <= y
  <2>1. x \in Nat /\ y \in Nat
    OBVIOUS
  <2>2. CASE y < x
    <3>1. 0..y \subseteq 0..x /\ 0..y # 0..x
      <4>1. x \in 0..x /\ x \notin 0..y
        BY <2>1, <2>2
      <4>2. 0..y \subseteq 0..x
        BY <2>1, <2>2
      <4>3. QED
        BY <4>1, <4>2
    <3>2. <<0..y, 0..x>> \in StrictSubsetOrdering(Nat)
      <4>1. 0..y \in SUBSET Nat /\ 0..x \in SUBSET Nat
        BY <2>1
      <4>2. QED
        BY <3>1, <4>1 DEF StrictSubsetOrdering
    <3>3. QED
      BY <1>3, <1>4, <3>2
  <2>3. QED
    BY <2>1, <2>2
<1>6. QED
  BY <1>5

(* What is put at the end is the last.                                     *)
LEMMA Appended ==
  ASSUME NEW S, NEW s \in Seq(S), NEW e \in S
  PROVE  LET t == Append(s, e)  IN  Len(t) = Len(s) + 1 /\ t # <<>> /\ t[Len(t)] = e
  BY AppendProperties
-----------------------------------------------------------------------------
(* SiteRequests: the settings *)

(* Which layers of the first n say something, and what the last of them    *)
(* says: this is what merging them one by one comes to.                    *)
Saying(layers, d, n) == {i \in 1..n : layers[i][d] # "unset"}
Said(layers, d, n) ==
  IF Saying(layers, d, n) = {} THEN "unset"
  ELSE layers[CHOOSE i \in Saying(layers, d, n) : \A j \in Saying(layers, d, n) : j <= i][d]

LEMMA SaidStepwise ==
  ASSUME NEW layers, NEW d, NEW n \in Nat \ {0}
  PROVE  Said(layers, d, n) = IF layers[n][d] # "unset" THEN layers[n][d] ELSE Said(layers, d, n - 1)
<1>1. CASE layers[n][d] # "unset"
  <2> DEFINE saying == Saying(layers, d, n)
  <2>1. n \in saying /\ saying \subseteq 1..n
    BY <1>1 DEF Saying
  <2>2. \A j \in saying : j <= n
    BY <2>1
  <2>3. \A i \in saying : (\A j \in saying : j <= i) => i = n
    BY <2>1, <2>2
  <2> HIDE DEF saying
  <2>4. (CHOOSE i \in saying : \A j \in saying : j <= i) = n
    BY <2>1, <2>2, <2>3
  <2>5. QED
    BY <1>1, <2>1, <2>4 DEF Said, saying
<1>2. CASE layers[n][d] = "unset"
  <2>1. Saying(layers, d, n) = Saying(layers, d, n - 1)
    <3>1. \A i \in 1..n : i = n \/ i \in 1..(n - 1)
      OBVIOUS
    <3>2. \A i \in 1..(n - 1) : i \in 1..n
      OBVIOUS
    <3>3. QED
      BY <1>2, <3>1, <3>2 DEF Saying
  <2>2. QED
    BY <1>2, <2>1 DEF Said
<1>3. QED
  BY <1>1, <1>2

(* merge_dir_config(), layer by layer, leaves what the closest layer that  *)
(* says something says.                                                    *)
LEMMA SettingsAreClosest ==
  ASSUME NEW layers \in Seq(R!DirConfig)
  PROVE  \A d \in R!Directives : R!Settings(layers)[d] = R!ClosestOf(layers, d)
<1> DEFINE N == Len(layers)
           Unset == [d \in R!Directives |-> "unset"]
           Turn(f, n) == IF n = 0 THEN Unset ELSE R!Merge(f[n - 1], layers[n])
           told == [n \in 0..N |-> [d \in R!Directives |-> Said(layers, d, n)]]
           upTo == CHOOSE f : f = [n \in 0..N |-> Turn(f, n)]
<1>0. N \in Nat /\ DOMAIN layers = 1..N
  OBVIOUS
<1> HIDE DEF N
<1>1. \A n \in 0..N : told[n] = Turn(told, n)
  <2>1. told[0] = Unset
    <3>1. \A d \in R!Directives : Said(layers, d, 0) = "unset"
      BY DEF Said, Saying
    <3>2. QED
      BY <1>0, <3>1
  <2>2. ASSUME NEW n \in 1..N PROVE told[n] = R!Merge(told[n - 1], layers[n])
    <3>1. n \in Nat \ {0} /\ n - 1 \in 0..N /\ n \in 0..N
      BY <1>0
    <3>2. \A d \in R!Directives : told[n - 1][d] = Said(layers, d, n - 1)
      BY <3>1
    <3>3. \A d \in R!Directives : Said(layers, d, n)
             = IF layers[n][d] # "unset" THEN layers[n][d] ELSE Said(layers, d, n - 1)
      BY <3>1, SaidStepwise
    <3>4. told[n] = [d \in R!Directives |-> Said(layers, d, n)]
      BY <3>1
    <3>5. QED
      BY <3>2, <3>3, <3>4 DEF R!Merge
  <2> HIDE DEF told, Unset
  <2>3. \A n \in 0..N : n = 0 \/ n \in 1..N
    BY <1>0
  <2>4. \A n \in 1..N : n # 0
    BY <1>0
  <2>5. QED
    BY <2>1, <2>2, <2>3, <2>4
<1>2. told = [n \in 0..N |-> Turn(told, n)]
  BY <1>1
<1>3. upTo = [n \in 0..N |-> Turn(upTo, n)]
  <2> HIDE DEF told, Turn
  <2>1. \E f : f = [n \in 0..N |-> Turn(f, n)]
    BY <1>2
  <2>2. QED
    BY <2>1
<1>4. \A n \in 0..N : upTo[n] = told[n]
  <2> HIDE DEF told, upTo
  <2>1. SUFFICES ASSUME NEW k \in 0..N, upTo[k] # told[k] PROVE FALSE
    OBVIOUS
  <2> DEFINE Wrong == {n \in 0..N : upTo[n] # told[n]}
  <2>2. PICK m \in Wrong : \A n \in Wrong : m <= n
    <3>1. Wrong \subseteq Nat /\ Wrong # {}
      BY <2>1
    <3> HIDE DEF Wrong
    <3>2. QED
      BY <3>1, LeastExists
  <2>3. m \in 0..N /\ upTo[m] # told[m]
    BY <2>2
  <2>4. CASE m = 0
    BY <1>1, <1>3, <2>3, <2>4
  <2>5. CASE m # 0
    <3>1. m - 1 \in 0..N /\ ~(m <= m - 1)
      BY <1>0, <2>3, <2>5
    <3>2. upTo[m - 1] = told[m - 1]
      BY <2>2, <3>1
    <3>3. upTo[m] = Turn(upTo, m) /\ told[m] = Turn(told, m)
      BY <1>1, <1>3, <2>3
    <3>4. QED
      BY <2>3, <2>5, <3>2, <3>3
  <2>6. QED
    BY <2>4, <2>5
<1>5. R!Settings(layers) = upTo[N]
  BY DEF R!Settings, N
<1>6. \A d \in R!Directives : Said(layers, d, N) = R!ClosestOf(layers, d)
  BY <1>0 DEF Said, Saying, R!ClosestOf
<1>7. \A d \in R!Directives : told[N][d] = Said(layers, d, N)
  BY <1>0
<1> HIDE DEF told, upTo
<1>8. R!Settings(layers) = told[N]
  BY <1>0, <1>4, <1>5
<1>9. QED
  BY <1>6, <1>7, <1>8
-----------------------------------------------------------------------------
(* SiteRequests: the handlers *)

PageTyped ==
  /\ call \in [method : {"GET", "HEAD", "POST"}, target : R!Targets, fresh : BOOLEAN]
  /\ site.layers \in Layers /\ site.books \in BOOLEAN /\ site.index \in BOOLEAN
  /\ step \in {"machine", "book", "mod_dir", "shelf", "core", "lookup", "condition", "render", "write", "done"}

(* Nothing is sent before the head of an index page, and that only to a     *)
(* client that waits for a body.                                           *)
Unsent ==
  /\ step \in {"machine", "book", "mod_dir", "shelf", "core", "lookup", "condition"} => sent = <<>>
  /\ step \in {"render", "write"} => ~R!HeaderOnly /\ (sent = <<>> \/ (by = "index" /\ sent = <<"head">>))
  /\ step # "done" => status = 0
  /\ by = "nobody" <=> step \in {"machine", "book", "mod_dir", "shelf", "core"}
  /\ step \in {"lookup", "condition", "render", "write"} =>
       by \in {"index", "topic", "object", "asset", "download"}

Disclosed == /\ R!Is("machine") /\ R!Path # "other"
             /\ R!Config["index"] = "on" /\ R!Config[R!Interface] = "on"

(* The machine handler comes first, and mod_dir before the shelf.          *)
Passed ==
  /\ step \notin {"machine", "done"} => ~Disclosed
  /\ step = "done" => ((by = "machine") <=> Disclosed)
  /\ step = "shelf" => ~(R!Is("directory") /\ site.index)
  /\ step = "done" /\ by = "shelf" => R!Config["index"] = "on" /\ site.books /\ ~site.index
  /\ step \in {"condition", "render", "write"} /\ by = "download" => R!Config["download"] # "off"
  /\ step = "done" /\ by = "download" /\ status # 403 => R!Config["download"] # "off"

PageInv == PageTyped /\ Unsent /\ Passed /\ R!OneAnswer

LEMMA PageStarts == R!Init => PageInv
  BY DEF R!Init, PageInv, PageTyped, Unsent, Passed, R!OneAnswer

(* Who answers without a page of a book: nothing was sent before.          *)
LEMMA AnswerWithSends ==
  ASSUME NEW who, NEW code \in Nat, sent = <<>> \/ (who = "index" /\ sent = <<"head">>),
         R!AnswerWith(who, code), code < 400 \/ who \in {"machine", "core"}, code # 304,
         R!HeaderOnly => sent = <<>>
  PROVE  R!OneAnswer' /\ step' = "done" /\ by' = who /\ status' \in {code, 500} /\ UNCHANGED <<call, site>>
<1>1. CASE R!HeaderOnly
  BY <1>1 DEF R!AnswerWith, R!Answer, R!OneAnswer, R!HeaderOnly
<1>2. CASE ~R!HeaderOnly
  <2>1. /\ step' = "done" /\ by' = who /\ status' \in {code, 500} /\ UNCHANGED <<call, site>>
        /\ sent' = Append(sent, IF status' = code THEN "body" ELSE "cut") /\ ~R!HeaderOnly'
    BY <1>2 DEF R!AnswerWith, R!HeaderOnly
  <2>2. CASE status' = code
    BY <2>1, <2>2 DEF R!OneAnswer
  <2>3. CASE status' = 500 /\ status' # code
    <3>1. sent \in Seq({"head", "cut"})
      <4>1. <<>> \in Seq({"head", "cut"})
        OBVIOUS
      <4>2. <<"head">> \in Seq({"head", "cut"})
        OBVIOUS
      <4>3. QED
        BY <4>1, <4>2
    <3>2. sent'[Len(sent')] = "cut"
      BY <2>1, <2>3, <3>1, Appended
    <3>3. QED
      BY <2>1, <2>3, <3>2 DEF R!OneAnswer
  <2>4. QED
    BY <2>1, <2>2, <2>3
<1>3. QED
  BY <1>1, <1>2

(* Config, and what the request is, stay as they are.                      *)
LEMMA PageFixed ==
  ASSUME UNCHANGED <<call, site>>
  PROVE  /\ R!Config' = R!Config /\ R!HeaderOnly' = R!HeaderOnly /\ R!Path' = R!Path /\ R!Interface' = R!Interface
         /\ Disclosed' = Disclosed /\ \A area : R!Is(area)' = R!Is(area)
<1>1. R!Config' = R!Config
  BY DEF R!Config
<1>2. QED
  BY <1>1 DEF R!HeaderOnly, R!Path, R!Interface, Disclosed, R!Is

LEMMA PageAnswered ==
  ASSUME PageInv, UNCHANGED <<call, site>>, step' = "done", R!OneAnswer', by' # "nobody",
         (by' = "machine") <=> Disclosed,
         by' = "shelf" => R!Config["index"] = "on" /\ site.books /\ ~site.index,
         by' = "download" /\ status' # 403 => R!Config["download"] # "off"
  PROVE  PageInv'
<1>1. PageTyped' /\ Unsent'
  BY DEF PageInv, PageTyped, Unsent
<1>2. Passed'
  BY PageFixed DEF Passed
<1>3. QED
  BY <1>1, <1>2 DEF PageInv

LEMMA Declining ==
  ASSUME PageInv, NEW next, R!Decline(next), step # "done",
         next \in {"book", "mod_dir", "shelf", "core", "condition", "write"},
         next \in {"book", "mod_dir", "shelf", "core"} => by = "nobody",
         next = "condition" => step = "lookup" /\ (by = "download" => R!Config["download"] # "off"),
         next = "write" => step = "render",
         step = "machine" => ~Disclosed,
         next = "shelf" => ~(R!Is("directory") /\ site.index)
  PROVE  PageInv'
<1>1. UNCHANGED <<call, site, by, status, sent>> /\ step' = next
  BY DEF R!Decline
<1>2. PageTyped'
  BY <1>1 DEF PageInv, PageTyped
<1>3. Unsent'
  BY <1>1, PageFixed DEF PageInv, Unsent, PageTyped
<1>4. Passed'
  BY <1>1, PageFixed DEF PageInv, Passed, PageTyped
<1>5. QED
  BY <1>1, <1>2, <1>3, <1>4 DEF PageInv, R!OneAnswer

(* The handlers.  What a URL below .geist is of no other handler claims.   *)
LEMMA HandlersKeepPage ==
  ASSUME PageInv, R!Machine \/ R!Book \/ R!ModDir \/ R!Shelf \/ R!Core
  PROVE  PageInv'
<1>1. CASE R!Machine
  <2>0. step = "machine" /\ sent = <<>> /\ by = "nobody"
    BY <1>1 DEF R!Machine, PageInv, Unsent
  <2>1. CASE ~Disclosed
    <3>1. R!Decline("book")
      BY <1>1, <2>1 DEF R!Machine, Disclosed
    <3>2. QED
      BY <2>0, <2>1, <3>1, Declining
  <2>2. CASE Disclosed
    <3>1. CASE R!Path \notin {"api", "mcp"} /\ ~R!Get /\ R!Answer("machine", 405)
      <4>1. R!OneAnswer'
        BY <2>0, <3>1 DEF R!Answer, R!OneAnswer
      <4>2. QED
        BY <2>2, <3>1, <4>1, PageAnswered DEF R!Answer
    <3>2. CASE R!Answer("machine", 304)
      <4>1. R!OneAnswer'
        BY <2>0, <3>2 DEF R!Answer, R!OneAnswer
      <4>2. QED
        BY <2>2, <3>2, <4>1, PageAnswered DEF R!Answer
    <3>3. ASSUME NEW code \in {200, 400, 403, 404, 405, 500}, R!AnswerWith("machine", code)
          PROVE  PageInv'
      <4>1. R!OneAnswer' /\ step' = "done" /\ by' = "machine" /\ UNCHANGED <<call, site>>
        BY <2>0, <3>3, AnswerWithSends
      <4>2. QED
        BY <2>2, <4>1, PageAnswered
    <3>4. QED
      BY <1>1, <2>2, <3>1, <3>2, <3>3 DEF R!Machine, Disclosed
  <2>3. QED
    BY <2>1, <2>2
<1>2. CASE R!Book
  <2>0. step = "book" /\ sent = <<>> /\ by = "nobody" /\ ~Disclosed
    BY <1>2 DEF R!Book, PageInv, Unsent, Passed
  <2>1. CASE R!Decline("mod_dir")
    BY <2>0, <2>1, Declining
  <2>2. ASSUME NEW code \in {404, 405}, R!Answer("book", code) PROVE PageInv'
    <3>1. R!OneAnswer'
      BY <2>0, <2>2 DEF R!Answer, R!OneAnswer
    <3>2. QED
      BY <2>0, <2>2, <3>1, PageAnswered DEF R!Answer
  <2>3. CASE /\ IF R!Path = <<>> THEN by' = "index"
                ELSE /\ R!Path[1] # "other" /\ R!Path[2] = (R!Path[1] # "download")
                     /\ by' = R!Path[1]
             /\ R!Is("book")
             /\ step' = "lookup"
             /\ UNCHANGED <<call, site, status, sent>>
    <3>1. by' \in {"index", "topic", "object", "asset", "download"}
      <4>1. call.target \in R!Targets
        BY DEF PageInv, PageTyped
      <4>2. call.target \in [area : {"book"}, path : {<<>>} \cup ({"topic", "object", "asset", "download", "other"} \X BOOLEAN)]
        BY <2>3, <4>1 DEF R!Targets, R!Is
      <4>3. R!Path = <<>> \/ R!Path \in {"topic", "object", "asset", "download", "other"} \X BOOLEAN
        BY <4>2 DEF R!Path
      <4>4. QED
        BY <2>3, <4>3
    <3>2. PageTyped' /\ Unsent'
      BY <2>0, <2>3, <3>1 DEF PageInv, PageTyped, Unsent
    <3>3. Passed' /\ R!OneAnswer'
      BY <2>0, <2>3, PageFixed DEF Passed, R!OneAnswer
    <3>4. QED
      BY <3>2, <3>3 DEF PageInv
  <2>4. QED
    BY <1>2, <2>1, <2>2, <2>3 DEF R!Book
<1>3. CASE R!ModDir
  <2>0. step = "mod_dir" /\ sent = <<>> /\ by = "nobody" /\ ~Disclosed
    BY <1>3 DEF R!ModDir, PageInv, Unsent, Passed
  <2>1. CASE R!AnswerWith("mod_dir", 200)
    <3>1. R!OneAnswer' /\ step' = "done" /\ by' = "mod_dir" /\ UNCHANGED <<call, site>>
      BY <2>0, <2>1, AnswerWithSends
    <3>2. QED
      BY <2>0, <3>1, PageAnswered
  <2>2. CASE ~(R!Is("directory") /\ site.index) /\ R!Decline("shelf")
    BY <2>0, <2>2, Declining
  <2>3. QED
    BY <1>3, <2>1, <2>2 DEF R!ModDir
<1>4. CASE R!Shelf
  <2>0. step = "shelf" /\ sent = <<>> /\ by = "nobody" /\ ~Disclosed /\ ~(R!Is("directory") /\ site.index)
        /\ site.layers \in Layers /\ site.books \in BOOLEAN /\ site.index \in BOOLEAN
    BY <1>4 DEF R!Shelf, PageInv, PageTyped, Unsent, Passed
  <2>1. CASE R!Decline("core")
    BY <2>0, <2>1, Declining
  <2>2. CASE R!Is("directory") /\ R!Config["index"] = "on" /\ site.books
    <3>1. ASSUME NEW code \in {304, 500}, R!Answer("shelf", code) PROVE PageInv'
      <4>1. R!OneAnswer'
        BY <2>0, <3>1 DEF R!Answer, R!OneAnswer
      <4>2. QED
        BY <2>0, <2>2, <3>1, <4>1, PageAnswered DEF R!Answer
    <3>2. CASE R!AnswerWith("shelf", 200)
      <4>1. R!OneAnswer' /\ step' = "done" /\ by' = "shelf" /\ UNCHANGED <<call, site>>
        BY <2>0, <3>2, AnswerWithSends
      <4>2. QED
        BY <2>0, <2>2, <4>1, PageAnswered
    <3>3. QED
      BY <1>4, <2>1, <2>2, <3>1, <3>2 DEF R!Shelf
  <2>3. QED
    BY <1>4, <2>1, <2>2 DEF R!Shelf
<1>5. CASE R!Core
  <2>0. step = "core" /\ sent = <<>> /\ by = "nobody" /\ ~Disclosed
    BY <1>5 DEF R!Core, PageInv, Unsent, Passed
  <2>1. PICK code \in {200, 403, 404, 405} : R!AnswerWith("core", code)
    BY <1>5 DEF R!Core
  <2>2. R!OneAnswer' /\ step' = "done" /\ by' = "core" /\ UNCHANGED <<call, site>>
    BY <2>0, <2>1, AnswerWithSends
  <2>3. QED
    BY <2>0, <2>2, PageAnswered
<1>6. QED
  BY <1>1, <1>2, <1>3, <1>4, <1>5

(* The pages of a book.                                                    *)
LEMMA BooksKeepPage ==
  ASSUME PageInv, R!Lookup \/ R!Condition \/ R!RenderIndex \/ R!RenderTopic \/ R!RenderObject \/ R!Write
  PROVE  PageInv'
<1>0. /\ step \in {"lookup", "condition", "render", "write"}
      /\ by \in {"index", "topic", "object", "asset", "download"}
      /\ ~Disclosed
  BY DEF PageInv, Unsent, Passed, R!Lookup, R!Condition, R!RenderIndex, R!RenderTopic, R!RenderObject, R!Write
<1>1. ASSUME NEW code \in {304, 403, 404}, R!Answer(by, code), sent = <<>>,
             by = "download" /\ code # 403 => R!Config["download"] # "off"
      PROVE  PageInv'
  <2>1. R!OneAnswer'
    BY <1>1 DEF R!Answer, R!OneAnswer
  <2>2. QED
    BY <1>0, <1>1, <2>1, PageAnswered DEF R!Answer
<1>2. CASE R!Lookup
  <2>1. step = "lookup" /\ sent = <<>>
    BY <1>2 DEF R!Lookup, PageInv, Unsent
  <2>2. QED
    BY <1>1, <1>2, <2>1, <1>0, Declining DEF R!Lookup
<1>3. CASE R!Condition
  <2>1. step = "condition" /\ sent = <<>> /\ (by = "download" => R!Config["download"] # "off")
    BY <1>3 DEF R!Condition, PageInv, Unsent, Passed
  <2>2. CASE call.fresh /\ R!Answer(by, 304)
    BY <1>1, <2>1, <2>2
  <2>3. CASE R!HeaderOnly /\ R!Answer(by, 200)
    <3>1. R!OneAnswer'
      BY <2>1, <2>3 DEF R!Answer, R!OneAnswer
    <3>2. QED
      BY <1>0, <2>1, <2>3, <3>1, PageAnswered DEF R!Answer
  <2>4. CASE ~R!HeaderOnly /\ step' \in {"write", "render"}
             /\ sent' = (IF by = "index" THEN <<"head">> ELSE sent)
             /\ UNCHANGED <<call, site, by, status>>
    <3>1. PageTyped'
      BY <2>4 DEF PageInv, PageTyped
    <3>2. Unsent'
      BY <1>0, <2>1, <2>4, PageFixed DEF PageInv, Unsent
    <3>3. Passed' /\ R!OneAnswer'
      BY <1>0, <2>1, <2>4, PageFixed DEF Passed, R!OneAnswer
    <3>4. QED
      BY <3>1, <3>2, <3>3 DEF PageInv
  <2>5. QED
    BY <1>3, <2>2, <2>3, <2>4 DEF R!Condition
<1>4. CASE R!RenderIndex \/ R!RenderTopic \/ R!RenderObject
  <2>1. /\ step = "render" /\ ~R!HeaderOnly /\ by \in {"index", "topic", "object"}
        /\ sent = <<>> \/ by = "index"
    BY <1>4 DEF R!RenderIndex, R!RenderTopic, R!RenderObject, PageInv, Unsent
  <2>2. CASE R!Decline("write")
    BY <2>1, <2>2, Declining
  <2>3. ASSUME NEW code \in {404, 500}, R!Answer(by, code) PROVE PageInv'
    <3>1. R!OneAnswer'
      BY <2>1, <2>3 DEF R!Answer, R!OneAnswer, R!HeaderOnly
    <3>2. QED
      BY <1>0, <2>1, <2>3, <3>1, PageAnswered DEF R!Answer
  <2>4. QED
    BY <1>4, <2>2, <2>3 DEF R!RenderIndex, R!RenderTopic, R!RenderObject
<1>5. CASE R!Write
  <2>1. /\ step = "write" /\ ~R!HeaderOnly /\ (by = "download" => R!Config["download"] # "off")
        /\ (sent = <<>> \/ (by = "index" /\ sent = <<"head">>))
    BY <1>5 DEF R!Write, PageInv, Unsent, Passed
  <2>2. CASE by = "download"
    <3>1. step' = "done" /\ status' = 200 /\ UNCHANGED <<call, site, by>>
      BY <1>5, <2>2 DEF R!Write
    <3>2. R!OneAnswer'
      BY <2>1, <3>1, PageFixed DEF R!OneAnswer
    <3>3. QED
      BY <1>0, <2>1, <3>1, <3>2, PageAnswered
  <2>3. CASE by # "download"
    <3>1. R!AnswerWith(by, 200)
      BY <1>5, <2>3 DEF R!Write
    <3>2. R!OneAnswer' /\ step' = "done" /\ by' = by /\ UNCHANGED <<call, site>>
      BY <2>1, <3>1, AnswerWithSends
    <3>3. QED
      BY <1>0, <2>3, <3>2, PageAnswered
  <2>4. QED
    BY <2>2, <2>3
<1>6. QED
  BY <1>2, <1>3, <1>4, <1>5

LEMMA PageStays == PageInv /\ [R!Next]_(R!vars) => PageInv'
<1> SUFFICES ASSUME PageInv, [R!Next]_(R!vars) PROVE PageInv'
  OBVIOUS
<1>1. CASE UNCHANGED R!vars
  <2>1. UNCHANGED <<call, site>>
    BY <1>1 DEF R!vars
  <2>2. PageTyped' /\ Unsent'
    BY <1>1, <2>1, PageFixed DEF R!vars, PageInv, PageTyped, Unsent
  <2>3. Passed' /\ R!OneAnswer'
    BY <1>1, <2>1, PageFixed DEF R!vars, PageInv, Passed, R!OneAnswer
  <2>4. QED
    BY <2>2, <2>3 DEF PageInv
<1>2. QED
  BY <1>1, HandlersKeepPage, BooksKeepPage DEF R!Next

LEMMA PageInvSuffices == PageInv => R!DisclosedByTheClosest
<1> SUFFICES ASSUME PageInv PROVE R!DisclosedByTheClosest
  OBVIOUS
<1>1. \A d \in R!Directives : R!Config[d] = R!Innermost(d)
  BY LayersAssumption, SettingsAreClosest DEF PageInv, PageTyped, R!Config, R!Innermost
<1>2. {"index", "download", R!Interface} \subseteq R!Directives
  BY DEF R!Directives, R!Interface
<1>3. QED
  BY <1>1, <1>2 DEF PageInv, Passed, Disclosed, R!DisclosedByTheClosest

(* README "Machine interfaces", mod_geist.cpp:1479-1493: an interface answers
   where the closest settings disclose it and the shelf, and there alone;
   nothing but such settings shows a shelf or hands out a book. *)
THEOREM ClosestSettingsDecide == MCSpec => []DisclosedByTheClosest
<1> DEFINE Held == part = "page" => PageInv
<1>1. MCInit => Held
  BY PageStarts DEF MCInit
<1>2. Held /\ [MCNext]_all => Held'
  BY PageStays, SitePartsApart
<1>3. Held => DisclosedByTheClosest
  BY PageInvSuffices DEF DisclosedByTheClosest
<1>4. QED
  BY <1>1, <1>2, <1>3, PTL DEF MCSpec

(* mod_geist.cpp:824: no error follows a page that was begun, save on the
   index page, and neither a HEAD nor "not modified" has a body. *)
THEOREM PagesAnswerOnce == MCSpec => []OneAnswer
<1> DEFINE Held == part = "page" => PageInv
<1>1. MCInit => Held
  BY PageStarts DEF MCInit
<1>2. Held /\ [MCNext]_all => Held'
  BY PageStays, SitePartsApart
<1>3. Held => OneAnswer
  BY DEF OneAnswer, PageInv
<1>4. QED
  BY <1>1, <1>2, <1>3, PTL DEF MCSpec
-----------------------------------------------------------------------------
(* MachineApi *)

(* The book as the scan, and each opening, found it.  Only a book that is   *)
(* replaced differs from what an earlier look at it showed.                *)
Asked ==
  /\ disk \in M!Readable \cup {M!Gone, M!Broken} /\ replaced \in Nat
  /\ stage \in {"scan", "check", "ask"} => opened = <<>>
  /\ stage \in {"check", "ask", "convert"} =>
       summary \in M!Readable \cup {M!Gone, M!Broken} /\ (replaced = 0 => summary = disk)

MachineInv ==
  wanted.faults = {} =>
    /\ Asked
    /\ stage = "convert" =>
         /\ wanted.want # "shelf" /\ summary # M!Gone
         /\ \E found \in M!Readable :
              /\ opened = <<found>> /\ found.object # "none"
              /\ replaced = 0 => found = disk
    /\ M!AnswersAgree

LEMMA MachineStarts == M!Init => MachineInv
  BY DEF M!Init, MachineInv, Asked, M!AnswersAgree

LEMMA BooksAreTold ==
  /\ M!Gone # M!Broken
  /\ \A found \in M!Readable : found.state = "book" /\ found # M!Gone /\ found # M!Broken
  /\ M!Gone.state # "book" /\ M!Broken.state # "book"
  BY DEF M!Readable, M!Gone, M!Broken

(* A question that opens the book is answered for the book it opens, and    *)
(* one that does not for what the scan found.                              *)
LEMMA AskedOnce ==
  ASSUME MachineInv, wanted.faults = {}, stage = "ask", NEW reply,
         UNCHANGED wanted, UNCHANGED disk, UNCHANGED replaced, UNCHANGED summary,
         M!Opened(reply), reply <=> M!Answer(M!Content(disk, wanted.want))
  PROVE  MachineInv'
<1>1. Asked /\ opened = <<>> /\ summary \in M!Readable \cup {M!Gone, M!Broken}
      /\ (replaced = 0 => summary = disk) /\ disk \in M!Readable \cup {M!Gone, M!Broken} /\ replaced \in Nat
  BY DEF MachineInv, Asked
<1>2. CASE wanted.want = "shelf" \/ summary = M!Gone \/ disk.state # "book"
  <2>1. stage' = "done" /\ answer' = <<M!Unopened>> /\ opened' = <<>>
    BY <1>1, <1>2 DEF M!Opened, M!Answer, M!Reply
  <2>2. M!Unopened = M!Meaning(summary) \/ (replaced > 0 /\ M!Unopened = "failed")
    BY <1>1, <1>2, BooksAreTold DEF M!Unopened, M!Meaning
  <2>3. M!Meaning(summary)' = M!Meaning(summary)
    BY DEF M!Meaning
  <2>4. M!AnswersAgree'
    BY <2>1, <2>2, <2>3 DEF M!AnswersAgree
  <2>5. QED
    BY <1>1, <2>1, <2>4 DEF MachineInv, Asked
<1>3. CASE ~(wanted.want = "shelf" \/ summary = M!Gone \/ disk.state # "book")
  <2>1. stage' = "done" /\ answer' = <<M!Content(disk, wanted.want)>> /\ opened' = <<disk>>
    BY <1>1, <1>3 DEF M!Opened, M!Answer, M!Reply
  <2>2. M!Content(disk, wanted.want) = M!Meaning(disk)
    BY <1>1, <1>3, BooksAreTold DEF M!Meaning
  <2>3. M!Meaning(disk)' = M!Meaning(disk)
    BY DEF M!Meaning
  <2>4. Len(opened') = 1 /\ opened'[1] = disk' /\ opened' # <<>>
    BY <2>1
  <2>5. M!AnswersAgree'
    BY <2>1, <2>2, <2>3, <2>4 DEF M!AnswersAgree
  <2>6. QED
    BY <1>1, <2>1, <2>5 DEF MachineInv, Asked
<1>4. QED
  BY <1>2, <1>3

LEMMA MachineStays == MachineInv /\ [M!Next]_(M!vars) => MachineInv'
<1> SUFFICES ASSUME MachineInv, [M!Next]_(M!vars), wanted'.faults = {} PROVE MachineInv'
  BY DEF MachineInv
<1>1. UNCHANGED wanted /\ wanted.faults = {}
  BY DEF M!Next, M!vars, M!Replace, M!Scan, M!Check, M!CallTool, M!ReadResource, M!Dispatch, M!Convert, M!Opened, M!Answer, M!Reply
<1>2. CASE UNCHANGED M!vars
  <2>1. M!AnswersAgree'
    BY <1>1, <1>2 DEF M!vars, M!AnswersAgree, MachineInv, M!Meaning
  <2>2. QED
    BY <1>1, <1>2, <2>1 DEF M!vars, MachineInv, Asked
<1>3. CASE M!Replace
  BY <1>1, <1>3 DEF M!Replace, MachineInv, Asked, M!AnswersAgree
<1>4. CASE M!Scan
  BY <1>1, <1>4 DEF M!Scan, MachineInv, Asked, M!AnswersAgree
<1>5. CASE M!Check
  BY <1>1, <1>5 DEF M!Check, MachineInv, Asked, M!AnswersAgree
<1>6. CASE M!CallTool \/ M!ReadResource
  <2>1. UNCHANGED <<disk, replaced, summary>>
    BY <1>6 DEF M!CallTool, M!ReadResource, M!Opened, M!Answer, M!Reply
  <2>2. QED
    BY <1>1, <1>6, <2>1, AskedOnce DEF M!CallTool, M!ReadResource
<1>7. CASE M!Dispatch
  <2>1. UNCHANGED <<disk, replaced, summary>> /\ stage = "ask"
    BY <1>7 DEF M!Dispatch, M!Opened, M!Answer, M!Reply
  <2>2. CASE ~(wanted.want \in {"stored", "web"} /\ disk.object # "none")
    BY <1>1, <1>7, <2>1, <2>2, AskedOnce DEF M!Dispatch
  <2>3. CASE wanted.want \in {"stored", "web"} /\ disk.object # "none"
    <3>1. CASE wanted.want = "shelf" \/ summary = M!Gone \/ disk.state # "book"
      <4>1. M!Opened(M!Answer(M!Content(disk, wanted.want)))
        BY <1>7, <3>1 DEF M!Dispatch, M!Opened
      <4>2. QED
        BY <1>1, <2>1, <4>1, AskedOnce
    <3>2. CASE ~(wanted.want = "shelf" \/ summary = M!Gone \/ disk.state # "book")
      <4>1. opened' = <<disk>> /\ stage' = "convert" /\ disk \in M!Readable
        BY <1>1, <1>7, <2>1, <2>3, <3>2, BooksAreTold DEF M!Dispatch, M!Opened, MachineInv, Asked
      <4>2. QED
        BY <1>1, <2>1, <2>3, <3>2, <4>1 DEF MachineInv, Asked, M!AnswersAgree
    <3>3. QED
      BY <3>1, <3>2
  <2>4. QED
    BY <2>2, <2>3
<1>8. CASE M!Convert
  <2>1. PICK found \in M!Readable :
          /\ opened = <<found>> /\ found.object # "none"
          /\ replaced = 0 => found = disk
    BY <1>1, <1>8 DEF M!Convert, MachineInv
  <2>2. wanted.want # "shelf" /\ summary # M!Gone /\ Asked /\ disk \in M!Readable \cup {M!Gone, M!Broken}
        /\ replaced \in Nat /\ UNCHANGED <<disk, replaced, summary>> /\ stage' = "done"
    BY <1>1, <1>8 DEF M!Convert, MachineInv, Asked, M!Opened, M!Answer, M!Reply
  <2>3. CASE disk.state # "book"
    <3>1. answer' = <<"failed">>
      BY <1>8, <2>2, <2>3 DEF M!Convert, M!Opened, M!Answer, M!Reply, M!Unopened
    <3>2. replaced > 0
      BY <2>1, <2>2, <2>3, BooksAreTold
    <3>3. M!AnswersAgree'
      BY <2>2, <3>1, <3>2 DEF M!AnswersAgree
    <3>4. QED
      BY <2>2, <3>3 DEF MachineInv, Asked
  <2>4. CASE disk.state = "book"
    <3> DEFINE class == IF disk.object = "none" THEN "unavailable" ELSE M!Content(disk, wanted.want)
    <3>1. answer' = <<class>> /\ opened' = Append(opened, disk)
      BY <1>8, <2>2, <2>4 DEF M!Convert, M!Opened, M!Answer, M!Reply
    <3>2. <<found>> \in Seq({found, disk}) /\ Len(<<found>>) = 1
      OBVIOUS
    <3>3. Len(opened') = 2 /\ opened'[Len(opened')] = disk' /\ opened' # <<>>
      BY <2>1, <2>2, <3>1, <3>2, Appended
    <3>4. M!Meaning(disk)' = M!Content(disk, wanted.want)
      BY <1>1, <2>2, <2>4, BooksAreTold DEF M!Meaning
    <3>5. disk.object = "none" => replaced > 0
      BY <2>1, <2>2
    <3>6. M!AnswersAgree'
      BY <2>2, <3>1, <3>3, <3>4, <3>5 DEF M!AnswersAgree
    <3>7. QED
      BY <2>2, <3>6 DEF MachineInv, Asked
  <2>5. QED
    BY <2>3, <2>4
<1>9. QED
  BY <1>2, <1>3, <1>4, <1>5, <1>6, <1>7, <1>8 DEF M!Next

LEMMA MachineInvSuffices == MachineInv => M!AnswersAgree
  BY DEF MachineInv, M!AnswersAgree

(* rest.cpp:424-431, catalog.cpp: however often the book is replaced under a
   request, its answer is the one some look at the book calls for. *)
THEOREM InterfacesAgree == MCSpec => []AnswersAgree
<1> DEFINE Held == part = "machine" => MachineInv
<1>1. MCInit => Held
  BY MachineStarts DEF MCInit
<1>2. Held /\ [MCNext]_all => Held'
  BY MachineStays, SitePartsApart
<1>3. Held => AnswersAgree
  BY MachineInvSuffices DEF AnswersAgree
<1>4. QED
  BY <1>1, <1>2, <1>3, PTL DEF MCSpec
=============================================================================
