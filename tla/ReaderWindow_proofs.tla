------------------------ MODULE ReaderWindow_proofs -------------------------
(***************************************************************************)
(* Proofs about ReaderWindow for any windows, queries and bounds.  The     *)
(* inductive invariant: hosts are handed out once (Named), the registry    *)
(* holds the open books and no other (Registered), no window has another's *)
(* book in its history (Apart), and hits that are still wanted are of the  *)
(* open book and of the last search (Running).                             *)
(***************************************************************************)
EXTENDS ReaderWindow, TLAPS

Counted(w) == /\ w \in alive => generation[w] <= MaxGeneration
              /\ w \notin alive => source[w] = Empty /\ load[w] = NoLoad /\ history[w] = {}
              /\ w \notin alive /\ generation[w] = 0 => tree[w].host = Empty /\ current[w] = Empty

Named(w) == /\ source[w] <= hosts /\ load[w].host <= hosts
            /\ \A h \in history[w] : h <= hosts
            /\ load[w].at # "blank" => load[w].host \in Hosts
            /\ w \notin alive => source[w] = Empty

Registered == \A h \in Hosts : h \in registry <=> \E w \in alive : source[w] = h

Apart(w) == \A v \in Windows :
              v # w /\ source[v] # Empty =>
                source[v] # source[w] /\ source[v] # load[w].host /\ source[v] \notin history[w]

OfBook(w) == /\ w \in alive => tree[w].host = source[w] /\ current[w] \in {Empty, source[w]}
             /\ w \in alive /\ load[w].at = "serve" => load[w].host = source[w]
             /\ w \in alive /\ load[w].at = "missing" => load[w].host # source[w]

(* Hits are not from the future, and those that are wanted are those asked *)
(* for last, from the book that is open.                                   *)
Current(h) == /\ 0 < h.generation /\ h.generation <= generation[h.window]
              /\ h.window \in alive /\ h.generation = generation[h.window] =>
                   asked[h.window] = h /\ source[h.window] = h.host

Running == \A h \in searches \cup posted : Current(h)

IInv == /\ TypeOK
        /\ \A w \in Windows : Counted(w)
        /\ \A w \in Windows : Named(w)
        /\ Registered
        /\ \A w \in Windows : Apart(w)
        /\ \A w \in Windows : OfBook(w)
        /\ Running
-----------------------------------------------------------------------------
LEMMA Starts == Init => IInv
  BY BoundsAssumption, NoneAssumption
     DEF Init, IInv, TypeOK, Counted, Named, Registered, Apart, OfBook, Current,
            Running,
         Hits, Trees, Loads, Hosts, Empty, NoLoad, Blank

LEMMA LaterIs == ASSUME IInv, NEW w \in Windows, NEW n \in Nat
                 PROVE  /\ Later(w, n) \in Nat
                        /\ generation[w] + n <= Later(w, n)
                        /\ Later(w, n) <= generation[w] + n + 1
                        /\ generation[w] \in Nat
  BY BoundsAssumption DEF IInv, TypeOK, Later

LEMMA MakeReaderKeeps == ASSUME IInv, MakeReader PROVE IInv'
<1>1. TypeOK'
  <2>1. (hosts \in 0..MaxHosts /\ registry \subseteq Hosts /\ alive \subseteq Windows)'
    BY BoundsAssumption, NoneAssumption
       DEF MakeReader, IInv, TypeOK, fields, pages, Hosts, Empty
  <2>2. (source \in [Windows -> Hosts \cup {Empty}])'
    BY BoundsAssumption, NoneAssumption
       DEF MakeReader, IInv, TypeOK, fields, pages, Hosts, Empty
  <2>3. (generation \in [Windows -> 0..MaxGeneration+1])'
    BY BoundsAssumption, NoneAssumption
       DEF MakeReader, IInv, TypeOK, fields, pages, Counted
  <2>4. (text \in [Windows -> Queries \cup {None}] /\ showing \in [Windows -> BOOLEAN])'
    BY BoundsAssumption, NoneAssumption DEF MakeReader, IInv, TypeOK, fields, pages
  <2>5. (tree \in [Windows -> Trees])'
    BY BoundsAssumption, NoneAssumption
       DEF MakeReader, IInv, TypeOK, fields, pages, Trees, Hosts, Empty, Hits
  <2>6. (current \in [Windows -> Hosts \cup {Empty}] /\ history \in [Windows -> SUBSET Hosts])'
    BY BoundsAssumption, NoneAssumption
       DEF MakeReader, IInv, TypeOK, fields, pages, Hosts, Empty, Named
  <2>7. (load \in [Windows -> Loads])'
    BY BoundsAssumption, NoneAssumption
       DEF MakeReader, IInv, TypeOK, fields, pages, Loads, Hosts, Empty, NoLoad
  <2>8. (searches \subseteq Hits /\ posted \subseteq Hits /\ asked \in [Windows -> Hits \cup {None}])'
    BY BoundsAssumption, NoneAssumption
       DEF MakeReader, IInv, TypeOK, fields, pages, Hits, Hosts, Empty, Counted
  <2>9. QED
    BY <2>1, <2>2, <2>3, <2>4, <2>5, <2>6, <2>7, <2>8 DEF TypeOK
<1>2. \A v \in Windows : Counted(v)'
  <2>1. SUFFICES ASSUME NEW v \in Windows PROVE Counted(v)'
    OBVIOUS
  <2>2. QED
    BY <2>1, BoundsAssumption, NoneAssumption
       DEF MakeReader, IInv, TypeOK, Counted, Hits, Trees, Loads, Hosts, Empty, NoLoad,
              Blank, fields, pages
<1>3. \A v \in Windows : Named(v)'
  <2>1. SUFFICES ASSUME NEW v \in Windows PROVE Named(v)'
    OBVIOUS
  <2>2. QED
    BY <2>1, BoundsAssumption, NoneAssumption
       DEF MakeReader, IInv, TypeOK, Named, Hits, Trees, Loads, Hosts, Empty, NoLoad,
              Blank, fields, pages
<1>4. Registered'
  BY BoundsAssumption, NoneAssumption
     DEF MakeReader, IInv, TypeOK, Registered, Named, Hits, Trees, Loads, Hosts, Empty,
         NoLoad, Blank, fields, pages
<1>5. \A v \in Windows : Apart(v)'
  <2>1. SUFFICES ASSUME NEW v \in Windows PROVE Apart(v)'
    OBVIOUS
  <2>2. QED
    BY <2>1, BoundsAssumption, NoneAssumption
       DEF MakeReader, IInv, TypeOK, Apart, Named, Hits, Trees, Loads, Hosts, Empty,
              NoLoad, Blank, fields, pages
<1>6. \A v \in Windows : OfBook(v)'
  <2>1. SUFFICES ASSUME NEW v \in Windows PROVE OfBook(v)'
    OBVIOUS
  <2>2. QED
    BY <2>1, BoundsAssumption, NoneAssumption
       DEF MakeReader, IInv, TypeOK, OfBook, Named, Counted, Hits, Trees, Loads, Hosts,
              Empty, NoLoad, Blank, fields, pages
<1>7. Running'
  BY BoundsAssumption, NoneAssumption
     DEF MakeReader, IInv, TypeOK, Running, Current, Counted, Hits, Trees, Loads,
         Hosts, Empty, NoLoad, Blank, fields, pages
<1>8. QED
  BY <1>1, <1>2, <1>3, <1>4, <1>5, <1>6, <1>7 DEF IInv

LEMMA OpenFailsKeeps == ASSUME IInv, OpenFails PROVE IInv'
<1>1. TypeOK'
  <2>1. (hosts \in 0..MaxHosts /\ registry \subseteq Hosts /\ alive \subseteq Windows)'
    BY BoundsAssumption, NoneAssumption
       DEF OpenFails, IInv, TypeOK, fields, pages, Hosts, Empty
  <2>2. (source \in [Windows -> Hosts \cup {Empty}])'
    BY BoundsAssumption, NoneAssumption
       DEF OpenFails, IInv, TypeOK, fields, pages, Hosts, Empty
  <2>3. (generation \in [Windows -> 0..MaxGeneration+1])'
    BY BoundsAssumption, NoneAssumption
       DEF OpenFails, IInv, TypeOK, fields, pages, Counted
  <2>4. (text \in [Windows -> Queries \cup {None}] /\ showing \in [Windows -> BOOLEAN])'
    BY BoundsAssumption, NoneAssumption DEF OpenFails, IInv, TypeOK, fields, pages
  <2>5. (tree \in [Windows -> Trees])'
    BY BoundsAssumption, NoneAssumption
       DEF OpenFails, IInv, TypeOK, fields, pages, Trees, Hosts, Empty, Hits
  <2>6. (current \in [Windows -> Hosts \cup {Empty}] /\ history \in [Windows -> SUBSET Hosts])'
    BY BoundsAssumption, NoneAssumption
       DEF OpenFails, IInv, TypeOK, fields, pages, Hosts, Empty, Named
  <2>7. (load \in [Windows -> Loads])'
    BY BoundsAssumption, NoneAssumption
       DEF OpenFails, IInv, TypeOK, fields, pages, Loads, Hosts, Empty, NoLoad
  <2>8. (searches \subseteq Hits /\ posted \subseteq Hits /\ asked \in [Windows -> Hits \cup {None}])'
    BY BoundsAssumption, NoneAssumption
       DEF OpenFails, IInv, TypeOK, fields, pages, Hits, Hosts, Empty, Counted
  <2>9. QED
    BY <2>1, <2>2, <2>3, <2>4, <2>5, <2>6, <2>7, <2>8 DEF TypeOK
<1>2. \A v \in Windows : Counted(v)'
  <2>1. SUFFICES ASSUME NEW v \in Windows PROVE Counted(v)'
    OBVIOUS
  <2>2. QED
    BY <2>1, BoundsAssumption, NoneAssumption
       DEF OpenFails, IInv, TypeOK, Counted, Hits, Trees, Loads, Hosts, Empty, NoLoad,
              Blank, fields, pages
<1>3. \A v \in Windows : Named(v)'
  <2>1. SUFFICES ASSUME NEW v \in Windows PROVE Named(v)'
    OBVIOUS
  <2>2. QED
    BY <2>1, BoundsAssumption, NoneAssumption
       DEF OpenFails, IInv, TypeOK, Named, Hits, Trees, Loads, Hosts, Empty, NoLoad,
              Blank, fields, pages
<1>4. Registered'
  BY BoundsAssumption, NoneAssumption
     DEF OpenFails, IInv, TypeOK, Registered, Named, Hits, Trees, Loads, Hosts, Empty,
         NoLoad, Blank, fields, pages
<1>5. \A v \in Windows : Apart(v)'
  <2>1. SUFFICES ASSUME NEW v \in Windows PROVE Apart(v)'
    OBVIOUS
  <2>2. QED
    BY <2>1, BoundsAssumption, NoneAssumption
       DEF OpenFails, IInv, TypeOK, Apart, Named, Hits, Trees, Loads, Hosts, Empty,
              NoLoad, Blank, fields, pages
<1>6. \A v \in Windows : OfBook(v)'
  <2>1. SUFFICES ASSUME NEW v \in Windows PROVE OfBook(v)'
    OBVIOUS
  <2>2. QED
    BY <2>1, BoundsAssumption, NoneAssumption
       DEF OpenFails, IInv, TypeOK, OfBook, Named, Hits, Trees, Loads, Hosts, Empty,
              NoLoad, Blank, fields, pages
<1>7. Running'
  BY BoundsAssumption, NoneAssumption
     DEF OpenFails, IInv, TypeOK, Running, Current, Counted, Hits, Trees, Loads, Hosts,
         Empty, NoLoad, Blank, fields, pages
<1>8. QED
  BY <1>1, <1>2, <1>3, <1>4, <1>5, <1>6, <1>7 DEF IInv

LEMMA OpenBookKeeps == ASSUME IInv, NEW w \in Windows, OpenBook(w) PROVE IInv'
<1>1. TypeOK'
  <2>1. (hosts \in 0..MaxHosts /\ registry \subseteq Hosts /\ alive \subseteq Windows)'
    <3>1. hosts' = hosts + 1 /\ hosts < MaxHosts /\ hosts \in Nat /\ MaxHosts \in Nat
      BY BoundsAssumption DEF OpenBook, IInv, TypeOK
    <3>2. hosts' \in Hosts /\ hosts' \in 0..MaxHosts
      BY <3>1 DEF Hosts
    <3>3. registry' \subseteq Hosts
      BY <3>2 DEF OpenBook, IInv, TypeOK
    <3>4. alive' \subseteq Windows
      BY DEF OpenBook, IInv, TypeOK
    <3>5. QED
      BY <3>2, <3>3, <3>4
  <2>2. (source \in [Windows -> Hosts \cup {Empty}])'
    BY BoundsAssumption, NoneAssumption
       DEF OpenBook, Room, Later, Contents, Navigated, IInv, TypeOK, fields, pages,
           Hosts, Empty
  <2>3. (generation \in [Windows -> 0..MaxGeneration+1])'
    BY BoundsAssumption, NoneAssumption
       DEF OpenBook, Room, Later, Contents, Navigated, IInv, TypeOK, fields, pages,
           Counted
  <2>4. (text \in [Windows -> Queries \cup {None}] /\ showing \in [Windows -> BOOLEAN])'
    BY BoundsAssumption, NoneAssumption
       DEF OpenBook, Room, Later, Contents, Navigated, IInv, TypeOK, fields, pages
  <2>5. (tree \in [Windows -> Trees])'
    BY BoundsAssumption, NoneAssumption
       DEF OpenBook, Room, Later, Contents, Navigated, IInv, TypeOK, fields, pages,
           Trees, Hosts, Empty, Hits
  <2>6. (current \in [Windows -> Hosts \cup {Empty}] /\ history \in [Windows -> SUBSET Hosts])'
    BY BoundsAssumption, NoneAssumption
       DEF OpenBook, Room, Later, Contents, Navigated, IInv, TypeOK, fields, pages,
           Hosts, Empty, Named
  <2>7. (load \in [Windows -> Loads])'
    BY BoundsAssumption, NoneAssumption
       DEF OpenBook, Room, Later, Contents, Navigated, IInv, TypeOK, fields, pages,
           Loads, Hosts, Empty, NoLoad
  <2>8. (searches \subseteq Hits /\ posted \subseteq Hits /\ asked \in [Windows -> Hits \cup {None}])'
    BY BoundsAssumption, NoneAssumption
       DEF OpenBook, Room, Later, Contents, Navigated, IInv, TypeOK, fields, pages,
           Hits, Hosts, Empty, Counted
  <2>9. QED
    BY <2>1, <2>2, <2>3, <2>4, <2>5, <2>6, <2>7, <2>8 DEF TypeOK
<1>2. \A v \in Windows : Counted(v)'
  <2>1. SUFFICES ASSUME NEW v \in Windows PROVE Counted(v)'
    OBVIOUS
  <2>2. QED
    BY <2>1, BoundsAssumption, NoneAssumption
       DEF OpenBook, Room, Later, Contents, Navigated, IInv, TypeOK, Counted, Hits,
              Trees, Loads, Hosts, Empty, NoLoad, Blank, fields, pages
<1>3. \A v \in Windows : Named(v)'
  <2>1. SUFFICES ASSUME NEW v \in Windows PROVE Named(v)'
    OBVIOUS
  <2>2. QED
    BY <2>1, BoundsAssumption, NoneAssumption
       DEF OpenBook, Room, Later, Contents, Navigated, IInv, TypeOK, Named, Hits,
              Trees, Loads, Hosts, Empty, NoLoad, Blank, fields, pages
<1>4. Registered'
  <2>1. SUFFICES ASSUME NEW h \in Hosts
                 PROVE  h \in registry' <=> \E v \in alive' : source'[v] = h
    BY DEF Registered
  <2>2. h \in registry <=> \E v \in alive : source[v] = h
    BY DEF IInv, Registered
  <2>3. h \in Nat /\ h # Empty /\ source \in [Windows -> Hosts \cup {Empty}]
    BY BoundsAssumption DEF IInv, TypeOK, Hosts, Empty
  <2>4. alive \subseteq Windows /\ alive' = alive
    BY DEF IInv, TypeOK, OpenBook
  <2>5. /\ registry' = (registry \ {source[w]}) \cup {hosts'}
        /\ source' = [source EXCEPT ![w] = hosts'] /\ w \in alive
    BY DEF OpenBook
  <2>6. \A v \in Windows : source[v] # hosts'
    BY BoundsAssumption DEF OpenBook, IInv, TypeOK, Named, Hosts, Empty
  <2>7. \A v \in Windows : v # w /\ source[v] # Empty => source[v] # source[w]
    BY DEF IInv, Apart
  <2>8. CASE h = hosts'
    BY <2>3, <2>4, <2>5, <2>8
  <2>9. CASE h # hosts' /\ h = source[w]
    BY <2>3, <2>4, <2>5, <2>7, <2>9
  <2>10. CASE h # hosts' /\ h # source[w]
    BY <2>2, <2>3, <2>4, <2>5, <2>10
  <2>11. QED
    BY <2>8, <2>9, <2>10
<1>5. \A v \in Windows : Apart(v)'
  <2>1. SUFFICES ASSUME NEW v \in Windows PROVE Apart(v)'
    OBVIOUS
  <2>2. QED
    BY <2>1, BoundsAssumption, NoneAssumption
       DEF OpenBook, Room, Later, Contents, Navigated, IInv, TypeOK, Apart, Named,
              Hits, Trees, Loads, Hosts, Empty, NoLoad, Blank, fields, pages
<1>6. \A v \in Windows : OfBook(v)'
  <2>1. SUFFICES ASSUME NEW v \in Windows PROVE OfBook(v)'
    OBVIOUS
  <2>2. QED
    BY <2>1, BoundsAssumption, NoneAssumption
       DEF OpenBook, Room, Later, Contents, Navigated, IInv, TypeOK, OfBook, Named,
              Hits, Trees, Loads, Hosts, Empty, NoLoad, Blank, fields, pages
<1>7. Running'
  BY BoundsAssumption, NoneAssumption
     DEF OpenBook, Room, Later, Contents, Navigated, IInv, TypeOK, Running, Current,
         Counted, Hits, Trees, Loads, Hosts, Empty, NoLoad, Blank, fields, pages
<1>8. QED
  BY <1>1, <1>2, <1>3, <1>4, <1>5, <1>6, <1>7 DEF IInv

LEMMA CloseBookKeeps == ASSUME IInv, NEW w \in Windows, CloseBook(w) PROVE IInv'
<1>1. TypeOK'
  <2>1. (hosts \in 0..MaxHosts /\ registry \subseteq Hosts /\ alive \subseteq Windows)'
    BY BoundsAssumption, NoneAssumption
       DEF CloseBook, HasBook, Room, Later, Contents, IInv, TypeOK, fields, pages,
           Hosts, Empty
  <2>2. (source \in [Windows -> Hosts \cup {Empty}])'
    BY BoundsAssumption, NoneAssumption
       DEF CloseBook, HasBook, Room, Later, Contents, IInv, TypeOK, fields, pages,
           Hosts, Empty
  <2>3. (generation \in [Windows -> 0..MaxGeneration+1])'
    BY BoundsAssumption, NoneAssumption
       DEF CloseBook, HasBook, Room, Later, Contents, IInv, TypeOK, fields, pages,
           Counted
  <2>4. (text \in [Windows -> Queries \cup {None}] /\ showing \in [Windows -> BOOLEAN])'
    BY BoundsAssumption, NoneAssumption
       DEF CloseBook, HasBook, Room, Later, Contents, IInv, TypeOK, fields, pages
  <2>5. (tree \in [Windows -> Trees])'
    BY BoundsAssumption, NoneAssumption
       DEF CloseBook, HasBook, Room, Later, Contents, IInv, TypeOK, fields, pages,
           Trees, Hosts, Empty, Hits
  <2>6. (current \in [Windows -> Hosts \cup {Empty}] /\ history \in [Windows -> SUBSET Hosts])'
    BY BoundsAssumption, NoneAssumption
       DEF CloseBook, HasBook, Room, Later, Contents, IInv, TypeOK, fields, pages,
           Hosts, Empty, Named
  <2>7. (load \in [Windows -> Loads])'
    BY BoundsAssumption, NoneAssumption
       DEF CloseBook, HasBook, Room, Later, Contents, IInv, TypeOK, fields, pages,
           Loads, Hosts, Empty, NoLoad
  <2>8. (searches \subseteq Hits /\ posted \subseteq Hits /\ asked \in [Windows -> Hits \cup {None}])'
    BY BoundsAssumption, NoneAssumption
       DEF CloseBook, HasBook, Room, Later, Contents, IInv, TypeOK, fields, pages,
           Hits, Hosts, Empty, Counted
  <2>9. QED
    BY <2>1, <2>2, <2>3, <2>4, <2>5, <2>6, <2>7, <2>8 DEF TypeOK
<1>2. \A v \in Windows : Counted(v)'
  <2>1. SUFFICES ASSUME NEW v \in Windows PROVE Counted(v)'
    OBVIOUS
  <2>2. QED
    BY <2>1, BoundsAssumption, NoneAssumption
       DEF CloseBook, HasBook, Room, Later, Contents, IInv, TypeOK, Counted, Hits,
              Trees, Loads, Hosts, Empty, NoLoad, Blank, fields, pages
<1>3. \A v \in Windows : Named(v)'
  <2>1. SUFFICES ASSUME NEW v \in Windows PROVE Named(v)'
    OBVIOUS
  <2>2. QED
    BY <2>1, BoundsAssumption, NoneAssumption
       DEF CloseBook, HasBook, Room, Later, Contents, IInv, TypeOK, Named, Hits, Trees,
              Loads, Hosts, Empty, NoLoad, Blank, fields, pages
<1>4. Registered'
  <2>1. SUFFICES ASSUME NEW h \in Hosts
                 PROVE  h \in registry' <=> \E v \in alive' : source'[v] = h
    BY DEF Registered
  <2>2. h \in registry <=> \E v \in alive : source[v] = h
    BY DEF IInv, Registered
  <2>3. h \in Nat /\ h # Empty /\ source \in [Windows -> Hosts \cup {Empty}]
    BY BoundsAssumption DEF IInv, TypeOK, Hosts, Empty
  <2>4. alive \subseteq Windows /\ alive' = alive
    BY DEF IInv, TypeOK, CloseBook
  <2>5. /\ registry' = registry \ {source[w]}
        /\ source' = [source EXCEPT ![w] = Empty] /\ w \in alive
    BY DEF CloseBook, HasBook
  <2>7. \A v \in Windows : v # w /\ source[v] # Empty => source[v] # source[w]
    BY DEF IInv, Apart
  <2>8. CASE h = source[w]
    BY <2>3, <2>4, <2>5, <2>7, <2>8
  <2>9. CASE h # source[w]
    BY <2>2, <2>3, <2>4, <2>5, <2>9
  <2>10. QED
    BY <2>8, <2>9
<1>5. \A v \in Windows : Apart(v)'
  <2>1. SUFFICES ASSUME NEW v \in Windows PROVE Apart(v)'
    OBVIOUS
  <2>2. QED
    BY <2>1, BoundsAssumption, NoneAssumption
       DEF CloseBook, HasBook, Room, Later, Contents, IInv, TypeOK, Apart, Named, Hits,
              Trees, Loads, Hosts, Empty, NoLoad, Blank, fields, pages
<1>6. \A v \in Windows : OfBook(v)'
  <2>1. SUFFICES ASSUME NEW v \in Windows PROVE OfBook(v)'
    OBVIOUS
  <2>2. QED
    BY <2>1, BoundsAssumption, NoneAssumption
       DEF CloseBook, HasBook, Room, Later, Contents, IInv, TypeOK, OfBook, Named,
              Hits, Trees, Loads, Hosts, Empty, NoLoad, Blank, fields, pages
<1>7. Running'
  BY BoundsAssumption, NoneAssumption
     DEF CloseBook, HasBook, Room, Later, Contents, IInv, TypeOK, Running, Current,
         Counted, Hits, Trees, Loads, Hosts, Empty, NoLoad, Blank, fields, pages
<1>8. QED
  BY <1>1, <1>2, <1>3, <1>4, <1>5, <1>6, <1>7 DEF IInv

LEMMA DestroyKeeps == ASSUME IInv, NEW w \in Windows, Destroy(w) PROVE IInv'
<1>1. TypeOK'
  <2>1. (hosts \in 0..MaxHosts /\ registry \subseteq Hosts /\ alive \subseteq Windows)'
    BY BoundsAssumption, NoneAssumption
       DEF Destroy, IInv, TypeOK, fields, pages, Hosts, Empty
  <2>2. (source \in [Windows -> Hosts \cup {Empty}])'
    BY BoundsAssumption, NoneAssumption
       DEF Destroy, IInv, TypeOK, fields, pages, Hosts, Empty
  <2>3. (generation \in [Windows -> 0..MaxGeneration+1])'
    BY BoundsAssumption, NoneAssumption
       DEF Destroy, IInv, TypeOK, fields, pages, Counted
  <2>4. (text \in [Windows -> Queries \cup {None}] /\ showing \in [Windows -> BOOLEAN])'
    BY BoundsAssumption, NoneAssumption DEF Destroy, IInv, TypeOK, fields, pages
  <2>5. (tree \in [Windows -> Trees])'
    BY BoundsAssumption, NoneAssumption
       DEF Destroy, IInv, TypeOK, fields, pages, Trees, Hosts, Empty, Hits
  <2>6. (current \in [Windows -> Hosts \cup {Empty}] /\ history \in [Windows -> SUBSET Hosts])'
    BY BoundsAssumption, NoneAssumption
       DEF Destroy, IInv, TypeOK, fields, pages, Hosts, Empty, Named
  <2>7. (load \in [Windows -> Loads])'
    BY BoundsAssumption, NoneAssumption
       DEF Destroy, IInv, TypeOK, fields, pages, Loads, Hosts, Empty, NoLoad
  <2>8. (searches \subseteq Hits /\ posted \subseteq Hits /\ asked \in [Windows -> Hits \cup {None}])'
    BY BoundsAssumption, NoneAssumption
       DEF Destroy, IInv, TypeOK, fields, pages, Hits, Hosts, Empty, Counted
  <2>9. QED
    BY <2>1, <2>2, <2>3, <2>4, <2>5, <2>6, <2>7, <2>8 DEF TypeOK
<1>2. \A v \in Windows : Counted(v)'
  <2>1. SUFFICES ASSUME NEW v \in Windows PROVE Counted(v)'
    OBVIOUS
  <2>2. QED
    BY <2>1, BoundsAssumption, NoneAssumption
       DEF Destroy, IInv, TypeOK, Counted, Hits, Trees, Loads, Hosts, Empty, NoLoad,
              Blank, fields, pages
<1>3. \A v \in Windows : Named(v)'
  <2>1. SUFFICES ASSUME NEW v \in Windows PROVE Named(v)'
    OBVIOUS
  <2>2. QED
    BY <2>1, BoundsAssumption, NoneAssumption
       DEF Destroy, IInv, TypeOK, Named, Hits, Trees, Loads, Hosts, Empty, NoLoad,
              Blank, fields, pages
<1>4. Registered'
  <2>1. SUFFICES ASSUME NEW h \in Hosts
                 PROVE  h \in registry' <=> \E v \in alive' : source'[v] = h
    BY DEF Registered
  <2>2. h \in registry <=> \E v \in alive : source[v] = h
    BY DEF IInv, Registered
  <2>3. h \in Nat /\ h # Empty /\ source \in [Windows -> Hosts \cup {Empty}]
    BY BoundsAssumption DEF IInv, TypeOK, Hosts, Empty
  <2>4. alive \subseteq Windows /\ alive' = alive \ {w}
    BY DEF IInv, TypeOK, Destroy
  <2>5. /\ registry' = registry \ {source[w]}
        /\ source' = [source EXCEPT ![w] = Empty] /\ w \in alive
    BY DEF Destroy, HasBook
  <2>7. \A v \in Windows : v # w /\ source[v] # Empty => source[v] # source[w]
    BY DEF IInv, Apart
  <2>8. CASE h = source[w]
    BY <2>3, <2>4, <2>5, <2>7, <2>8
  <2>9. CASE h # source[w]
    BY <2>2, <2>3, <2>4, <2>5, <2>9
  <2>10. QED
    BY <2>8, <2>9
<1>5. \A v \in Windows : Apart(v)'
  <2>1. SUFFICES ASSUME NEW v \in Windows PROVE Apart(v)'
    OBVIOUS
  <2>2. QED
    BY <2>1, BoundsAssumption, NoneAssumption
       DEF Destroy, IInv, TypeOK, Apart, Named, Hits, Trees, Loads, Hosts, Empty,
              NoLoad, Blank, fields, pages
<1>6. \A v \in Windows : OfBook(v)'
  <2>1. SUFFICES ASSUME NEW v \in Windows PROVE OfBook(v)'
    OBVIOUS
  <2>2. QED
    BY <2>1, BoundsAssumption, NoneAssumption
       DEF Destroy, IInv, TypeOK, OfBook, Named, Hits, Trees, Loads, Hosts, Empty,
              NoLoad, Blank, fields, pages
<1>7. Running'
  BY BoundsAssumption, NoneAssumption
     DEF Destroy, IInv, TypeOK, Running, Current, Counted, Hits, Trees, Loads, Hosts,
         Empty, NoLoad, Blank, fields, pages
<1>8. QED
  BY <1>1, <1>2, <1>3, <1>4, <1>5, <1>6, <1>7 DEF IInv

LEMMA TypeKeeps == ASSUME IInv, NEW w \in Windows, Type(w) PROVE IInv'
<1>1. TypeOK'
  <2>1. (hosts \in 0..MaxHosts /\ registry \subseteq Hosts /\ alive \subseteq Windows)'
    BY BoundsAssumption, NoneAssumption
       DEF Type, HasBook, IInv, TypeOK, fields, pages, Hosts, Empty
  <2>2. (source \in [Windows -> Hosts \cup {Empty}])'
    BY BoundsAssumption, NoneAssumption
       DEF Type, HasBook, IInv, TypeOK, fields, pages, Hosts, Empty
  <2>3. (generation \in [Windows -> 0..MaxGeneration+1])'
    BY BoundsAssumption, NoneAssumption
       DEF Type, HasBook, IInv, TypeOK, fields, pages, Counted
  <2>4. (text \in [Windows -> Queries \cup {None}] /\ showing \in [Windows -> BOOLEAN])'
    BY BoundsAssumption, NoneAssumption DEF Type, HasBook, IInv, TypeOK, fields, pages
  <2>5. (tree \in [Windows -> Trees])'
    BY BoundsAssumption, NoneAssumption
       DEF Type, HasBook, IInv, TypeOK, fields, pages, Trees, Hosts, Empty, Hits
  <2>6. (current \in [Windows -> Hosts \cup {Empty}] /\ history \in [Windows -> SUBSET Hosts])'
    BY BoundsAssumption, NoneAssumption
       DEF Type, HasBook, IInv, TypeOK, fields, pages, Hosts, Empty, Named
  <2>7. (load \in [Windows -> Loads])'
    BY BoundsAssumption, NoneAssumption
       DEF Type, HasBook, IInv, TypeOK, fields, pages, Loads, Hosts, Empty, NoLoad
  <2>8. (searches \subseteq Hits /\ posted \subseteq Hits /\ asked \in [Windows -> Hits \cup {None}])'
    BY BoundsAssumption, NoneAssumption
       DEF Type, HasBook, IInv, TypeOK, fields, pages, Hits, Hosts, Empty, Counted
  <2>9. QED
    BY <2>1, <2>2, <2>3, <2>4, <2>5, <2>6, <2>7, <2>8 DEF TypeOK
<1>2. \A v \in Windows : Counted(v)'
  <2>1. SUFFICES ASSUME NEW v \in Windows PROVE Counted(v)'
    OBVIOUS
  <2>2. QED
    BY <2>1, BoundsAssumption, NoneAssumption
       DEF Type, HasBook, IInv, TypeOK, Counted, Hits, Trees, Loads, Hosts, Empty,
              NoLoad, Blank, fields, pages
<1>3. \A v \in Windows : Named(v)'
  <2>1. SUFFICES ASSUME NEW v \in Windows PROVE Named(v)'
    OBVIOUS
  <2>2. QED
    BY <2>1, BoundsAssumption, NoneAssumption
       DEF Type, HasBook, IInv, TypeOK, Named, Hits, Trees, Loads, Hosts, Empty,
              NoLoad, Blank, fields, pages
<1>4. Registered'
  BY BoundsAssumption, NoneAssumption
     DEF Type, HasBook, IInv, TypeOK, Registered, Named, Hits, Trees, Loads, Hosts,
         Empty, NoLoad, Blank, fields, pages
<1>5. \A v \in Windows : Apart(v)'
  <2>1. SUFFICES ASSUME NEW v \in Windows PROVE Apart(v)'
    OBVIOUS
  <2>2. QED
    BY <2>1, BoundsAssumption, NoneAssumption
       DEF Type, HasBook, IInv, TypeOK, Apart, Named, Hits, Trees, Loads, Hosts, Empty,
              NoLoad, Blank, fields, pages
<1>6. \A v \in Windows : OfBook(v)'
  <2>1. SUFFICES ASSUME NEW v \in Windows PROVE OfBook(v)'
    OBVIOUS
  <2>2. QED
    BY <2>1, BoundsAssumption, NoneAssumption
       DEF Type, HasBook, IInv, TypeOK, OfBook, Named, Hits, Trees, Loads, Hosts,
              Empty, NoLoad, Blank, fields, pages
<1>7. Running'
  BY BoundsAssumption, NoneAssumption
     DEF Type, HasBook, IInv, TypeOK, Running, Current, Counted, Hits, Trees, Loads,
         Hosts, Empty, NoLoad, Blank, fields, pages
<1>8. QED
  BY <1>1, <1>2, <1>3, <1>4, <1>5, <1>6, <1>7 DEF IInv

LEMMA ClearKeeps == ASSUME IInv, NEW w \in Windows, Clear(w) PROVE IInv'
<1>1. TypeOK'
  <2>1. (hosts \in 0..MaxHosts /\ registry \subseteq Hosts /\ alive \subseteq Windows)'
    BY BoundsAssumption, NoneAssumption
       DEF Clear, HasBook, Room, Later, Contents, IInv, TypeOK, fields, pages, Hosts,
           Empty
  <2>2. (source \in [Windows -> Hosts \cup {Empty}])'
    BY BoundsAssumption, NoneAssumption
       DEF Clear, HasBook, Room, Later, Contents, IInv, TypeOK, fields, pages, Hosts,
           Empty
  <2>3. (generation \in [Windows -> 0..MaxGeneration+1])'
    BY BoundsAssumption, NoneAssumption
       DEF Clear, HasBook, Room, Later, Contents, IInv, TypeOK, fields, pages, Counted
  <2>4. (text \in [Windows -> Queries \cup {None}] /\ showing \in [Windows -> BOOLEAN])'
    BY BoundsAssumption, NoneAssumption
       DEF Clear, HasBook, Room, Later, Contents, IInv, TypeOK, fields, pages
  <2>5. (tree \in [Windows -> Trees])'
    BY BoundsAssumption, NoneAssumption
       DEF Clear, HasBook, Room, Later, Contents, IInv, TypeOK, fields, pages, Trees,
           Hosts, Empty, Hits
  <2>6. (current \in [Windows -> Hosts \cup {Empty}] /\ history \in [Windows -> SUBSET Hosts])'
    BY BoundsAssumption, NoneAssumption
       DEF Clear, HasBook, Room, Later, Contents, IInv, TypeOK, fields, pages, Hosts,
           Empty, Named
  <2>7. (load \in [Windows -> Loads])'
    BY BoundsAssumption, NoneAssumption
       DEF Clear, HasBook, Room, Later, Contents, IInv, TypeOK, fields, pages, Loads,
           Hosts, Empty, NoLoad
  <2>8. (searches \subseteq Hits /\ posted \subseteq Hits /\ asked \in [Windows -> Hits \cup {None}])'
    BY BoundsAssumption, NoneAssumption
       DEF Clear, HasBook, Room, Later, Contents, IInv, TypeOK, fields, pages, Hits,
           Hosts, Empty, Counted
  <2>9. QED
    BY <2>1, <2>2, <2>3, <2>4, <2>5, <2>6, <2>7, <2>8 DEF TypeOK
<1>2. \A v \in Windows : Counted(v)'
  <2>1. SUFFICES ASSUME NEW v \in Windows PROVE Counted(v)'
    OBVIOUS
  <2>2. QED
    BY <2>1, BoundsAssumption, NoneAssumption
       DEF Clear, HasBook, Room, Later, Contents, IInv, TypeOK, Counted, Hits, Trees,
              Loads, Hosts, Empty, NoLoad, Blank, fields, pages
<1>3. \A v \in Windows : Named(v)'
  <2>1. SUFFICES ASSUME NEW v \in Windows PROVE Named(v)'
    OBVIOUS
  <2>2. QED
    BY <2>1, BoundsAssumption, NoneAssumption
       DEF Clear, HasBook, Room, Later, Contents, IInv, TypeOK, Named, Hits, Trees,
              Loads, Hosts, Empty, NoLoad, Blank, fields, pages
<1>4. Registered'
  BY BoundsAssumption, NoneAssumption
     DEF Clear, HasBook, Room, Later, Contents, IInv, TypeOK, Registered, Named, Hits,
         Trees, Loads, Hosts, Empty, NoLoad, Blank, fields, pages
<1>5. \A v \in Windows : Apart(v)'
  <2>1. SUFFICES ASSUME NEW v \in Windows PROVE Apart(v)'
    OBVIOUS
  <2>2. QED
    BY <2>1, BoundsAssumption, NoneAssumption
       DEF Clear, HasBook, Room, Later, Contents, IInv, TypeOK, Apart, Named, Hits,
              Trees, Loads, Hosts, Empty, NoLoad, Blank, fields, pages
<1>6. \A v \in Windows : OfBook(v)'
  <2>1. SUFFICES ASSUME NEW v \in Windows PROVE OfBook(v)'
    OBVIOUS
  <2>2. OfBook(v)
    BY DEF IInv
  <2>3. alive' = alive /\ source' = source /\ current' = current /\ load' = load
    BY DEF Clear, pages
  <2>4. v \in alive => tree'[v].host = source[v]
    <3>1. CASE showing[w]
      BY <2>2, <3>1 DEF Clear, Contents, IInv, TypeOK, OfBook
    <3>2. CASE ~showing[w]
      BY <2>2, <3>2 DEF Clear, OfBook
    <3>3. QED
      BY <3>1, <3>2
  <2>5. QED
    BY <2>2, <2>3, <2>4 DEF OfBook
<1>7. Running'
  BY BoundsAssumption, NoneAssumption
     DEF Clear, HasBook, Room, Later, Contents, IInv, TypeOK, Running, Current,
         Counted, Hits, Trees, Loads, Hosts, Empty, NoLoad, Blank, fields, pages
<1>8. QED
  BY <1>1, <1>2, <1>3, <1>4, <1>5, <1>6, <1>7 DEF IInv

LEMMA ShowContentsKeeps == ASSUME IInv, NEW w \in Windows, ShowContents(w) PROVE IInv'
<1>1. TypeOK'
  <2>1. (hosts \in 0..MaxHosts /\ registry \subseteq Hosts /\ alive \subseteq Windows)'
    BY BoundsAssumption, NoneAssumption
       DEF ShowContents, HasBook, Room, Later, Contents, Navigated, IInv, TypeOK,
           fields, pages, Hosts, Empty
  <2>2. (source \in [Windows -> Hosts \cup {Empty}])'
    BY BoundsAssumption, NoneAssumption
       DEF ShowContents, HasBook, Room, Later, Contents, Navigated, IInv, TypeOK,
           fields, pages, Hosts, Empty
  <2>3. (generation \in [Windows -> 0..MaxGeneration+1])'
    BY BoundsAssumption, NoneAssumption
       DEF ShowContents, HasBook, Room, Later, Contents, Navigated, IInv, TypeOK,
           fields, pages, Counted
  <2>4. (text \in [Windows -> Queries \cup {None}] /\ showing \in [Windows -> BOOLEAN])'
    BY BoundsAssumption, NoneAssumption
       DEF ShowContents, HasBook, Room, Later, Contents, Navigated, IInv, TypeOK,
           fields, pages
  <2>5. (tree \in [Windows -> Trees])'
    BY BoundsAssumption, NoneAssumption
       DEF ShowContents, HasBook, Room, Later, Contents, Navigated, IInv, TypeOK,
           fields, pages, Trees, Hosts, Empty, Hits
  <2>6. (current \in [Windows -> Hosts \cup {Empty}] /\ history \in [Windows -> SUBSET Hosts])'
    BY BoundsAssumption, NoneAssumption
       DEF ShowContents, HasBook, Room, Later, Contents, Navigated, IInv, TypeOK,
           fields, pages, Hosts, Empty, Named
  <2>7. (load \in [Windows -> Loads])'
    BY BoundsAssumption, NoneAssumption
       DEF ShowContents, HasBook, Room, Later, Contents, Navigated, IInv, TypeOK,
           fields, pages, Loads, Hosts, Empty, NoLoad
  <2>8. (searches \subseteq Hits /\ posted \subseteq Hits /\ asked \in [Windows -> Hits \cup {None}])'
    BY BoundsAssumption, NoneAssumption
       DEF ShowContents, HasBook, Room, Later, Contents, Navigated, IInv, TypeOK,
           fields, pages, Hits, Hosts, Empty, Counted
  <2>9. QED
    BY <2>1, <2>2, <2>3, <2>4, <2>5, <2>6, <2>7, <2>8 DEF TypeOK
<1>2. \A v \in Windows : Counted(v)'
  <2>1. SUFFICES ASSUME NEW v \in Windows PROVE Counted(v)'
    OBVIOUS
  <2>2. QED
    BY <2>1, BoundsAssumption, NoneAssumption
       DEF ShowContents, HasBook, Room, Later, Contents, Navigated, IInv, TypeOK,
              Counted, Hits, Trees, Loads, Hosts, Empty, NoLoad, Blank, fields, pages
<1>3. \A v \in Windows : Named(v)'
  <2>1. SUFFICES ASSUME NEW v \in Windows PROVE Named(v)'
    OBVIOUS
  <2>2. QED
    BY <2>1, BoundsAssumption, NoneAssumption
       DEF ShowContents, HasBook, Room, Later, Contents, Navigated, IInv, TypeOK,
              Named, Hits, Trees, Loads, Hosts, Empty, NoLoad, Blank, fields, pages
<1>4. Registered'
  BY BoundsAssumption, NoneAssumption
     DEF ShowContents, HasBook, Room, Later, Contents, Navigated, IInv, TypeOK,
         Registered, Named, Hits, Trees, Loads, Hosts, Empty, NoLoad, Blank, fields,
         pages
<1>5. \A v \in Windows : Apart(v)'
  <2>1. SUFFICES ASSUME NEW v \in Windows PROVE Apart(v)'
    OBVIOUS
  <2>2. QED
    BY <2>1, BoundsAssumption, NoneAssumption
       DEF ShowContents, HasBook, Room, Later, Contents, Navigated, IInv, TypeOK,
              Apart, Named, Hits, Trees, Loads, Hosts, Empty, NoLoad, Blank, fields,
              pages
<1>6. \A v \in Windows : OfBook(v)'
  <2>1. SUFFICES ASSUME NEW v \in Windows PROVE OfBook(v)'
    OBVIOUS
  <2>2. QED
    BY <2>1, BoundsAssumption, NoneAssumption
       DEF ShowContents, HasBook, Room, Later, Contents, Navigated, IInv, TypeOK,
              OfBook, Named, Hits, Trees, Loads, Hosts, Empty, NoLoad, Blank, fields,
              pages
<1>7. Running'
  BY BoundsAssumption, NoneAssumption
     DEF ShowContents, HasBook, Room, Later, Contents, Navigated, IInv, TypeOK,
         Running, Current, Counted, Hits, Trees, Loads, Hosts, Empty, NoLoad, Blank,
         fields, pages
<1>8. QED
  BY <1>1, <1>2, <1>3, <1>4, <1>5, <1>6, <1>7 DEF IInv

LEMMA RunEmptySearchKeeps == ASSUME IInv, NEW w \in Windows, RunEmptySearch(w) PROVE IInv'
<1>1. TypeOK'
  <2>1. (hosts \in 0..MaxHosts /\ registry \subseteq Hosts /\ alive \subseteq Windows)'
    BY BoundsAssumption, NoneAssumption
       DEF RunEmptySearch, HasBook, Room, Contents, IInv, TypeOK, fields, pages, Hosts,
           Empty
  <2>2. (source \in [Windows -> Hosts \cup {Empty}])'
    BY BoundsAssumption, NoneAssumption
       DEF RunEmptySearch, HasBook, Room, Contents, IInv, TypeOK, fields, pages, Hosts,
           Empty
  <2>3. (generation \in [Windows -> 0..MaxGeneration+1])'
    BY BoundsAssumption, NoneAssumption
       DEF RunEmptySearch, HasBook, Room, Contents, IInv, TypeOK, fields, pages,
           Counted
  <2>4. (text \in [Windows -> Queries \cup {None}] /\ showing \in [Windows -> BOOLEAN])'
    BY BoundsAssumption, NoneAssumption
       DEF RunEmptySearch, HasBook, Room, Contents, IInv, TypeOK, fields, pages
  <2>5. (tree \in [Windows -> Trees])'
    BY BoundsAssumption, NoneAssumption
       DEF RunEmptySearch, HasBook, Room, Contents, IInv, TypeOK, fields, pages, Trees,
           Hosts, Empty, Hits
  <2>6. (current \in [Windows -> Hosts \cup {Empty}] /\ history \in [Windows -> SUBSET Hosts])'
    BY BoundsAssumption, NoneAssumption
       DEF RunEmptySearch, HasBook, Room, Contents, IInv, TypeOK, fields, pages, Hosts,
           Empty, Named
  <2>7. (load \in [Windows -> Loads])'
    BY BoundsAssumption, NoneAssumption
       DEF RunEmptySearch, HasBook, Room, Contents, IInv, TypeOK, fields, pages, Loads,
           Hosts, Empty, NoLoad
  <2>8. (searches \subseteq Hits /\ posted \subseteq Hits /\ asked \in [Windows -> Hits \cup {None}])'
    BY BoundsAssumption, NoneAssumption
       DEF RunEmptySearch, HasBook, Room, Contents, IInv, TypeOK, fields, pages, Hits,
           Hosts, Empty, Counted
  <2>9. QED
    BY <2>1, <2>2, <2>3, <2>4, <2>5, <2>6, <2>7, <2>8 DEF TypeOK
<1>2. \A v \in Windows : Counted(v)'
  <2>1. SUFFICES ASSUME NEW v \in Windows PROVE Counted(v)'
    OBVIOUS
  <2>2. QED
    BY <2>1, BoundsAssumption, NoneAssumption
       DEF RunEmptySearch, HasBook, Room, Contents, IInv, TypeOK, Counted, Hits, Trees,
              Loads, Hosts, Empty, NoLoad, Blank, fields, pages
<1>3. \A v \in Windows : Named(v)'
  <2>1. SUFFICES ASSUME NEW v \in Windows PROVE Named(v)'
    OBVIOUS
  <2>2. QED
    BY <2>1, BoundsAssumption, NoneAssumption
       DEF RunEmptySearch, HasBook, Room, Contents, IInv, TypeOK, Named, Hits, Trees,
              Loads, Hosts, Empty, NoLoad, Blank, fields, pages
<1>4. Registered'
  BY BoundsAssumption, NoneAssumption
     DEF RunEmptySearch, HasBook, Room, Contents, IInv, TypeOK, Registered, Named,
         Hits, Trees, Loads, Hosts, Empty, NoLoad, Blank, fields, pages
<1>5. \A v \in Windows : Apart(v)'
  <2>1. SUFFICES ASSUME NEW v \in Windows PROVE Apart(v)'
    OBVIOUS
  <2>2. QED
    BY <2>1, BoundsAssumption, NoneAssumption
       DEF RunEmptySearch, HasBook, Room, Contents, IInv, TypeOK, Apart, Named, Hits,
              Trees, Loads, Hosts, Empty, NoLoad, Blank, fields, pages
<1>6. \A v \in Windows : OfBook(v)'
  <2>1. SUFFICES ASSUME NEW v \in Windows PROVE OfBook(v)'
    OBVIOUS
  <2>2. QED
    BY <2>1, BoundsAssumption, NoneAssumption
       DEF RunEmptySearch, HasBook, Room, Contents, IInv, TypeOK, OfBook, Named, Hits,
              Trees, Loads, Hosts, Empty, NoLoad, Blank, fields, pages
<1>7. Running'
  BY BoundsAssumption, NoneAssumption
     DEF RunEmptySearch, HasBook, Room, Contents, IInv, TypeOK, Running, Current,
         Counted, Hits, Trees, Loads, Hosts, Empty, NoLoad, Blank, fields, pages
<1>8. QED
  BY <1>1, <1>2, <1>3, <1>4, <1>5, <1>6, <1>7 DEF IInv

LEMMA RunSearchKeeps == ASSUME IInv, NEW w \in Windows, RunSearch(w) PROVE IInv'
<1>1. TypeOK'
  <2>1. (hosts \in 0..MaxHosts /\ registry \subseteq Hosts /\ alive \subseteq Windows)'
    BY BoundsAssumption, NoneAssumption
       DEF RunSearch, HasBook, Room, IInv, TypeOK, fields, pages, Hosts, Empty
  <2>2. (source \in [Windows -> Hosts \cup {Empty}])'
    BY BoundsAssumption, NoneAssumption
       DEF RunSearch, HasBook, Room, IInv, TypeOK, fields, pages, Hosts, Empty
  <2>3. (generation \in [Windows -> 0..MaxGeneration+1])'
    BY BoundsAssumption, NoneAssumption
       DEF RunSearch, HasBook, Room, IInv, TypeOK, fields, pages, Counted
  <2>4. (text \in [Windows -> Queries \cup {None}] /\ showing \in [Windows -> BOOLEAN])'
    BY BoundsAssumption, NoneAssumption
       DEF RunSearch, HasBook, Room, IInv, TypeOK, fields, pages
  <2>5. (tree \in [Windows -> Trees])'
    BY BoundsAssumption, NoneAssumption
       DEF RunSearch, HasBook, Room, IInv, TypeOK, fields, pages, Trees, Hosts, Empty,
           Hits
  <2>6. (current \in [Windows -> Hosts \cup {Empty}] /\ history \in [Windows -> SUBSET Hosts])'
    BY BoundsAssumption, NoneAssumption
       DEF RunSearch, HasBook, Room, IInv, TypeOK, fields, pages, Hosts, Empty, Named
  <2>7. (load \in [Windows -> Loads])'
    BY BoundsAssumption, NoneAssumption
       DEF RunSearch, HasBook, Room, IInv, TypeOK, fields, pages, Loads, Hosts, Empty,
           NoLoad
  <2>8. (searches \subseteq Hits /\ posted \subseteq Hits /\ asked \in [Windows -> Hits \cup {None}])'
    BY BoundsAssumption, NoneAssumption
       DEF RunSearch, HasBook, Room, IInv, TypeOK, fields, pages, Hits, Hosts, Empty,
           Counted
  <2>9. QED
    BY <2>1, <2>2, <2>3, <2>4, <2>5, <2>6, <2>7, <2>8 DEF TypeOK
<1>2. \A v \in Windows : Counted(v)'
  <2>1. SUFFICES ASSUME NEW v \in Windows PROVE Counted(v)'
    OBVIOUS
  <2>2. QED
    BY <2>1, BoundsAssumption, NoneAssumption
       DEF RunSearch, HasBook, Room, IInv, TypeOK, Counted, Hits, Trees, Loads, Hosts,
              Empty, NoLoad, Blank, fields, pages
<1>3. \A v \in Windows : Named(v)'
  <2>1. SUFFICES ASSUME NEW v \in Windows PROVE Named(v)'
    OBVIOUS
  <2>2. QED
    BY <2>1, BoundsAssumption, NoneAssumption
       DEF RunSearch, HasBook, Room, IInv, TypeOK, Named, Hits, Trees, Loads, Hosts,
              Empty, NoLoad, Blank, fields, pages
<1>4. Registered'
  BY BoundsAssumption, NoneAssumption
     DEF RunSearch, HasBook, Room, IInv, TypeOK, Registered, Named, Hits, Trees, Loads,
         Hosts, Empty, NoLoad, Blank, fields, pages
<1>5. \A v \in Windows : Apart(v)'
  <2>1. SUFFICES ASSUME NEW v \in Windows PROVE Apart(v)'
    OBVIOUS
  <2>2. QED
    BY <2>1, BoundsAssumption, NoneAssumption
       DEF RunSearch, HasBook, Room, IInv, TypeOK, Apart, Named, Hits, Trees, Loads,
              Hosts, Empty, NoLoad, Blank, fields, pages
<1>6. \A v \in Windows : OfBook(v)'
  <2>1. SUFFICES ASSUME NEW v \in Windows PROVE OfBook(v)'
    OBVIOUS
  <2>2. QED
    BY <2>1, BoundsAssumption, NoneAssumption
       DEF RunSearch, HasBook, Room, IInv, TypeOK, OfBook, Named, Hits, Trees, Loads,
              Hosts, Empty, NoLoad, Blank, fields, pages
<1>7. Running'
  BY BoundsAssumption, NoneAssumption
     DEF RunSearch, HasBook, Room, IInv, TypeOK, Running, Current, Counted, Hits,
         Trees, Loads, Hosts, Empty, NoLoad, Blank, fields, pages
<1>8. QED
  BY <1>1, <1>2, <1>3, <1>4, <1>5, <1>6, <1>7 DEF IInv

LEMMA NavigateToKeeps == ASSUME IInv, NEW w \in Windows, NavigateTo(w) PROVE IInv'
<1>1. TypeOK'
  <2>1. (hosts \in 0..MaxHosts /\ registry \subseteq Hosts /\ alive \subseteq Windows)'
    BY BoundsAssumption, NoneAssumption
       DEF NavigateTo, HasBook, Navigated, IInv, TypeOK, fields, pages, Hosts, Empty
  <2>2. (source \in [Windows -> Hosts \cup {Empty}])'
    BY BoundsAssumption, NoneAssumption
       DEF NavigateTo, HasBook, Navigated, IInv, TypeOK, fields, pages, Hosts, Empty
  <2>3. (generation \in [Windows -> 0..MaxGeneration+1])'
    BY BoundsAssumption, NoneAssumption
       DEF NavigateTo, HasBook, Navigated, IInv, TypeOK, fields, pages, Counted
  <2>4. (text \in [Windows -> Queries \cup {None}] /\ showing \in [Windows -> BOOLEAN])'
    BY BoundsAssumption, NoneAssumption
       DEF NavigateTo, HasBook, Navigated, IInv, TypeOK, fields, pages
  <2>5. (tree \in [Windows -> Trees])'
    BY BoundsAssumption, NoneAssumption
       DEF NavigateTo, HasBook, Navigated, IInv, TypeOK, fields, pages, Trees, Hosts,
           Empty, Hits
  <2>6. (current \in [Windows -> Hosts \cup {Empty}] /\ history \in [Windows -> SUBSET Hosts])'
    BY BoundsAssumption, NoneAssumption
       DEF NavigateTo, HasBook, Navigated, IInv, TypeOK, fields, pages, Hosts, Empty,
           Named
  <2>7. (load \in [Windows -> Loads])'
    BY BoundsAssumption, NoneAssumption
       DEF NavigateTo, HasBook, Navigated, IInv, TypeOK, fields, pages, Loads, Hosts,
           Empty, NoLoad
  <2>8. (searches \subseteq Hits /\ posted \subseteq Hits /\ asked \in [Windows -> Hits \cup {None}])'
    BY BoundsAssumption, NoneAssumption
       DEF NavigateTo, HasBook, Navigated, IInv, TypeOK, fields, pages, Hits, Hosts,
           Empty, Counted
  <2>9. QED
    BY <2>1, <2>2, <2>3, <2>4, <2>5, <2>6, <2>7, <2>8 DEF TypeOK
<1>2. \A v \in Windows : Counted(v)'
  <2>1. SUFFICES ASSUME NEW v \in Windows PROVE Counted(v)'
    OBVIOUS
  <2>2. QED
    BY <2>1, BoundsAssumption, NoneAssumption
       DEF NavigateTo, HasBook, Navigated, IInv, TypeOK, Counted, Hits, Trees, Loads,
              Hosts, Empty, NoLoad, Blank, fields, pages
<1>3. \A v \in Windows : Named(v)'
  <2>1. SUFFICES ASSUME NEW v \in Windows PROVE Named(v)'
    OBVIOUS
  <2>2. QED
    BY <2>1, BoundsAssumption, NoneAssumption
       DEF NavigateTo, HasBook, Navigated, IInv, TypeOK, Named, Hits, Trees, Loads,
              Hosts, Empty, NoLoad, Blank, fields, pages
<1>4. Registered'
  BY BoundsAssumption, NoneAssumption
     DEF NavigateTo, HasBook, Navigated, IInv, TypeOK, Registered, Named, Hits, Trees,
         Loads, Hosts, Empty, NoLoad, Blank, fields, pages
<1>5. \A v \in Windows : Apart(v)'
  <2>1. SUFFICES ASSUME NEW v \in Windows PROVE Apart(v)'
    OBVIOUS
  <2>2. QED
    BY <2>1, BoundsAssumption, NoneAssumption
       DEF NavigateTo, HasBook, Navigated, IInv, TypeOK, Apart, Named, Hits, Trees,
              Loads, Hosts, Empty, NoLoad, Blank, fields, pages
<1>6. \A v \in Windows : OfBook(v)'
  <2>1. SUFFICES ASSUME NEW v \in Windows PROVE OfBook(v)'
    OBVIOUS
  <2>2. QED
    BY <2>1, BoundsAssumption, NoneAssumption
       DEF NavigateTo, HasBook, Navigated, IInv, TypeOK, OfBook, Named, Hits, Trees,
              Loads, Hosts, Empty, NoLoad, Blank, fields, pages
<1>7. Running'
  BY BoundsAssumption, NoneAssumption
     DEF NavigateTo, HasBook, Navigated, IInv, TypeOK, Running, Current, Counted, Hits,
         Trees, Loads, Hosts, Empty, NoLoad, Blank, fields, pages
<1>8. QED
  BY <1>1, <1>2, <1>3, <1>4, <1>5, <1>6, <1>7 DEF IInv

LEMMA GoBackKeeps == ASSUME IInv, NEW w \in Windows, GoBack(w) PROVE IInv'
<1>1. TypeOK'
  <2>1. (hosts \in 0..MaxHosts /\ registry \subseteq Hosts /\ alive \subseteq Windows)'
    BY BoundsAssumption, NoneAssumption
       DEF GoBack, Navigated, IInv, TypeOK, fields, pages, Hosts, Empty
  <2>2. (source \in [Windows -> Hosts \cup {Empty}])'
    BY BoundsAssumption, NoneAssumption
       DEF GoBack, Navigated, IInv, TypeOK, fields, pages, Hosts, Empty
  <2>3. (generation \in [Windows -> 0..MaxGeneration+1])'
    BY BoundsAssumption, NoneAssumption
       DEF GoBack, Navigated, IInv, TypeOK, fields, pages, Counted
  <2>4. (text \in [Windows -> Queries \cup {None}] /\ showing \in [Windows -> BOOLEAN])'
    BY BoundsAssumption, NoneAssumption
       DEF GoBack, Navigated, IInv, TypeOK, fields, pages
  <2>5. (tree \in [Windows -> Trees])'
    BY BoundsAssumption, NoneAssumption
       DEF GoBack, Navigated, IInv, TypeOK, fields, pages, Trees, Hosts, Empty, Hits
  <2>6. (current \in [Windows -> Hosts \cup {Empty}] /\ history \in [Windows -> SUBSET Hosts])'
    BY BoundsAssumption, NoneAssumption
       DEF GoBack, Navigated, IInv, TypeOK, fields, pages, Hosts, Empty, Named
  <2>7. (load \in [Windows -> Loads])'
    BY BoundsAssumption, NoneAssumption
       DEF GoBack, Navigated, IInv, TypeOK, fields, pages, Loads, Hosts, Empty, NoLoad
  <2>8. (searches \subseteq Hits /\ posted \subseteq Hits /\ asked \in [Windows -> Hits \cup {None}])'
    BY BoundsAssumption, NoneAssumption
       DEF GoBack, Navigated, IInv, TypeOK, fields, pages, Hits, Hosts, Empty, Counted
  <2>9. QED
    BY <2>1, <2>2, <2>3, <2>4, <2>5, <2>6, <2>7, <2>8 DEF TypeOK
<1>2. \A v \in Windows : Counted(v)'
  <2>1. SUFFICES ASSUME NEW v \in Windows PROVE Counted(v)'
    OBVIOUS
  <2>2. QED
    BY <2>1, BoundsAssumption, NoneAssumption
       DEF GoBack, Navigated, IInv, TypeOK, Counted, Hits, Trees, Loads, Hosts, Empty,
              NoLoad, Blank, fields, pages
<1>3. \A v \in Windows : Named(v)'
  <2>1. SUFFICES ASSUME NEW v \in Windows PROVE Named(v)'
    OBVIOUS
  <2>2. QED
    BY <2>1, BoundsAssumption, NoneAssumption
       DEF GoBack, Navigated, IInv, TypeOK, Named, Hits, Trees, Loads, Hosts, Empty,
              NoLoad, Blank, fields, pages
<1>4. Registered'
  BY BoundsAssumption, NoneAssumption
     DEF GoBack, Navigated, IInv, TypeOK, Registered, Named, Hits, Trees, Loads, Hosts,
         Empty, NoLoad, Blank, fields, pages
<1>5. \A v \in Windows : Apart(v)'
  <2>1. SUFFICES ASSUME NEW v \in Windows PROVE Apart(v)'
    OBVIOUS
  <2>2. QED
    BY <2>1, BoundsAssumption, NoneAssumption
       DEF GoBack, Navigated, IInv, TypeOK, Apart, Named, Hits, Trees, Loads, Hosts,
              Empty, NoLoad, Blank, fields, pages
<1>6. \A v \in Windows : OfBook(v)'
  <2>1. SUFFICES ASSUME NEW v \in Windows PROVE OfBook(v)'
    OBVIOUS
  <2>2. QED
    BY <2>1, BoundsAssumption, NoneAssumption
       DEF GoBack, Navigated, IInv, TypeOK, OfBook, Named, Hits, Trees, Loads, Hosts,
              Empty, NoLoad, Blank, fields, pages
<1>7. Running'
  BY BoundsAssumption, NoneAssumption
     DEF GoBack, Navigated, IInv, TypeOK, Running, Current, Counted, Hits, Trees,
         Loads, Hosts, Empty, NoLoad, Blank, fields, pages
<1>8. QED
  BY <1>1, <1>2, <1>3, <1>4, <1>5, <1>6, <1>7 DEF IInv

LEMMA StartKeeps == ASSUME IInv, NEW w \in Windows, Start(w) PROVE IInv'
<1>1. TypeOK'
  <2>1. (hosts \in 0..MaxHosts /\ registry \subseteq Hosts /\ alive \subseteq Windows)'
    BY BoundsAssumption, NoneAssumption
       DEF Start, IInv, TypeOK, fields, pages, Hosts, Empty
  <2>2. (source \in [Windows -> Hosts \cup {Empty}])'
    BY BoundsAssumption, NoneAssumption
       DEF Start, IInv, TypeOK, fields, pages, Hosts, Empty
  <2>3. (generation \in [Windows -> 0..MaxGeneration+1])'
    BY BoundsAssumption, NoneAssumption DEF Start, IInv, TypeOK, fields, pages, Counted
  <2>4. (text \in [Windows -> Queries \cup {None}] /\ showing \in [Windows -> BOOLEAN])'
    BY BoundsAssumption, NoneAssumption DEF Start, IInv, TypeOK, fields, pages
  <2>5. (tree \in [Windows -> Trees])'
    BY BoundsAssumption, NoneAssumption
       DEF Start, IInv, TypeOK, fields, pages, Trees, Hosts, Empty, Hits
  <2>6. (current \in [Windows -> Hosts \cup {Empty}] /\ history \in [Windows -> SUBSET Hosts])'
    BY BoundsAssumption, NoneAssumption
       DEF Start, IInv, TypeOK, fields, pages, Hosts, Empty, Named
  <2>7. (load \in [Windows -> Loads])'
    BY BoundsAssumption, NoneAssumption
       DEF Start, IInv, TypeOK, fields, pages, Loads, Hosts, Empty, NoLoad
  <2>8. (searches \subseteq Hits /\ posted \subseteq Hits /\ asked \in [Windows -> Hits \cup {None}])'
    BY BoundsAssumption, NoneAssumption
       DEF Start, IInv, TypeOK, fields, pages, Hits, Hosts, Empty, Counted
  <2>9. QED
    BY <2>1, <2>2, <2>3, <2>4, <2>5, <2>6, <2>7, <2>8 DEF TypeOK
<1>2. \A v \in Windows : Counted(v)'
  <2>1. SUFFICES ASSUME NEW v \in Windows PROVE Counted(v)'
    OBVIOUS
  <2>2. QED
    BY <2>1, BoundsAssumption, NoneAssumption
       DEF Start, IInv, TypeOK, Counted, Hits, Trees, Loads, Hosts, Empty, NoLoad,
              Blank, fields, pages
<1>3. \A v \in Windows : Named(v)'
  <2>1. SUFFICES ASSUME NEW v \in Windows PROVE Named(v)'
    OBVIOUS
  <2>2. QED
    BY <2>1, BoundsAssumption, NoneAssumption
       DEF Start, IInv, TypeOK, Named, Hits, Trees, Loads, Hosts, Empty, NoLoad, Blank,
              fields, pages
<1>4. Registered'
  BY BoundsAssumption, NoneAssumption
     DEF Start, IInv, TypeOK, Registered, Named, Hits, Trees, Loads, Hosts, Empty,
         NoLoad, Blank, fields, pages
<1>5. \A v \in Windows : Apart(v)'
  <2>1. SUFFICES ASSUME NEW v \in Windows PROVE Apart(v)'
    OBVIOUS
  <2>2. QED
    BY <2>1, BoundsAssumption, NoneAssumption
       DEF Start, IInv, TypeOK, Apart, Named, Hits, Trees, Loads, Hosts, Empty, NoLoad,
              Blank, fields, pages
<1>6. \A v \in Windows : OfBook(v)'
  <2>1. SUFFICES ASSUME NEW v \in Windows PROVE OfBook(v)'
    OBVIOUS
  <2>2. OfBook(v)
    BY DEF IInv
  <2>3. alive' = alive /\ source' = source /\ current' = current /\ tree' = tree
    BY DEF Start, fields
  <2>4. CASE v # w
    <3>1. load'[v] = load[v]
      BY <2>4 DEF Start, IInv, TypeOK
    <3>2. QED
      BY <2>2, <2>3, <3>1 DEF OfBook
  <2>5. CASE v = w
    <3>1. load[w].host \in Hosts
      BY DEF Start, IInv, Named
    <3>2. load[w].host \in registry <=> \E u \in alive : source[u] = load[w].host
      BY <3>1 DEF IInv, Registered
    <3>3. \A u \in alive : source[u] = load[w].host => u = w
      BY <3>1, BoundsAssumption DEF IInv, TypeOK, Apart, Hosts, Empty
    <3>4. /\ load'[w].host = load[w].host
          /\ load'[w].at = IF load[w].host \in registry THEN "serve" ELSE "missing"
      BY DEF Start, IInv, TypeOK, Loads
    <3>5. QED
      BY <2>2, <2>3, <2>5, <3>2, <3>3, <3>4 DEF OfBook
  <2>6. QED
    BY <2>4, <2>5
<1>7. Running'
  BY BoundsAssumption, NoneAssumption
     DEF Start, IInv, TypeOK, Running, Current, Counted, Hits, Trees, Loads, Hosts,
         Empty, NoLoad, Blank, fields, pages
<1>8. QED
  BY <1>1, <1>2, <1>3, <1>4, <1>5, <1>6, <1>7 DEF IInv

LEMMA NavigateCompleteKeeps == ASSUME IInv, NEW w \in Windows, NavigateComplete(w) PROVE IInv'
<1>1. TypeOK'
  <2>1. (hosts \in 0..MaxHosts /\ registry \subseteq Hosts /\ alive \subseteq Windows)'
    BY BoundsAssumption, NoneAssumption
       DEF NavigateComplete, HasBook, IInv, TypeOK, fields, pages, Hosts, Empty
  <2>2. (source \in [Windows -> Hosts \cup {Empty}])'
    BY BoundsAssumption, NoneAssumption
       DEF NavigateComplete, HasBook, IInv, TypeOK, fields, pages, Hosts, Empty
  <2>3. (generation \in [Windows -> 0..MaxGeneration+1])'
    BY BoundsAssumption, NoneAssumption
       DEF NavigateComplete, HasBook, IInv, TypeOK, fields, pages, Counted
  <2>4. (text \in [Windows -> Queries \cup {None}] /\ showing \in [Windows -> BOOLEAN])'
    BY BoundsAssumption, NoneAssumption
       DEF NavigateComplete, HasBook, IInv, TypeOK, fields, pages
  <2>5. (tree \in [Windows -> Trees])'
    BY BoundsAssumption, NoneAssumption
       DEF NavigateComplete, HasBook, IInv, TypeOK, fields, pages, Trees, Hosts, Empty,
           Hits
  <2>6. (current \in [Windows -> Hosts \cup {Empty}] /\ history \in [Windows -> SUBSET Hosts])'
    BY BoundsAssumption, NoneAssumption
       DEF NavigateComplete, HasBook, IInv, TypeOK, fields, pages, Hosts, Empty, Named
  <2>7. (load \in [Windows -> Loads])'
    BY BoundsAssumption, NoneAssumption
       DEF NavigateComplete, HasBook, IInv, TypeOK, fields, pages, Loads, Hosts, Empty,
           NoLoad
  <2>8. (searches \subseteq Hits /\ posted \subseteq Hits /\ asked \in [Windows -> Hits \cup {None}])'
    BY BoundsAssumption, NoneAssumption
       DEF NavigateComplete, HasBook, IInv, TypeOK, fields, pages, Hits, Hosts, Empty,
           Counted
  <2>9. QED
    BY <2>1, <2>2, <2>3, <2>4, <2>5, <2>6, <2>7, <2>8 DEF TypeOK
<1>2. \A v \in Windows : Counted(v)'
  <2>1. SUFFICES ASSUME NEW v \in Windows PROVE Counted(v)'
    OBVIOUS
  <2>2. QED
    BY <2>1, BoundsAssumption, NoneAssumption
       DEF NavigateComplete, HasBook, IInv, TypeOK, Counted, Hits, Trees, Loads, Hosts,
              Empty, NoLoad, Blank, fields, pages
<1>3. \A v \in Windows : Named(v)'
  <2>1. SUFFICES ASSUME NEW v \in Windows PROVE Named(v)'
    OBVIOUS
  <2>2. QED
    BY <2>1, BoundsAssumption, NoneAssumption
       DEF NavigateComplete, HasBook, IInv, TypeOK, Named, Hits, Trees, Loads, Hosts,
              Empty, NoLoad, Blank, fields, pages
<1>4. Registered'
  BY BoundsAssumption, NoneAssumption
     DEF NavigateComplete, HasBook, IInv, TypeOK, Registered, Named, Hits, Trees,
         Loads, Hosts, Empty, NoLoad, Blank, fields, pages
<1>5. \A v \in Windows : Apart(v)'
  <2>1. SUFFICES ASSUME NEW v \in Windows PROVE Apart(v)'
    OBVIOUS
  <2>2. QED
    BY <2>1, BoundsAssumption, NoneAssumption
       DEF NavigateComplete, HasBook, IInv, TypeOK, Apart, Named, Hits, Trees, Loads,
              Hosts, Empty, NoLoad, Blank, fields, pages
<1>6. \A v \in Windows : OfBook(v)'
  <2>1. SUFFICES ASSUME NEW v \in Windows PROVE OfBook(v)'
    OBVIOUS
  <2>2. QED
    BY <2>1, BoundsAssumption, NoneAssumption
       DEF NavigateComplete, HasBook, IInv, TypeOK, OfBook, Named, Hits, Trees, Loads,
              Hosts, Empty, NoLoad, Blank, fields, pages
<1>7. Running'
  BY BoundsAssumption, NoneAssumption
     DEF NavigateComplete, HasBook, IInv, TypeOK, Running, Current, Counted, Hits,
         Trees, Loads, Hosts, Empty, NoLoad, Blank, fields, pages
<1>8. QED
  BY <1>1, <1>2, <1>3, <1>4, <1>5, <1>6, <1>7 DEF IInv

LEMMA SearchEndsKeeps == ASSUME IInv, NEW hits \in Hits, SearchEnds(hits) PROVE IInv'
<1>1. TypeOK'
  <2>1. (hosts \in 0..MaxHosts /\ registry \subseteq Hosts /\ alive \subseteq Windows)'
    BY BoundsAssumption, NoneAssumption
       DEF SearchEnds, IInv, TypeOK, fields, pages, Hosts, Empty
  <2>2. (source \in [Windows -> Hosts \cup {Empty}])'
    BY BoundsAssumption, NoneAssumption
       DEF SearchEnds, IInv, TypeOK, fields, pages, Hosts, Empty
  <2>3. (generation \in [Windows -> 0..MaxGeneration+1])'
    BY BoundsAssumption, NoneAssumption
       DEF SearchEnds, IInv, TypeOK, fields, pages, Counted
  <2>4. (text \in [Windows -> Queries \cup {None}] /\ showing \in [Windows -> BOOLEAN])'
    BY BoundsAssumption, NoneAssumption DEF SearchEnds, IInv, TypeOK, fields, pages
  <2>5. (tree \in [Windows -> Trees])'
    BY BoundsAssumption, NoneAssumption
       DEF SearchEnds, IInv, TypeOK, fields, pages, Trees, Hosts, Empty, Hits
  <2>6. (current \in [Windows -> Hosts \cup {Empty}] /\ history \in [Windows -> SUBSET Hosts])'
    BY BoundsAssumption, NoneAssumption
       DEF SearchEnds, IInv, TypeOK, fields, pages, Hosts, Empty, Named
  <2>7. (load \in [Windows -> Loads])'
    BY BoundsAssumption, NoneAssumption
       DEF SearchEnds, IInv, TypeOK, fields, pages, Loads, Hosts, Empty, NoLoad
  <2>8. (searches \subseteq Hits /\ posted \subseteq Hits /\ asked \in [Windows -> Hits \cup {None}])'
    BY BoundsAssumption, NoneAssumption
       DEF SearchEnds, IInv, TypeOK, fields, pages, Hits, Hosts, Empty, Counted
  <2>9. QED
    BY <2>1, <2>2, <2>3, <2>4, <2>5, <2>6, <2>7, <2>8 DEF TypeOK
<1>2. \A v \in Windows : Counted(v)'
  <2>1. SUFFICES ASSUME NEW v \in Windows PROVE Counted(v)'
    OBVIOUS
  <2>2. QED
    BY <2>1, BoundsAssumption, NoneAssumption
       DEF SearchEnds, IInv, TypeOK, Counted, Hits, Trees, Loads, Hosts, Empty, NoLoad,
              Blank, fields, pages
<1>3. \A v \in Windows : Named(v)'
  <2>1. SUFFICES ASSUME NEW v \in Windows PROVE Named(v)'
    OBVIOUS
  <2>2. QED
    BY <2>1, BoundsAssumption, NoneAssumption
       DEF SearchEnds, IInv, TypeOK, Named, Hits, Trees, Loads, Hosts, Empty, NoLoad,
              Blank, fields, pages
<1>4. Registered'
  BY BoundsAssumption, NoneAssumption
     DEF SearchEnds, IInv, TypeOK, Registered, Named, Hits, Trees, Loads, Hosts, Empty,
         NoLoad, Blank, fields, pages
<1>5. \A v \in Windows : Apart(v)'
  <2>1. SUFFICES ASSUME NEW v \in Windows PROVE Apart(v)'
    OBVIOUS
  <2>2. QED
    BY <2>1, BoundsAssumption, NoneAssumption
       DEF SearchEnds, IInv, TypeOK, Apart, Named, Hits, Trees, Loads, Hosts, Empty,
              NoLoad, Blank, fields, pages
<1>6. \A v \in Windows : OfBook(v)'
  <2>1. SUFFICES ASSUME NEW v \in Windows PROVE OfBook(v)'
    OBVIOUS
  <2>2. QED
    BY <2>1, BoundsAssumption, NoneAssumption
       DEF SearchEnds, IInv, TypeOK, OfBook, Named, Hits, Trees, Loads, Hosts, Empty,
              NoLoad, Blank, fields, pages
<1>7. Running'
  BY BoundsAssumption, NoneAssumption
     DEF SearchEnds, IInv, TypeOK, Running, Current, Counted, Hits, Trees, Loads,
         Hosts, Empty, NoLoad, Blank, fields, pages
<1>8. QED
  BY <1>1, <1>2, <1>3, <1>4, <1>5, <1>6, <1>7 DEF IInv

LEMMA ShowSearchResultsKeeps == ASSUME IInv, NEW hits \in Hits, ShowSearchResults(hits) PROVE IInv'
<1>1. TypeOK'
  <2>1. (hosts \in 0..MaxHosts /\ registry \subseteq Hosts /\ alive \subseteq Windows)'
    BY BoundsAssumption, NoneAssumption
       DEF ShowSearchResults, Wanted, HasBook, IInv, TypeOK, fields, pages, Hosts,
           Empty
  <2>2. (source \in [Windows -> Hosts \cup {Empty}])'
    BY BoundsAssumption, NoneAssumption
       DEF ShowSearchResults, Wanted, HasBook, IInv, TypeOK, fields, pages, Hosts,
           Empty
  <2>3. (generation \in [Windows -> 0..MaxGeneration+1])'
    BY BoundsAssumption, NoneAssumption
       DEF ShowSearchResults, Wanted, HasBook, IInv, TypeOK, fields, pages, Counted
  <2>4. (text \in [Windows -> Queries \cup {None}] /\ showing \in [Windows -> BOOLEAN])'
    BY BoundsAssumption, NoneAssumption
       DEF ShowSearchResults, Wanted, HasBook, IInv, TypeOK, fields, pages
  <2>5. (tree \in [Windows -> Trees])'
    BY BoundsAssumption, NoneAssumption
       DEF ShowSearchResults, Wanted, HasBook, IInv, TypeOK, fields, pages, Trees,
           Hosts, Empty, Hits
  <2>6. (current \in [Windows -> Hosts \cup {Empty}] /\ history \in [Windows -> SUBSET Hosts])'
    BY BoundsAssumption, NoneAssumption
       DEF ShowSearchResults, Wanted, HasBook, IInv, TypeOK, fields, pages, Hosts,
           Empty, Named
  <2>7. (load \in [Windows -> Loads])'
    BY BoundsAssumption, NoneAssumption
       DEF ShowSearchResults, Wanted, HasBook, IInv, TypeOK, fields, pages, Loads,
           Hosts, Empty, NoLoad
  <2>8. (searches \subseteq Hits /\ posted \subseteq Hits /\ asked \in [Windows -> Hits \cup {None}])'
    BY BoundsAssumption, NoneAssumption
       DEF ShowSearchResults, Wanted, HasBook, IInv, TypeOK, fields, pages, Hits,
           Hosts, Empty, Counted
  <2>9. QED
    BY <2>1, <2>2, <2>3, <2>4, <2>5, <2>6, <2>7, <2>8 DEF TypeOK
<1>2. \A v \in Windows : Counted(v)'
  <2>1. SUFFICES ASSUME NEW v \in Windows PROVE Counted(v)'
    OBVIOUS
  <2>2. QED
    BY <2>1, BoundsAssumption, NoneAssumption
       DEF ShowSearchResults, Wanted, HasBook, IInv, TypeOK, Counted, Hits, Trees,
              Loads, Hosts, Empty, NoLoad, Blank, fields, pages
<1>3. \A v \in Windows : Named(v)'
  <2>1. SUFFICES ASSUME NEW v \in Windows PROVE Named(v)'
    OBVIOUS
  <2>2. QED
    BY <2>1, BoundsAssumption, NoneAssumption
       DEF ShowSearchResults, Wanted, HasBook, IInv, TypeOK, Named, Hits, Trees, Loads,
              Hosts, Empty, NoLoad, Blank, fields, pages
<1>4. Registered'
  BY BoundsAssumption, NoneAssumption
     DEF ShowSearchResults, Wanted, HasBook, IInv, TypeOK, Registered, Named, Hits,
         Trees, Loads, Hosts, Empty, NoLoad, Blank, fields, pages
<1>5. \A v \in Windows : Apart(v)'
  <2>1. SUFFICES ASSUME NEW v \in Windows PROVE Apart(v)'
    OBVIOUS
  <2>2. QED
    BY <2>1, BoundsAssumption, NoneAssumption
       DEF ShowSearchResults, Wanted, HasBook, IInv, TypeOK, Apart, Named, Hits, Trees,
              Loads, Hosts, Empty, NoLoad, Blank, fields, pages
<1>6. \A v \in Windows : OfBook(v)'
  <2>1. SUFFICES ASSUME NEW v \in Windows PROVE OfBook(v)'
    OBVIOUS
  <2>2. OfBook(v)
    BY DEF IInv
  <2>3. alive' = alive /\ source' = source /\ current' = current /\ load' = load
    BY DEF ShowSearchResults, pages
  <2>4. v \in alive => tree'[v].host = source[v]
    <3>1. CASE Wanted(hits)
      <4>1. source[hits.window] = hits.host
        BY <3>1 DEF ShowSearchResults, Wanted, HasBook, IInv, Running, Current
      <4>2. tree' = [tree EXCEPT ![hits.window] = [host |-> hits.host, query |-> hits.query]]
        BY <3>1 DEF ShowSearchResults
      <4>3. QED
        BY <2>2, <4>1, <4>2 DEF OfBook, IInv, TypeOK
    <3>2. CASE ~Wanted(hits)
      BY <2>2, <3>2 DEF ShowSearchResults, OfBook
    <3>3. QED
      BY <3>1, <3>2
  <2>5. QED
    BY <2>2, <2>3, <2>4 DEF OfBook
<1>7. Running'
  BY BoundsAssumption, NoneAssumption
     DEF ShowSearchResults, Wanted, HasBook, IInv, TypeOK, Running, Current, Counted,
         Hits, Trees, Loads, Hosts, Empty, NoLoad, Blank, fields, pages
<1>8. QED
  BY <1>1, <1>2, <1>3, <1>4, <1>5, <1>6, <1>7 DEF IInv

LEMMA StutterKeeps == ASSUME IInv, UNCHANGED vars PROVE IInv'
  BY DEF vars, fields, pages, IInv, TypeOK, Counted, Named, Registered, Apart, OfBook,
         Current, Running

THEOREM Invariance == Spec => []IInv
<1>1. Init => IInv
  BY Starts
<1>2. ASSUME IInv, Next PROVE IInv'
  BY <1>2, MakeReaderKeeps, OpenFailsKeeps, OpenBookKeeps, CloseBookKeeps, DestroyKeeps,
     TypeKeeps, ClearKeeps, ShowContentsKeeps, RunEmptySearchKeeps, RunSearchKeeps,
     NavigateToKeeps, GoBackKeeps, ShowSearchResultsKeeps, StartKeeps,
     NavigateCompleteKeeps, SearchEndsKeeps
     DEF Next, User, IInv, TypeOK
<1>3. IInv /\ [Next]_vars => IInv'
  BY <1>2, StutterKeeps
<1>4. QED
  BY <1>1, <1>3, PTL DEF Spec

(* Type correctness of windows, searches, queues and pages.                *)
THEOREM Typed == Spec => []TypeOK
  BY Invariance, PTL DEF IInv

(* Tree, results and current topic of a window are always of its own book. *)
THEOREM OneBook == Spec => []OneBookPerWindow
<1>1. IInv => OneBookPerWindow
  BY DEF IInv, TypeOK, OfBook, OneBookPerWindow
<1>2. QED
  BY <1>1, Invariance, PTL

(* A window is never served a page of a book it does not show.             *)
THEOREM PagesOwn == Spec => []OwnPages
<1>1. IInv => OwnPages
  BY DEF IInv, TypeOK, OfBook, OwnPages
<1>2. QED
  BY <1>1, Invariance, PTL

(* A window is never refused a page of the book it shows.                  *)
THEOREM PagesServed == Spec => []PagesFound
<1>1. IInv => PagesFound
  BY DEF IInv, TypeOK, OfBook, PagesFound
<1>2. QED
  BY <1>1, Invariance, PTL

(* The two together: a window gets the pages of its book and no others.    *)
THEOREM PagesRight == Spec => []RightPages
  BY PagesOwn, PagesServed, PTL DEF RightPages

(* What a step does to a window that shows results.                        *)
StepLatest(w) == showing'[w] /\ tree'[w] # tree[w] =>
                   /\ asked[w] # None
                   /\ tree'[w] = [host |-> asked[w].host, query |-> asked[w].query]

LEMMA ContentsHide == ASSUME IInv, NEW w \in Windows, NEW h, Contents(w, h)
                      PROVE  \A v \in Windows : StepLatest(v)
  BY DEF Contents, IInv, TypeOK, StepLatest

LEMMA HitsLatest == ASSUME IInv, NEW hits \in Hits, ShowSearchResults(hits)
                    PROVE  \A v \in Windows : StepLatest(v)
<1>1. CASE ~Wanted(hits)
  BY <1>1 DEF ShowSearchResults, StepLatest
<1>2. CASE Wanted(hits)
  <2>1. asked[hits.window] = hits
    BY <1>2 DEF ShowSearchResults, Wanted, HasBook, IInv, Running, Current
  <2>2. \A v \in Windows : v # hits.window => tree'[v] = tree[v]
    BY <1>2 DEF ShowSearchResults, IInv, TypeOK
  <2>3. hits.window \in Windows => tree'[hits.window] = [host |-> hits.host, query |-> hits.query]
    BY <1>2 DEF ShowSearchResults, IInv, TypeOK
  <2>4. hits.window \in Windows
    BY DEF Hits
  <2>5. hits # None
    BY NoneAssumption
  <2>6. QED
    BY <2>1, <2>2, <2>3, <2>4, <2>5 DEF StepLatest
<1>3. QED
  BY <1>1, <1>2

(* Results that appear are those of the last search, for every order in    *)
(* which the search threads end.                                           *)
THEOREM ShowsLatest == Spec => LatestResults
<1>1. ASSUME IInv, Next PROVE \A v \in Windows : StepLatest(v)
  <2>1. CASE MakeReader \/ OpenFails
    BY <2>1 DEF MakeReader, OpenFails, fields, StepLatest
  <2>2. ASSUME NEW w \in Windows, User(w) \/ Start(w) \/ NavigateComplete(w)
        PROVE  \A v \in Windows : StepLatest(v)
    <3>1. CASE OpenBook(w) \/ CloseBook(w) \/ ShowContents(w) \/ RunEmptySearch(w)
      BY <1>1, <3>1, ContentsHide DEF OpenBook, CloseBook, ShowContents, RunEmptySearch
    <3>2. CASE Clear(w)
      BY <1>1, <3>2, ContentsHide DEF Clear, StepLatest
    <3>3. CASE Destroy(w) \/ Type(w) \/ RunSearch(w) \/ NavigateTo(w) \/ GoBack(w)
               \/ Start(w) \/ NavigateComplete(w)
      BY <3>3 DEF Destroy, Type, RunSearch, NavigateTo, GoBack, Start, NavigateComplete,
                  fields, StepLatest
    <3>4. QED
      BY <2>2, <3>1, <3>2, <3>3 DEF User
  <2>3. ASSUME NEW hits \in searches \cup posted, SearchEnds(hits) \/ ShowSearchResults(hits)
        PROVE  \A v \in Windows : StepLatest(v)
    <3>1. hits \in Hits
      BY <1>1 DEF IInv, TypeOK
    <3>2. CASE SearchEnds(hits)
      BY <3>2 DEF SearchEnds, fields, StepLatest
    <3>3. CASE ShowSearchResults(hits)
      BY <1>1, <3>1, <3>3, HitsLatest
    <3>4. QED
      BY <2>3, <3>2, <3>3
  <2>4. QED
    BY <1>1, <2>1, <2>2, <2>3 DEF Next
<1>2. UNCHANGED vars => \A v \in Windows : StepLatest(v)
  BY DEF vars, fields, StepLatest
<1>3. IInv /\ [Next]_vars =>
        [\A w \in Windows : showing'[w] /\ tree'[w] # tree[w] =>
           /\ asked[w] # None
           /\ tree'[w] = [host |-> asked[w].host, query |-> asked[w].query]]_vars
  BY <1>1, <1>2 DEF StepLatest
<1>4. QED
  BY <1>3, Invariance, PTL DEF Spec, LatestResults
=============================================================================
