-------------------------- MODULE ShelfPage_proofs --------------------------
(***************************************************************************)
(* Proofs about ShelfPage for any threads, URIs and changes of the         *)
(* directory.  The inductive invariant: what a request has in hand (InHand)*)
(* and where it is with the build mutex (Holds), that the page it signed   *)
(* is no older than what its client has (Asking), and that no client is    *)
(* ahead of the directory (Copied).                                        *)
(***************************************************************************)
EXTENDS ShelfPage, TLAPS

(* A request past its scan has a signature; one with a Shelf has the right *)
(* one; a build goes on only while the cache holds another page.           *)
InHand(t) == /\ at[t] # "idle" => sig[t] \in Signatures
             /\ at[t] \in {"publish", "serve"} => shelf[t] = sig[t]
             /\ at[t] \in {"build", "publish"} => page # sig[t]

Holds(t) == at[t] \in InBuild => builder = t

Asking(t) == at[t] # "idle" =>
               sig[t][1] <= dir /\ copy[<<t, sig[t][2]>>] <= sig[t][1]

Copied(c) == copy[c] <= dir

IInv == /\ TypeOK
        /\ \A t \in Threads : InHand(t)
        /\ \A t \in Threads : Holds(t)
        /\ \A t \in Threads : Asking(t)
        /\ \A c \in Threads \X Views : Copied(c)
-----------------------------------------------------------------------------
LEMMA Starts == Init => IInv
  BY BoundsAssumption, NobodyAssumption
     DEF Init, IInv, TypeOK, Versions, Signatures, Places, InBuild, InHand, Holds,
            Asking, Copied

LEMMA ChangeKeeps == ASSUME IInv, Change PROVE IInv'
<1>1. TypeOK'
  BY BoundsAssumption DEF Change, IInv, TypeOK, Versions, Signatures, Places, InHand
<1>2. \A u \in Threads : InHand(u)'
  <2>1. SUFFICES ASSUME NEW u \in Threads PROVE InHand(u)'
    OBVIOUS
  <2>2. QED
    BY <2>1, BoundsAssumption, NobodyAssumption
       DEF Change, IInv, TypeOK, Versions, Signatures, InHand, Holds, InBuild
<1>3. \A u \in Threads : Holds(u)'
  <2>1. SUFFICES ASSUME NEW u \in Threads PROVE Holds(u)'
    OBVIOUS
  <2>2. QED
    BY <2>1, BoundsAssumption, NobodyAssumption
       DEF Change, IInv, TypeOK, Versions, Signatures, Holds, InBuild
<1>4. \A u \in Threads : Asking(u)'
  <2>1. SUFFICES ASSUME NEW u \in Threads PROVE Asking(u)'
    OBVIOUS
  <2>2. QED
    BY <2>1, BoundsAssumption, NobodyAssumption
       DEF Change, IInv, TypeOK, Versions, Signatures, Asking, InHand, Copied
<1>5. \A c \in Threads \X Views : Copied(c)'
  <2>1. SUFFICES ASSUME NEW c \in Threads \X Views PROVE Copied(c)'
    OBVIOUS
  <2>2. QED
    BY <2>1, BoundsAssumption, NobodyAssumption
       DEF Change, IInv, TypeOK, Versions, Signatures, Copied, Asking, InHand
<1>6. QED
  BY <1>1, <1>2, <1>3, <1>4, <1>5 DEF IInv

LEMMA ScanKeeps == ASSUME IInv, NEW t \in Threads, Scan(t) PROVE IInv'
<1>1. TypeOK'
  BY BoundsAssumption DEF Scan, Goto, IInv, TypeOK, Versions, Signatures, Places, InHand
<1>2. \A u \in Threads : InHand(u)'
  <2>1. SUFFICES ASSUME NEW u \in Threads PROVE InHand(u)'
    OBVIOUS
  <2>2. QED
    BY <2>1, BoundsAssumption, NobodyAssumption
       DEF Scan, Goto, IInv, TypeOK, Versions, Signatures, InHand, Holds, InBuild
<1>3. \A u \in Threads : Holds(u)'
  <2>1. SUFFICES ASSUME NEW u \in Threads PROVE Holds(u)'
    OBVIOUS
  <2>2. QED
    BY <2>1, BoundsAssumption, NobodyAssumption
       DEF Scan, Goto, IInv, TypeOK, Versions, Signatures, Holds, InBuild
<1>4. \A u \in Threads : Asking(u)'
  <2>1. SUFFICES ASSUME NEW u \in Threads PROVE Asking(u)'
    OBVIOUS
  <2>2. QED
    BY <2>1, BoundsAssumption, NobodyAssumption
       DEF Scan, Goto, IInv, TypeOK, Versions, Signatures, Asking, InHand, Copied
<1>5. \A c \in Threads \X Views : Copied(c)'
  <2>1. SUFFICES ASSUME NEW c \in Threads \X Views PROVE Copied(c)'
    OBVIOUS
  <2>2. QED
    BY <2>1, BoundsAssumption, NobodyAssumption
       DEF Scan, Goto, IInv, TypeOK, Versions, Signatures, Copied, Asking, InHand
<1>6. QED
  BY <1>1, <1>2, <1>3, <1>4, <1>5 DEF IInv

LEMMA HitKeeps == ASSUME IInv, NEW t \in Threads, Hit(t) PROVE IInv'
<1>1. TypeOK'
  BY BoundsAssumption
     DEF Hit, Goto, Matches, IInv, TypeOK, Versions, Signatures, Places, InHand
<1>2. \A u \in Threads : InHand(u)'
  <2>1. SUFFICES ASSUME NEW u \in Threads PROVE InHand(u)'
    OBVIOUS
  <2>2. QED
    BY <2>1, BoundsAssumption, NobodyAssumption
       DEF Hit, Goto, Matches, IInv, TypeOK, Versions, Signatures, InHand, Holds,
              InBuild
<1>3. \A u \in Threads : Holds(u)'
  <2>1. SUFFICES ASSUME NEW u \in Threads PROVE Holds(u)'
    OBVIOUS
  <2>2. QED
    BY <2>1, BoundsAssumption, NobodyAssumption
       DEF Hit, Goto, Matches, IInv, TypeOK, Versions, Signatures, Holds, InBuild
<1>4. \A u \in Threads : Asking(u)'
  <2>1. SUFFICES ASSUME NEW u \in Threads PROVE Asking(u)'
    OBVIOUS
  <2>2. QED
    BY <2>1, BoundsAssumption, NobodyAssumption
       DEF Hit, Goto, Matches, IInv, TypeOK, Versions, Signatures, Asking, InHand,
              Copied
<1>5. \A c \in Threads \X Views : Copied(c)'
  <2>1. SUFFICES ASSUME NEW c \in Threads \X Views PROVE Copied(c)'
    OBVIOUS
  <2>2. QED
    BY <2>1, BoundsAssumption, NobodyAssumption
       DEF Hit, Goto, Matches, IInv, TypeOK, Versions, Signatures, Copied, Asking,
              InHand
<1>6. QED
  BY <1>1, <1>2, <1>3, <1>4, <1>5 DEF IInv

LEMMA MissKeeps == ASSUME IInv, NEW t \in Threads, Miss(t) PROVE IInv'
<1>1. TypeOK'
  BY BoundsAssumption
     DEF Miss, Goto, Matches, IInv, TypeOK, Versions, Signatures, Places, InHand
<1>2. \A u \in Threads : InHand(u)'
  <2>1. SUFFICES ASSUME NEW u \in Threads PROVE InHand(u)'
    OBVIOUS
  <2>2. QED
    BY <2>1, BoundsAssumption, NobodyAssumption
       DEF Miss, Goto, Matches, IInv, TypeOK, Versions, Signatures, InHand, Holds,
              InBuild
<1>3. \A u \in Threads : Holds(u)'
  <2>1. SUFFICES ASSUME NEW u \in Threads PROVE Holds(u)'
    OBVIOUS
  <2>2. QED
    BY <2>1, BoundsAssumption, NobodyAssumption
       DEF Miss, Goto, Matches, IInv, TypeOK, Versions, Signatures, Holds, InBuild
<1>4. \A u \in Threads : Asking(u)'
  <2>1. SUFFICES ASSUME NEW u \in Threads PROVE Asking(u)'
    OBVIOUS
  <2>2. QED
    BY <2>1, BoundsAssumption, NobodyAssumption
       DEF Miss, Goto, Matches, IInv, TypeOK, Versions, Signatures, Asking, InHand,
              Copied
<1>5. \A c \in Threads \X Views : Copied(c)'
  <2>1. SUFFICES ASSUME NEW c \in Threads \X Views PROVE Copied(c)'
    OBVIOUS
  <2>2. QED
    BY <2>1, BoundsAssumption, NobodyAssumption
       DEF Miss, Goto, Matches, IInv, TypeOK, Versions, Signatures, Copied, Asking,
              InHand
<1>6. QED
  BY <1>1, <1>2, <1>3, <1>4, <1>5 DEF IInv

LEMMA LockKeeps == ASSUME IInv, NEW t \in Threads, Lock(t) PROVE IInv'
<1>1. TypeOK'
  BY BoundsAssumption DEF Lock, Goto, IInv, TypeOK, Versions, Signatures, Places, InHand
<1>2. \A u \in Threads : InHand(u)'
  <2>1. SUFFICES ASSUME NEW u \in Threads PROVE InHand(u)'
    OBVIOUS
  <2>2. QED
    BY <2>1, BoundsAssumption, NobodyAssumption
       DEF Lock, Goto, IInv, TypeOK, Versions, Signatures, InHand, Holds, InBuild
<1>3. \A u \in Threads : Holds(u)'
  <2>1. SUFFICES ASSUME NEW u \in Threads PROVE Holds(u)'
    OBVIOUS
  <2>2. QED
    BY <2>1, BoundsAssumption, NobodyAssumption
       DEF Lock, Goto, IInv, TypeOK, Versions, Signatures, Holds, InBuild
<1>4. \A u \in Threads : Asking(u)'
  <2>1. SUFFICES ASSUME NEW u \in Threads PROVE Asking(u)'
    OBVIOUS
  <2>2. QED
    BY <2>1, BoundsAssumption, NobodyAssumption
       DEF Lock, Goto, IInv, TypeOK, Versions, Signatures, Asking, InHand, Copied
<1>5. \A c \in Threads \X Views : Copied(c)'
  <2>1. SUFFICES ASSUME NEW c \in Threads \X Views PROVE Copied(c)'
    OBVIOUS
  <2>2. QED
    BY <2>1, BoundsAssumption, NobodyAssumption
       DEF Lock, Goto, IInv, TypeOK, Versions, Signatures, Copied, Asking, InHand
<1>6. QED
  BY <1>1, <1>2, <1>3, <1>4, <1>5 DEF IInv

LEMMA RecheckHitKeeps == ASSUME IInv, NEW t \in Threads, RecheckHit(t) PROVE IInv'
<1>1. TypeOK'
  BY BoundsAssumption
     DEF RecheckHit, Goto, Matches, IInv, TypeOK, Versions, Signatures, Places, InHand
<1>2. \A u \in Threads : InHand(u)'
  <2>1. SUFFICES ASSUME NEW u \in Threads PROVE InHand(u)'
    OBVIOUS
  <2>2. QED
    BY <2>1, BoundsAssumption, NobodyAssumption
       DEF RecheckHit, Goto, Matches, IInv, TypeOK, Versions, Signatures, InHand,
              Holds, InBuild
<1>3. \A u \in Threads : Holds(u)'
  <2>1. SUFFICES ASSUME NEW u \in Threads PROVE Holds(u)'
    OBVIOUS
  <2>2. QED
    BY <2>1, BoundsAssumption, NobodyAssumption
       DEF RecheckHit, Goto, Matches, IInv, TypeOK, Versions, Signatures, Holds, InBuild
<1>4. \A u \in Threads : Asking(u)'
  <2>1. SUFFICES ASSUME NEW u \in Threads PROVE Asking(u)'
    OBVIOUS
  <2>2. QED
    BY <2>1, BoundsAssumption, NobodyAssumption
       DEF RecheckHit, Goto, Matches, IInv, TypeOK, Versions, Signatures, Asking,
              InHand, Copied
<1>5. \A c \in Threads \X Views : Copied(c)'
  <2>1. SUFFICES ASSUME NEW c \in Threads \X Views PROVE Copied(c)'
    OBVIOUS
  <2>2. QED
    BY <2>1, BoundsAssumption, NobodyAssumption
       DEF RecheckHit, Goto, Matches, IInv, TypeOK, Versions, Signatures, Copied,
              Asking, InHand
<1>6. QED
  BY <1>1, <1>2, <1>3, <1>4, <1>5 DEF IInv

LEMMA RecheckMissKeeps == ASSUME IInv, NEW t \in Threads, RecheckMiss(t) PROVE IInv'
<1>1. TypeOK'
  BY BoundsAssumption
     DEF RecheckMiss, Goto, Matches, IInv, TypeOK, Versions, Signatures, Places,
         InHand
<1>2. \A u \in Threads : InHand(u)'
  <2>1. SUFFICES ASSUME NEW u \in Threads PROVE InHand(u)'
    OBVIOUS
  <2>2. QED
    BY <2>1, BoundsAssumption, NobodyAssumption
       DEF RecheckMiss, Goto, Matches, IInv, TypeOK, Versions, Signatures, InHand,
              Holds, InBuild
<1>3. \A u \in Threads : Holds(u)'
  <2>1. SUFFICES ASSUME NEW u \in Threads PROVE Holds(u)'
    OBVIOUS
  <2>2. QED
    BY <2>1, BoundsAssumption, NobodyAssumption
       DEF RecheckMiss, Goto, Matches, IInv, TypeOK, Versions, Signatures, Holds,
              InBuild
<1>4. \A u \in Threads : Asking(u)'
  <2>1. SUFFICES ASSUME NEW u \in Threads PROVE Asking(u)'
    OBVIOUS
  <2>2. QED
    BY <2>1, BoundsAssumption, NobodyAssumption
       DEF RecheckMiss, Goto, Matches, IInv, TypeOK, Versions, Signatures, Asking,
              InHand, Copied
<1>5. \A c \in Threads \X Views : Copied(c)'
  <2>1. SUFFICES ASSUME NEW c \in Threads \X Views PROVE Copied(c)'
    OBVIOUS
  <2>2. QED
    BY <2>1, BoundsAssumption, NobodyAssumption
       DEF RecheckMiss, Goto, Matches, IInv, TypeOK, Versions, Signatures, Copied,
              Asking, InHand
<1>6. QED
  BY <1>1, <1>2, <1>3, <1>4, <1>5 DEF IInv

LEMMA BuildKeeps == ASSUME IInv, NEW t \in Threads, Build(t) PROVE IInv'
<1>1. TypeOK'
  BY BoundsAssumption
     DEF Build, Goto, IInv, TypeOK, Versions, Signatures, Places, InHand
<1>2. \A u \in Threads : InHand(u)'
  <2>1. SUFFICES ASSUME NEW u \in Threads PROVE InHand(u)'
    OBVIOUS
  <2>2. QED
    BY <2>1, BoundsAssumption, NobodyAssumption
       DEF Build, Goto, IInv, TypeOK, Versions, Signatures, InHand, Holds, InBuild
<1>3. \A u \in Threads : Holds(u)'
  <2>1. SUFFICES ASSUME NEW u \in Threads PROVE Holds(u)'
    OBVIOUS
  <2>2. QED
    BY <2>1, BoundsAssumption, NobodyAssumption
       DEF Build, Goto, IInv, TypeOK, Versions, Signatures, Holds, InBuild
<1>4. \A u \in Threads : Asking(u)'
  <2>1. SUFFICES ASSUME NEW u \in Threads PROVE Asking(u)'
    OBVIOUS
  <2>2. QED
    BY <2>1, BoundsAssumption, NobodyAssumption
       DEF Build, Goto, IInv, TypeOK, Versions, Signatures, Asking, InHand, Copied
<1>5. \A c \in Threads \X Views : Copied(c)'
  <2>1. SUFFICES ASSUME NEW c \in Threads \X Views PROVE Copied(c)'
    OBVIOUS
  <2>2. QED
    BY <2>1, BoundsAssumption, NobodyAssumption
       DEF Build, Goto, IInv, TypeOK, Versions, Signatures, Copied, Asking, InHand
<1>6. QED
  BY <1>1, <1>2, <1>3, <1>4, <1>5 DEF IInv

LEMMA BuildThrowsKeeps == ASSUME IInv, NEW t \in Threads, BuildThrows(t) PROVE IInv'
<1>1. TypeOK'
  BY BoundsAssumption
     DEF BuildThrows, Goto, Leave, IInv, TypeOK, Versions, Signatures, Places, InHand
<1>2. \A u \in Threads : InHand(u)'
  <2>1. SUFFICES ASSUME NEW u \in Threads PROVE InHand(u)'
    OBVIOUS
  <2>2. QED
    BY <2>1, BoundsAssumption, NobodyAssumption
       DEF BuildThrows, Goto, Leave, IInv, TypeOK, Versions, Signatures, InHand, Holds,
              InBuild
<1>3. \A u \in Threads : Holds(u)'
  <2>1. SUFFICES ASSUME NEW u \in Threads PROVE Holds(u)'
    OBVIOUS
  <2>2. QED
    BY <2>1, BoundsAssumption, NobodyAssumption
       DEF BuildThrows, Goto, Leave, IInv, TypeOK, Versions, Signatures, Holds, InBuild
<1>4. \A u \in Threads : Asking(u)'
  <2>1. SUFFICES ASSUME NEW u \in Threads PROVE Asking(u)'
    OBVIOUS
  <2>2. QED
    BY <2>1, BoundsAssumption, NobodyAssumption
       DEF BuildThrows, Goto, Leave, IInv, TypeOK, Versions, Signatures, Asking,
              InHand, Copied
<1>5. \A c \in Threads \X Views : Copied(c)'
  <2>1. SUFFICES ASSUME NEW c \in Threads \X Views PROVE Copied(c)'
    OBVIOUS
  <2>2. QED
    BY <2>1, BoundsAssumption, NobodyAssumption
       DEF BuildThrows, Goto, Leave, IInv, TypeOK, Versions, Signatures, Copied,
              Asking, InHand
<1>6. QED
  BY <1>1, <1>2, <1>3, <1>4, <1>5 DEF IInv

LEMMA PublishKeeps == ASSUME IInv, NEW t \in Threads, Publish(t) PROVE IInv'
<1>1. TypeOK'
  BY BoundsAssumption
     DEF Publish, Goto, IInv, TypeOK, Versions, Signatures, Places, InHand
<1>2. \A u \in Threads : InHand(u)'
  <2>1. SUFFICES ASSUME NEW u \in Threads PROVE InHand(u)'
    OBVIOUS
  <2>2. QED
    BY <2>1, BoundsAssumption, NobodyAssumption
       DEF Publish, Goto, IInv, TypeOK, Versions, Signatures, InHand, Holds, InBuild
<1>3. \A u \in Threads : Holds(u)'
  <2>1. SUFFICES ASSUME NEW u \in Threads PROVE Holds(u)'
    OBVIOUS
  <2>2. QED
    BY <2>1, BoundsAssumption, NobodyAssumption
       DEF Publish, Goto, IInv, TypeOK, Versions, Signatures, Holds, InBuild
<1>4. \A u \in Threads : Asking(u)'
  <2>1. SUFFICES ASSUME NEW u \in Threads PROVE Asking(u)'
    OBVIOUS
  <2>2. QED
    BY <2>1, BoundsAssumption, NobodyAssumption
       DEF Publish, Goto, IInv, TypeOK, Versions, Signatures, Asking, InHand, Copied
<1>5. \A c \in Threads \X Views : Copied(c)'
  <2>1. SUFFICES ASSUME NEW c \in Threads \X Views PROVE Copied(c)'
    OBVIOUS
  <2>2. QED
    BY <2>1, BoundsAssumption, NobodyAssumption
       DEF Publish, Goto, IInv, TypeOK, Versions, Signatures, Copied, Asking, InHand
<1>6. QED
  BY <1>1, <1>2, <1>3, <1>4, <1>5 DEF IInv

LEMMA ServeKeeps == ASSUME IInv, NEW t \in Threads, Serve(t) PROVE IInv'
<1>1. TypeOK'
  BY BoundsAssumption
     DEF Serve, Goto, Leave, IInv, TypeOK, Versions, Signatures, Places, InHand
<1>2. \A u \in Threads : InHand(u)'
  <2>1. SUFFICES ASSUME NEW u \in Threads PROVE InHand(u)'
    OBVIOUS
  <2>2. QED
    BY <2>1, BoundsAssumption, NobodyAssumption
       DEF Serve, Goto, Leave, IInv, TypeOK, Versions, Signatures, InHand, Holds,
              InBuild
<1>3. \A u \in Threads : Holds(u)'
  <2>1. SUFFICES ASSUME NEW u \in Threads PROVE Holds(u)'
    OBVIOUS
  <2>2. QED
    BY <2>1, BoundsAssumption, NobodyAssumption
       DEF Serve, Goto, Leave, IInv, TypeOK, Versions, Signatures, Holds, InBuild
<1>4. \A u \in Threads : Asking(u)'
  <2>1. SUFFICES ASSUME NEW u \in Threads PROVE Asking(u)'
    OBVIOUS
  <2>2. QED
    BY <2>1, BoundsAssumption, NobodyAssumption
       DEF Serve, Goto, Leave, IInv, TypeOK, Versions, Signatures, Asking, InHand,
              Copied
<1>5. \A c \in Threads \X Views : Copied(c)'
  <2>1. SUFFICES ASSUME NEW c \in Threads \X Views PROVE Copied(c)'
    OBVIOUS
  <2>2. QED
    BY <2>1, BoundsAssumption, NobodyAssumption
       DEF Serve, Goto, Leave, IInv, TypeOK, Versions, Signatures, Copied, Asking,
              InHand
<1>6. QED
  BY <1>1, <1>2, <1>3, <1>4, <1>5 DEF IInv

LEMMA NotModifiedKeeps == ASSUME IInv, NEW t \in Threads, NotModified(t) PROVE IInv'
<1>1. TypeOK'
  BY BoundsAssumption
     DEF NotModified, Goto, Leave, IInv, TypeOK, Versions, Signatures, Places, InHand
<1>2. \A u \in Threads : InHand(u)'
  <2>1. SUFFICES ASSUME NEW u \in Threads PROVE InHand(u)'
    OBVIOUS
  <2>2. QED
    BY <2>1, BoundsAssumption, NobodyAssumption
       DEF NotModified, Goto, Leave, IInv, TypeOK, Versions, Signatures, InHand, Holds,
              InBuild
<1>3. \A u \in Threads : Holds(u)'
  <2>1. SUFFICES ASSUME NEW u \in Threads PROVE Holds(u)'
    OBVIOUS
  <2>2. QED
    BY <2>1, BoundsAssumption, NobodyAssumption
       DEF NotModified, Goto, Leave, IInv, TypeOK, Versions, Signatures, Holds, InBuild
<1>4. \A u \in Threads : Asking(u)'
  <2>1. SUFFICES ASSUME NEW u \in Threads PROVE Asking(u)'
    OBVIOUS
  <2>2. QED
    BY <2>1, BoundsAssumption, NobodyAssumption
       DEF NotModified, Goto, Leave, IInv, TypeOK, Versions, Signatures, Asking,
              InHand, Copied
<1>5. \A c \in Threads \X Views : Copied(c)'
  <2>1. SUFFICES ASSUME NEW c \in Threads \X Views PROVE Copied(c)'
    OBVIOUS
  <2>2. QED
    BY <2>1, BoundsAssumption, NobodyAssumption
       DEF NotModified, Goto, Leave, IInv, TypeOK, Versions, Signatures, Copied,
              Asking, InHand
<1>6. QED
  BY <1>1, <1>2, <1>3, <1>4, <1>5 DEF IInv

LEMMA NoBodyKeeps == ASSUME IInv, NEW t \in Threads, NoBody(t) PROVE IInv'
<1>1. TypeOK'
  BY BoundsAssumption
     DEF NoBody, Goto, Leave, IInv, TypeOK, Versions, Signatures, Places, InHand
<1>2. \A u \in Threads : InHand(u)'
  <2>1. SUFFICES ASSUME NEW u \in Threads PROVE InHand(u)'
    OBVIOUS
  <2>2. QED
    BY <2>1, BoundsAssumption, NobodyAssumption
       DEF NoBody, Goto, Leave, IInv, TypeOK, Versions, Signatures, InHand, Holds,
              InBuild
<1>3. \A u \in Threads : Holds(u)'
  <2>1. SUFFICES ASSUME NEW u \in Threads PROVE Holds(u)'
    OBVIOUS
  <2>2. QED
    BY <2>1, BoundsAssumption, NobodyAssumption
       DEF NoBody, Goto, Leave, IInv, TypeOK, Versions, Signatures, Holds, InBuild
<1>4. \A u \in Threads : Asking(u)'
  <2>1. SUFFICES ASSUME NEW u \in Threads PROVE Asking(u)'
    OBVIOUS
  <2>2. QED
    BY <2>1, BoundsAssumption, NobodyAssumption
       DEF NoBody, Goto, Leave, IInv, TypeOK, Versions, Signatures, Asking, InHand,
              Copied
<1>5. \A c \in Threads \X Views : Copied(c)'
  <2>1. SUFFICES ASSUME NEW c \in Threads \X Views PROVE Copied(c)'
    OBVIOUS
  <2>2. QED
    BY <2>1, BoundsAssumption, NobodyAssumption
       DEF NoBody, Goto, Leave, IInv, TypeOK, Versions, Signatures, Copied, Asking,
              InHand
<1>6. QED
  BY <1>1, <1>2, <1>3, <1>4, <1>5 DEF IInv

LEMMA RestartKeeps == ASSUME IInv, Restart PROVE IInv'
<1>1. TypeOK'
  BY BoundsAssumption DEF Restart, IInv, TypeOK, Versions, Signatures, Places, InHand
<1>2. \A u \in Threads : InHand(u)'
  <2>1. SUFFICES ASSUME NEW u \in Threads PROVE InHand(u)'
    OBVIOUS
  <2>2. QED
    BY <2>1, BoundsAssumption, NobodyAssumption
       DEF Restart, IInv, TypeOK, Versions, Signatures, InHand, Holds, InBuild
<1>3. \A u \in Threads : Holds(u)'
  <2>1. SUFFICES ASSUME NEW u \in Threads PROVE Holds(u)'
    OBVIOUS
  <2>2. QED
    BY <2>1, BoundsAssumption, NobodyAssumption
       DEF Restart, IInv, TypeOK, Versions, Signatures, Holds, InBuild
<1>4. \A u \in Threads : Asking(u)'
  <2>1. SUFFICES ASSUME NEW u \in Threads PROVE Asking(u)'
    OBVIOUS
  <2>2. QED
    BY <2>1, BoundsAssumption, NobodyAssumption
       DEF Restart, IInv, TypeOK, Versions, Signatures, Asking, InHand, Copied
<1>5. \A c \in Threads \X Views : Copied(c)'
  <2>1. SUFFICES ASSUME NEW c \in Threads \X Views PROVE Copied(c)'
    OBVIOUS
  <2>2. QED
    BY <2>1, BoundsAssumption, NobodyAssumption
       DEF Restart, IInv, TypeOK, Versions, Signatures, Copied, Asking, InHand
<1>6. QED
  BY <1>1, <1>2, <1>3, <1>4, <1>5 DEF IInv

LEMMA Preserved == IInv /\ [Next]_vars => IInv'
<1>1. SUFFICES ASSUME IInv, [Next]_vars PROVE IInv'
  OBVIOUS
<1>2. CASE Change
  BY <1>1, <1>2, ChangeKeeps
<1>3. CASE \E t \in Threads : Scan(t) \/ Step(t)
  BY <1>1, <1>3, ScanKeeps, HitKeeps, MissKeeps, LockKeeps, RecheckHitKeeps,
     RecheckMissKeeps, BuildKeeps, BuildThrowsKeeps, PublishKeeps, ServeKeeps,
     NotModifiedKeeps, NoBodyKeeps DEF Step
<1>4. CASE Restart
  BY <1>1, <1>4, RestartKeeps
<1>5. CASE UNCHANGED vars
  BY <1>1, <1>5 DEF vars, IInv, TypeOK, InHand, Holds, Asking, Copied
<1>6. QED
  BY <1>1, <1>2, <1>3, <1>4, <1>5 DEF Next

LEMMA Invariance == Spec => []IInv
  BY Starts, Preserved, PTL DEF Spec

-----------------------------------------------------------------------------
(* Cache, requests and clients' copies stay within their types.            *)
THEOREM Typed == Spec => []TypeOK
<1>1. IInv => TypeOK
  BY DEF IInv
<1>2. QED
  BY <1>1, Invariance, PTL

(* A request is answered from its own scan under its own URI, even when it *)
(* is served a Shelf another thread built (geist_dir_handler).             *)
THEOREM OwnScan == Spec => []AnswersOwnScan
<1>1. IInv => AnswersOwnScan
  BY DEF IInv, AnswersOwnScan, InHand
<1>2. QED
  BY <1>1, Invariance, PTL

(* The re-check under the mutex is enough: no build replaces a page by     *)
(* another one with the same signature.                                    *)
THEOREM RecheckSuffices == Spec => ReplacesAnother
<1>1. IInv /\ [Next]_vars => [\A t \in Threads : Publish(t) => page # shelf[t]]_vars
  BY DEF IInv, InHand, Publish
<1>2. QED
  BY <1>1, Invariance, PTL DEF Spec, ReplacesAnother

(* Although a late builder may put an older page into the cache, no client *)
(* is ever sent back to it.                                                *)
THEOREM ForwardOnly == Spec => ClientsMoveForward
<1> DEFINE Forward == \A c \in Threads \X Views : copy'[c] >= copy[c]
<1>1. IInv /\ [Next]_vars => [Forward]_vars
  <2>1. SUFFICES ASSUME IInv, Next PROVE Forward
    OBVIOUS
  <2>2. CASE UNCHANGED copy
    BY <2>1, <2>2 DEF IInv, TypeOK
  <2>3. ASSUME NEW t \in Threads, Serve(t) PROVE Forward
    <3>1. SUFFICES ASSUME NEW c \in Threads \X Views PROVE copy'[c] >= copy[c]
      OBVIOUS
    <3>2. /\ sig[t] \in Versions \X Views
          /\ copy[<<t, sig[t][2]>>] <= sig[t][1]
          /\ copy' = [copy EXCEPT ![<<t, sig[t][2]>>] = sig[t][1]]
      BY <2>1, <2>3 DEF IInv, InHand, Asking, Serve, Signatures
    <3>3. QED
      BY <2>1, <3>2 DEF IInv, TypeOK, Versions
  <2>4. (\E t \in Threads : Serve(t)) \/ UNCHANGED copy
    BY <2>1
       DEF Next, Step, Change, Scan, Hit, Miss, Lock, RecheckHit, RecheckMiss, Build,
                BuildThrows, Publish, NotModified, NoBody, Restart
  <2>5. QED
    BY <2>2, <2>3, <2>4
<1>2. QED
  BY <1>1, Invariance, PTL DEF Spec, ClientsMoveForward
=============================================================================
