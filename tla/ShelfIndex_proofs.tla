-------------------------- MODULE ShelfIndex_proofs --------------------------
(***************************************************************************)
(* What the snapshot, the memory of a child and a listing hold, proved for *)
(* every number of children, threads, files and installations, and for     *)
(* every choice of faults.                                                 *)
(***************************************************************************)
EXTENDS ShelfIndex, TLAPS

(* A file is absent or in its newest version; a scan saw no later one.     *)
Newest  == \A f \in Files : version[f] \in {Absent, made[f]}
Scanned == \A w \in Workers, f \in Files : files[w][f] <= made[f]

(* Only files that the scan saw are looked up, and only after the scan.    *)
Looked ==
  \A w \in Workers :
    /\ pc[w] \in {"idle", "scan"} => todo[w] = {} /\ fresh[w] = NoIds
    /\ \A f \in todo[w] : files[w][f] # Absent

(* An identity kept by revision r: faithful, and extracted by r.           *)
Good(id, r) == id # None => id.content = {id.stamp} /\ id.by = r

Kept ==
  /\ \A p \in Procs, f \in Files : Good(memory[p][f], Producer[p])
  /\ disk # None => \A f \in Files : Good(disk.ids[f], disk.by)
  /\ \A w \in Workers, f \in Files :
       Good(loaded[w][f], Producer[ProcOf[w]]) /\ Good(fresh[w][f], Producer[ProcOf[w]])

(* The identity in hand between its lookup and its publication.  What a    *)
(* probe has read lies between the version scanned and the newest one, so  *)
(* a second stat that equals the first leaves only the version scanned.    *)
InHand ==
  \A w \in Workers :
    /\ pc[w] \in {"probe", "restat", "publish"} =>
         /\ file[w] \in Files
         /\ identity[w] \in Identity
         /\ identity[w].stamp = files[w][file[w]]
         /\ identity[w].by = Producer[ProcOf[w]]
    /\ pc[w] \in {"probe", "restat"} =>
         \A v \in identity[w].content : files[w][file[w]] <= v /\ v <= made[file[w]]
    /\ pc[w] = "restat" => identity[w].content # {}
    /\ pc[w] = "publish" => identity[w].content = {identity[w].stamp}

IInv == TypeOK /\ Newest /\ Scanned /\ Looked /\ Kept /\ EntriesMatchScan /\ InHand

-----------------------------------------------------------------------------
(* The last step of the argument about a second stat. *)
LEMMA Squeezed == \A m, v \in Nat : m <= v /\ v <= m => v = m
OBVIOUS

(* What a probe has in hand when it opens its file, and when it ends.      *)
LEMMA ProbeOpens ==
  ASSUME IInv, NEW w \in Workers, ProbeStarts(w)
  PROVE  \E f \in todo[w], id \in Identity :
           /\ file' = [file EXCEPT ![w] = f]
           /\ identity' = [identity EXCEPT ![w] = id]
           /\ id.stamp = files[w][f]
           /\ id.content = {version[f]} \ {Absent}
           /\ id.by = Producer[ProcOf[w]]
<1>1. PICK f \in todo[w] :
        /\ file' = [file EXCEPT ![w] = f]
        /\ identity' = [identity EXCEPT ![w] =
             [stamp   |-> files[w][f],
              content |-> {version[f]} \ {Absent},
              by      |-> Producer[ProcOf[w]]]]
  BY DEF ProbeStarts
<1>2. /\ files[w][f] \in Versions
      /\ {version[f]} \ {Absent} \in SUBSET Versions
      /\ Producer[ProcOf[w]] \in Revisions
  BY WorkersAssumption DEF IInv, TypeOK, Looked, Revisions
<1>3. PICK id : id = [stamp   |-> files[w][f],
                      content |-> {version[f]} \ {Absent},
                      by      |-> Producer[ProcOf[w]]]
  OBVIOUS
<1>4. id \in Identity
  BY <1>2, <1>3 DEF Identity
<1>5. /\ id.stamp = files[w][f]
      /\ id.content = {version[f]} \ {Absent}
      /\ id.by = Producer[ProcOf[w]]
  BY <1>3
<1> QED
  BY <1>1, <1>3, <1>4, <1>5

LEMMA ProbeEnds ==
  ASSUME IInv, NEW w \in Workers, ProbeReads(w)
  PROVE  \E id \in Identity :
           /\ identity' = [identity EXCEPT ![w] = id]
           /\ id.stamp = identity[w].stamp
           /\ id.by = identity[w].by
           /\ identity[w].content \subseteq id.content
           /\ id.content \subseteq identity[w].content \cup ({version[file[w]]} \ {Absent})
<1>1. PICK now \in {{}, {version[file[w]]} \ {Absent}} :
        identity' = [identity EXCEPT ![w].content = @ \cup now]
  BY DEF ProbeReads
<1>2. identity[w] \in Identity /\ file[w] \in Files
  BY DEF IInv, InHand, ProbeReads, At
<1>3. identity[w].content \cup now \in SUBSET Versions
  BY <1>2 DEF Identity, IInv, TypeOK
<1>4. PICK id \in Identity : id = [identity[w] EXCEPT !.content = @ \cup now]
  BY <1>2, <1>3 DEF Identity
<1>5. id.stamp = identity[w].stamp /\ id.by = identity[w].by
  BY <1>2, <1>4 DEF Identity
<1>6. id.content = identity[w].content \cup now
  BY <1>2, <1>4 DEF Identity
<1>7. identity' = [identity EXCEPT ![w] = id]
  BY <1>1, <1>4
<1> QED
  BY <1>1, <1>4, <1>5, <1>6, <1>7

-----------------------------------------------------------------------------
(* Type correctness. *)
LEMMA TypeStep ==
  ASSUME IInv, [Next]_vars
  PROVE  TypeOK'
<1> USE WorkersAssumption, VersionsAssumption, NoneAssumption DEF IInv, TypeOK, Looked, InHand, vars, source, local, At, Goto, Places, NoIds, NoFiles, IdMap, Maybe, Versions, Absent, Revisions
<1>1. ASSUME NEW w \in Workers, Scan(w) PROVE TypeOK'
  BY <1>1 DEF Scan
<1>2. ASSUME NEW w \in Workers, StatFile(w) PROVE TypeOK'
  BY <1>2 DEF StatFile
<1>3. ASSUME NEW w \in Workers, ScanEnds(w) PROVE TypeOK'
  BY <1>3 DEF ScanEnds
<1>4. ASSUME NEW w \in Workers, Decline(w) PROVE TypeOK'
  BY <1>4 DEF Decline, LocalsEnd
<1>5. ASSUME NEW w \in Workers, TryLock(w) PROVE TypeOK'
  BY <1>5 DEF TryLock
<1>6. ASSUME NEW w \in Workers, TryLockFails(w) PROVE TypeOK'
  BY <1>6 DEF TryLockFails
<1>7. ASSUME NEW w \in Workers, Load(w) PROVE TypeOK'
  BY <1>7 DEF Load, Decoded
<1>8. ASSUME NEW w \in Workers, LoadFails(w) PROVE TypeOK'
  BY <1>8 DEF LoadFails
<1>9. ASSUME NEW w \in Workers, MemoryHit(w) PROVE TypeOK'
  BY <1>9 DEF MemoryHit, NextFile, InMemory, Memory
<1>10. ASSUME NEW w \in Workers, DiskHit(w) PROVE TypeOK'
  BY <1>10 DEF DiskHit, NextFile, OnDisk
<1>11. ASSUME NEW w \in Workers, ProbeStarts(w) PROVE TypeOK'
  <2>1. PICK f \in todo[w], id \in Identity :
          /\ file' = [file EXCEPT ![w] = f]
          /\ identity' = [identity EXCEPT ![w] = id]
          /\ id.stamp = files[w][f]
          /\ id.content = {version[f]} \ {Absent}
          /\ id.by = Producer[ProcOf[w]]
    BY <1>11, ProbeOpens
  <2> QED
    BY <1>11, <2>1 DEF ProbeStarts, NextFile
<1>12. ASSUME NEW w \in Workers, ProbeReads(w) PROVE TypeOK'
  <2>1. PICK id \in Identity :
          /\ identity' = [identity EXCEPT ![w] = id]
          /\ id.stamp = identity[w].stamp
          /\ id.by = identity[w].by
          /\ identity[w].content \subseteq id.content
          /\ id.content \subseteq identity[w].content \cup ({version[file[w]]} \ {Absent})
    BY <1>12, ProbeEnds
  <2> QED
    BY <1>12, <2>1 DEF ProbeReads
<1>13. ASSUME NEW w \in Workers, ProbeThrows(w) PROVE TypeOK'
  BY <1>13 DEF ProbeThrows, EntryUnreadable, NoEntry
<1>14. ASSUME NEW w \in Workers, RestatSame(w) PROVE TypeOK'
  BY <1>14 DEF RestatSame
<1>15. ASSUME NEW w \in Workers, RestatDiffers(w) PROVE TypeOK'
  BY <1>15 DEF RestatDiffers, EntryUnreadable, NoEntry
<1>16. ASSUME NEW w \in Workers, Publish(w) PROVE TypeOK'
  BY <1>16 DEF Publish, NoEntry
<1>17. ASSUME NEW w \in Workers, Cancel(w) PROVE TypeOK'
  BY <1>17 DEF Cancel
<1>18. ASSUME NEW w \in Workers, AllDone(w) PROVE TypeOK'
  BY <1>18 DEF AllDone
<1>19. ASSUME NEW w \in Workers, Save(w) PROVE TypeOK'
  BY <1>19 DEF Save
<1>20. ASSUME NEW w \in Workers, SaveFails(w) PROVE TypeOK'
  BY <1>20 DEF SaveFails
<1>21. ASSUME NEW w \in Workers, ReturnEntries(w) PROVE TypeOK'
  BY <1>21 DEF ReturnEntries
<1>22. ASSUME NEW w \in Workers, ForgetMissing(w) PROVE TypeOK'
  <2>1. memory' \in [Procs -> IdMap]
    BY <1>22 DEF ForgetMissing, LocalsEnd
  <2>2. /\ version' \in [Files -> Versions \cup {Absent}] /\ made' \in [Files -> 0..MaxVersion]
        /\ disk' \in Maybe([by : Revisions, ids : IdMap]) /\ lock' \in Maybe(Workers)
        /\ stop' \in [Procs -> BOOLEAN] /\ pc' \in [Workers -> Places]
    BY <1>22 DEF ForgetMissing, LocalsEnd
  <2>3. /\ unread' \in [Workers -> SUBSET Files] /\ todo' \in [Workers -> SUBSET Files]
        /\ files' \in [Workers -> [Files -> Versions \cup {Absent}]]
        /\ loaded' \in [Workers -> IdMap] /\ fresh' \in [Workers -> IdMap]
        /\ changed' \in [Workers -> BOOLEAN] /\ file' \in [Workers -> Maybe(Files)]
        /\ identity' \in [Workers -> Maybe(Identity)]
    BY <1>22 DEF ForgetMissing, LocalsEnd
  <2> QED
    BY <2>1, <2>2, <2>3
<1>23. ASSUME NEW w \in Workers, CatalogDone(w) PROVE TypeOK'
  BY <1>23 DEF CatalogDone, LocalsEnd
<1>24. CASE Install
  BY <1>24 DEF Install
<1>25. CASE Remove
  BY <1>25 DEF Remove
<1>26. CASE Damage
  BY <1>26 DEF Damage
<1>27. CASE Stop
  BY <1>27 DEF Stop
<1>28. CASE Crash
  <2>1. PICK p \in Procs :
          /\ memory' = [memory EXCEPT ![p] = NoIds]
          /\ stop' = [stop EXCEPT ![p] = FALSE]
          /\ lock' = IF lock \in ThreadsOf(p) THEN None ELSE lock
          /\ pc' = [w \in Workers |-> IF w \in ThreadsOf(p) THEN "idle" ELSE pc[w]]
          /\ LocalsEnd(ThreadsOf(p))
    BY <1>28 DEF Crash
  <2>2. memory' \in [Procs -> IdMap]
    BY <1>28, <2>1 DEF Crash, LocalsEnd
  <2>3. /\ version' \in [Files -> Versions \cup {Absent}] /\ made' \in [Files -> 0..MaxVersion]
        /\ disk' \in Maybe([by : Revisions, ids : IdMap]) /\ lock' \in Maybe(Workers)
        /\ stop' \in [Procs -> BOOLEAN] /\ pc' \in [Workers -> Places]
    BY <1>28, <2>1 DEF Crash, LocalsEnd
  <2>4. /\ unread' \in [Workers -> SUBSET Files] /\ todo' \in [Workers -> SUBSET Files]
        /\ files' \in [Workers -> [Files -> Versions \cup {Absent}]]
        /\ loaded' \in [Workers -> IdMap] /\ fresh' \in [Workers -> IdMap]
        /\ changed' \in [Workers -> BOOLEAN] /\ file' \in [Workers -> Maybe(Files)]
        /\ identity' \in [Workers -> Maybe(Identity)]
    BY <1>28, <2>1 DEF Crash, LocalsEnd
  <2> QED
    BY <2>2, <2>3, <2>4
<1>29. CASE UNCHANGED vars
  BY <1>29
<1> QED
  BY <1>1, <1>2, <1>3, <1>4, <1>5, <1>6, <1>7, <1>8, <1>9, <1>10, <1>11, <1>12, <1>13, <1>14, <1>15, <1>16, <1>17, <1>18, <1>19, <1>20, <1>21, <1>22, <1>23, <1>24, <1>25, <1>26, <1>27, <1>28, <1>29 DEF Next, Environment, Build

-----------------------------------------------------------------------------
(* Installations only add versions, and a scan sees none of the future.    *)
LEMMA SourceStep ==
  ASSUME IInv, [Next]_vars
  PROVE  (Newest /\ Scanned)'
<1> USE WorkersAssumption, VersionsAssumption, NoneAssumption DEF IInv, TypeOK, Newest, Scanned, vars, source, local, At, Goto, NoFiles, Versions, Absent
<1>1. ASSUME NEW w \in Workers, Scan(w) PROVE (Newest /\ Scanned)'
  BY <1>1 DEF Scan
<1>2. ASSUME NEW w \in Workers, StatFile(w) PROVE (Newest /\ Scanned)'
  BY <1>2 DEF StatFile
<1>3. ASSUME NEW w \in Workers, ScanEnds(w) PROVE (Newest /\ Scanned)'
  BY <1>3 DEF ScanEnds
<1>4. ASSUME NEW w \in Workers, Decline(w) PROVE (Newest /\ Scanned)'
  BY <1>4 DEF Decline, LocalsEnd
<1>5. ASSUME NEW w \in Workers, TryLock(w) PROVE (Newest /\ Scanned)'
  BY <1>5 DEF TryLock
<1>6. ASSUME NEW w \in Workers, TryLockFails(w) PROVE (Newest /\ Scanned)'
  BY <1>6 DEF TryLockFails
<1>7. ASSUME NEW w \in Workers, Load(w) PROVE (Newest /\ Scanned)'
  BY <1>7 DEF Load, Decoded
<1>8. ASSUME NEW w \in Workers, LoadFails(w) PROVE (Newest /\ Scanned)'
  BY <1>8 DEF LoadFails
<1>9. ASSUME NEW w \in Workers, MemoryHit(w) PROVE (Newest /\ Scanned)'
  BY <1>9 DEF MemoryHit, NextFile, InMemory, Memory
<1>10. ASSUME NEW w \in Workers, DiskHit(w) PROVE (Newest /\ Scanned)'
  BY <1>10 DEF DiskHit, NextFile, OnDisk
<1>11. ASSUME NEW w \in Workers, ProbeStarts(w) PROVE (Newest /\ Scanned)'
  BY <1>11 DEF ProbeStarts, NextFile
<1>12. ASSUME NEW w \in Workers, ProbeReads(w) PROVE (Newest /\ Scanned)'
  BY <1>12 DEF ProbeReads
<1>13. ASSUME NEW w \in Workers, ProbeThrows(w) PROVE (Newest /\ Scanned)'
  BY <1>13 DEF ProbeThrows, EntryUnreadable, NoEntry
<1>14. ASSUME NEW w \in Workers, RestatSame(w) PROVE (Newest /\ Scanned)'
  BY <1>14 DEF RestatSame
<1>15. ASSUME NEW w \in Workers, RestatDiffers(w) PROVE (Newest /\ Scanned)'
  BY <1>15 DEF RestatDiffers, EntryUnreadable, NoEntry
<1>16. ASSUME NEW w \in Workers, Publish(w) PROVE (Newest /\ Scanned)'
  BY <1>16 DEF Publish, NoEntry
<1>17. ASSUME NEW w \in Workers, Cancel(w) PROVE (Newest /\ Scanned)'
  BY <1>17 DEF Cancel
<1>18. ASSUME NEW w \in Workers, AllDone(w) PROVE (Newest /\ Scanned)'
  BY <1>18 DEF AllDone
<1>19. ASSUME NEW w \in Workers, Save(w) PROVE (Newest /\ Scanned)'
  BY <1>19 DEF Save
<1>20. ASSUME NEW w \in Workers, SaveFails(w) PROVE (Newest /\ Scanned)'
  BY <1>20 DEF SaveFails
<1>21. ASSUME NEW w \in Workers, ReturnEntries(w) PROVE (Newest /\ Scanned)'
  BY <1>21 DEF ReturnEntries
<1>22. ASSUME NEW w \in Workers, ForgetMissing(w) PROVE (Newest /\ Scanned)'
  BY <1>22 DEF ForgetMissing, LocalsEnd
<1>23. ASSUME NEW w \in Workers, CatalogDone(w) PROVE (Newest /\ Scanned)'
  BY <1>23 DEF CatalogDone, LocalsEnd
<1>24. CASE Install
  <2>1. PICK g \in Files :
          /\ made' = [made EXCEPT ![g] = @ + 1]
          /\ version' = [version EXCEPT ![g] = made[g] + 1]
    BY <1>24 DEF Install
  <2>2. \A f \in Files : made[f] \in Nat /\ made'[f] \in Nat /\ made[f] <= made'[f]
    BY <2>1
  <2>3. Newest'
    BY <2>1
  <2>4. Scanned'
    <3>1. SUFFICES ASSUME NEW w \in Workers, NEW f \in Files
                   PROVE  files'[w][f] <= made'[f]
      OBVIOUS
    <3>2. files' = files /\ files[w][f] \in Nat
      BY <1>24 DEF Install
    <3> QED
      BY <2>2, <3>2
  <2> QED
    BY <2>3, <2>4
<1>25. CASE Remove
  BY <1>25 DEF Remove
<1>26. CASE Damage
  BY <1>26 DEF Damage
<1>27. CASE Stop
  BY <1>27 DEF Stop
<1>28. CASE Crash
  BY <1>28 DEF Crash, LocalsEnd, ThreadsOf
<1>29. CASE UNCHANGED vars
  BY <1>29
<1> QED
  BY <1>1, <1>2, <1>3, <1>4, <1>5, <1>6, <1>7, <1>8, <1>9, <1>10, <1>11, <1>12, <1>13, <1>14, <1>15, <1>16, <1>17, <1>18, <1>19, <1>20, <1>21, <1>22, <1>23, <1>24, <1>25, <1>26, <1>27, <1>28, <1>29 DEF Next, Environment, Build

-----------------------------------------------------------------------------
(* Listings and scans. *)
LEMMA LookedStep ==
  ASSUME IInv, [Next]_vars
  PROVE  (Looked /\ EntriesMatchScan)'
<1> USE WorkersAssumption, VersionsAssumption, NoneAssumption DEF IInv, TypeOK, Looked, EntriesMatchScan, InHand, vars, source, local, At, Goto, NoFiles, NoIds, IdMap, Maybe, Absent
<1>1. ASSUME NEW w \in Workers, Scan(w) PROVE (Looked /\ EntriesMatchScan)'
  BY <1>1 DEF Scan
<1>2. ASSUME NEW w \in Workers, StatFile(w) PROVE (Looked /\ EntriesMatchScan)'
  BY <1>2 DEF StatFile
<1>3. ASSUME NEW w \in Workers, ScanEnds(w) PROVE (Looked /\ EntriesMatchScan)'
  BY <1>3 DEF ScanEnds
<1>4. ASSUME NEW w \in Workers, Decline(w) PROVE (Looked /\ EntriesMatchScan)'
  BY <1>4 DEF Decline, LocalsEnd
<1>5. ASSUME NEW w \in Workers, TryLock(w) PROVE (Looked /\ EntriesMatchScan)'
  BY <1>5 DEF TryLock
<1>6. ASSUME NEW w \in Workers, TryLockFails(w) PROVE (Looked /\ EntriesMatchScan)'
  BY <1>6 DEF TryLockFails
<1>7. ASSUME NEW w \in Workers, Load(w) PROVE (Looked /\ EntriesMatchScan)'
  BY <1>7 DEF Load, Decoded
<1>8. ASSUME NEW w \in Workers, LoadFails(w) PROVE (Looked /\ EntriesMatchScan)'
  BY <1>8 DEF LoadFails
<1>9. ASSUME NEW w \in Workers, MemoryHit(w) PROVE (Looked /\ EntriesMatchScan)'
  BY <1>9 DEF MemoryHit, NextFile, InMemory, Memory
<1>10. ASSUME NEW w \in Workers, DiskHit(w) PROVE (Looked /\ EntriesMatchScan)'
  BY <1>10 DEF DiskHit, NextFile, OnDisk
<1>11. ASSUME NEW w \in Workers, ProbeStarts(w) PROVE (Looked /\ EntriesMatchScan)'
  BY <1>11 DEF ProbeStarts, NextFile
<1>12. ASSUME NEW w \in Workers, ProbeReads(w) PROVE (Looked /\ EntriesMatchScan)'
  BY <1>12 DEF ProbeReads
<1>13. ASSUME NEW w \in Workers, ProbeThrows(w) PROVE (Looked /\ EntriesMatchScan)'
  BY <1>13 DEF ProbeThrows, EntryUnreadable, NoEntry
<1>14. ASSUME NEW w \in Workers, RestatSame(w) PROVE (Looked /\ EntriesMatchScan)'
  BY <1>14 DEF RestatSame
<1>15. ASSUME NEW w \in Workers, RestatDiffers(w) PROVE (Looked /\ EntriesMatchScan)'
  BY <1>15 DEF RestatDiffers, EntryUnreadable, NoEntry
<1>16. ASSUME NEW w \in Workers, Publish(w) PROVE (Looked /\ EntriesMatchScan)'
  BY <1>16 DEF Publish, NoEntry
<1>17. ASSUME NEW w \in Workers, Cancel(w) PROVE (Looked /\ EntriesMatchScan)'
  BY <1>17 DEF Cancel
<1>18. ASSUME NEW w \in Workers, AllDone(w) PROVE (Looked /\ EntriesMatchScan)'
  BY <1>18 DEF AllDone
<1>19. ASSUME NEW w \in Workers, Save(w) PROVE (Looked /\ EntriesMatchScan)'
  BY <1>19 DEF Save
<1>20. ASSUME NEW w \in Workers, SaveFails(w) PROVE (Looked /\ EntriesMatchScan)'
  BY <1>20 DEF SaveFails
<1>21. ASSUME NEW w \in Workers, ReturnEntries(w) PROVE (Looked /\ EntriesMatchScan)'
  BY <1>21 DEF ReturnEntries
<1>22. ASSUME NEW w \in Workers, ForgetMissing(w) PROVE (Looked /\ EntriesMatchScan)'
  BY <1>22 DEF ForgetMissing, LocalsEnd
<1>23. ASSUME NEW w \in Workers, CatalogDone(w) PROVE (Looked /\ EntriesMatchScan)'
  BY <1>23 DEF CatalogDone, LocalsEnd
<1>24. CASE Install
  BY <1>24 DEF Install
<1>25. CASE Remove
  BY <1>25 DEF Remove
<1>26. CASE Damage
  BY <1>26 DEF Damage
<1>27. CASE Stop
  BY <1>27 DEF Stop
<1>28. CASE Crash
  BY <1>28 DEF Crash, LocalsEnd, ThreadsOf
<1>29. CASE UNCHANGED vars
  BY <1>29
<1> QED
  BY <1>1, <1>2, <1>3, <1>4, <1>5, <1>6, <1>7, <1>8, <1>9, <1>10, <1>11, <1>12, <1>13, <1>14, <1>15, <1>16, <1>17, <1>18, <1>19, <1>20, <1>21, <1>22, <1>23, <1>24, <1>25, <1>26, <1>27, <1>28, <1>29 DEF Next, Environment, Build

-----------------------------------------------------------------------------
(* What memory, the snapshot and the listings keep. *)
LEMMA KeptStep ==
  ASSUME IInv, [Next]_vars
  PROVE  Kept'
<1> USE WorkersAssumption, VersionsAssumption, NoneAssumption DEF IInv, TypeOK, Looked, Kept, Good, InHand, vars, source, local, At, Goto, NoIds, IdMap, Maybe
<1>1. ASSUME NEW w \in Workers, Scan(w) PROVE Kept'
  BY <1>1 DEF Scan
<1>2. ASSUME NEW w \in Workers, StatFile(w) PROVE Kept'
  BY <1>2 DEF StatFile
<1>3. ASSUME NEW w \in Workers, ScanEnds(w) PROVE Kept'
  BY <1>3 DEF ScanEnds
<1>4. ASSUME NEW w \in Workers, Decline(w) PROVE Kept'
  BY <1>4 DEF Decline, LocalsEnd
<1>5. ASSUME NEW w \in Workers, TryLock(w) PROVE Kept'
  BY <1>5 DEF TryLock
<1>6. ASSUME NEW w \in Workers, TryLockFails(w) PROVE Kept'
  BY <1>6 DEF TryLockFails
<1>7. ASSUME NEW w \in Workers, Load(w) PROVE Kept'
  BY <1>7 DEF Load, Decoded
<1>8. ASSUME NEW w \in Workers, LoadFails(w) PROVE Kept'
  BY <1>8 DEF LoadFails
<1>9. ASSUME NEW w \in Workers, MemoryHit(w) PROVE Kept'
  BY <1>9 DEF MemoryHit, NextFile, InMemory, Memory
<1>10. ASSUME NEW w \in Workers, DiskHit(w) PROVE Kept'
  BY <1>10 DEF DiskHit, NextFile, OnDisk
<1>11. ASSUME NEW w \in Workers, ProbeStarts(w) PROVE Kept'
  BY <1>11 DEF ProbeStarts, NextFile
<1>12. ASSUME NEW w \in Workers, ProbeReads(w) PROVE Kept'
  BY <1>12 DEF ProbeReads
<1>13. ASSUME NEW w \in Workers, ProbeThrows(w) PROVE Kept'
  BY <1>13 DEF ProbeThrows, EntryUnreadable, NoEntry
<1>14. ASSUME NEW w \in Workers, RestatSame(w) PROVE Kept'
  BY <1>14 DEF RestatSame
<1>15. ASSUME NEW w \in Workers, RestatDiffers(w) PROVE Kept'
  BY <1>15 DEF RestatDiffers, EntryUnreadable, NoEntry
<1>16. ASSUME NEW w \in Workers, Publish(w) PROVE Kept'
  BY <1>16 DEF Publish, NoEntry
<1>17. ASSUME NEW w \in Workers, Cancel(w) PROVE Kept'
  BY <1>17 DEF Cancel
<1>18. ASSUME NEW w \in Workers, AllDone(w) PROVE Kept'
  BY <1>18 DEF AllDone
<1>19. ASSUME NEW w \in Workers, Save(w) PROVE Kept'
  BY <1>19 DEF Save
<1>20. ASSUME NEW w \in Workers, SaveFails(w) PROVE Kept'
  BY <1>20 DEF SaveFails
<1>21. ASSUME NEW w \in Workers, ReturnEntries(w) PROVE Kept'
  BY <1>21 DEF ReturnEntries
<1>22. ASSUME NEW w \in Workers, ForgetMissing(w) PROVE Kept'
  BY <1>22 DEF ForgetMissing, LocalsEnd
<1>23. ASSUME NEW w \in Workers, CatalogDone(w) PROVE Kept'
  BY <1>23 DEF CatalogDone, LocalsEnd
<1>24. CASE Install
  BY <1>24 DEF Install
<1>25. CASE Remove
  BY <1>25 DEF Remove
<1>26. CASE Damage
  BY <1>26 DEF Damage
<1>27. CASE Stop
  BY <1>27 DEF Stop
<1>28. CASE Crash
  BY <1>28 DEF Crash, LocalsEnd, ThreadsOf
<1>29. CASE UNCHANGED vars
  BY <1>29
<1> QED
  BY <1>1, <1>2, <1>3, <1>4, <1>5, <1>6, <1>7, <1>8, <1>9, <1>10, <1>11, <1>12, <1>13, <1>14, <1>15, <1>16, <1>17, <1>18, <1>19, <1>20, <1>21, <1>22, <1>23, <1>24, <1>25, <1>26, <1>27, <1>28, <1>29 DEF Next, Environment, Build

-----------------------------------------------------------------------------
(* From a lookup to the publication of what it found. *)
LEMMA InHandStep ==
  ASSUME IInv, [Next]_vars
  PROVE  InHand'
<1> USE WorkersAssumption, VersionsAssumption, NoneAssumption DEF IInv, TypeOK, Newest, Scanned, Looked, Kept, Good, EntriesMatchScan, InHand, vars, source, local, At, Goto, IdMap, Maybe, Versions, Absent, NoIds, NoFiles
<1>1. ASSUME NEW w \in Workers, Scan(w) PROVE InHand'
  BY <1>1 DEF Scan
<1>2. ASSUME NEW w \in Workers, StatFile(w) PROVE InHand'
  BY <1>2 DEF StatFile
<1>3. ASSUME NEW w \in Workers, ScanEnds(w) PROVE InHand'
  BY <1>3 DEF ScanEnds
<1>4. ASSUME NEW w \in Workers, Decline(w) PROVE InHand'
  BY <1>4 DEF Decline, LocalsEnd
<1>5. ASSUME NEW w \in Workers, TryLock(w) PROVE InHand'
  BY <1>5 DEF TryLock
<1>6. ASSUME NEW w \in Workers, TryLockFails(w) PROVE InHand'
  BY <1>6 DEF TryLockFails
<1>7. ASSUME NEW w \in Workers, Load(w) PROVE InHand'
  BY <1>7 DEF Load, Decoded
<1>8. ASSUME NEW w \in Workers, LoadFails(w) PROVE InHand'
  BY <1>8 DEF LoadFails
<1>9. ASSUME NEW w \in Workers, MemoryHit(w) PROVE InHand'
  BY <1>9 DEF MemoryHit, NextFile, InMemory, Memory
<1>10. ASSUME NEW w \in Workers, DiskHit(w) PROVE InHand'
  BY <1>10 DEF DiskHit, NextFile, OnDisk
<1>11. ASSUME NEW w \in Workers, ProbeStarts(w) PROVE InHand'
  <2>1. PICK f \in todo[w], id \in Identity :
          /\ file' = [file EXCEPT ![w] = f]
          /\ identity' = [identity EXCEPT ![w] = id]
          /\ id.stamp = files[w][f]
          /\ id.content = {version[f]} \ {Absent}
          /\ id.by = Producer[ProcOf[w]]
    BY <1>11, ProbeOpens
  <2>2. \A u \in Workers : u # w => /\ pc'[u] = pc[u] /\ file'[u] = file[u] /\ identity'[u] = identity[u]
    BY <1>11, <2>1 DEF ProbeStarts, NextFile
  <2>3. UNCHANGED <<files, made>>
    BY <1>11 DEF ProbeStarts, NextFile
  <2>4. f \in Files /\ files[w][f] \in Nat /\ made[f] \in Nat
    BY <2>1
  <2>5. \A v \in id.content : v = made[f] /\ files[w][f] <= v
    BY <2>1, <2>4
  <2>6. pc'[w] = "probe" /\ file'[w] = f /\ identity'[w] = id
    BY <1>11, <2>1 DEF ProbeStarts, NextFile
  <2> QED
    BY <2>1, <2>2, <2>3, <2>4, <2>5, <2>6
<1>12. ASSUME NEW w \in Workers, ProbeReads(w) PROVE InHand'
  <2>1. PICK id \in Identity :
          /\ identity' = [identity EXCEPT ![w] = id]
          /\ id.stamp = identity[w].stamp
          /\ id.by = identity[w].by
          /\ identity[w].content \subseteq id.content
          /\ id.content \subseteq identity[w].content \cup ({version[file[w]]} \ {Absent})
    BY <1>12, ProbeEnds
  <2>2. \A u \in Workers : u # w => /\ pc'[u] = pc[u] /\ file'[u] = file[u] /\ identity'[u] = identity[u]
    BY <1>12, <2>1 DEF ProbeReads
  <2>3. UNCHANGED <<files, made>>
    BY <1>12 DEF ProbeReads
  <2>4. /\ file[w] \in Files /\ files[w][file[w]] \in Nat /\ made[file[w]] \in Nat
        /\ identity[w].content # {}
    BY <1>12 DEF ProbeReads
  <2>5. \A v \in id.content : files[w][file[w]] <= v /\ v <= made[file[w]]
    <3>1. \A v \in identity[w].content : files[w][file[w]] <= v /\ v <= made[file[w]]
      BY <1>12 DEF ProbeReads
    <3>2. \A v \in {version[file[w]]} \ {Absent} : files[w][file[w]] <= v /\ v <= made[file[w]]
      BY <2>4
    <3> QED
      BY <2>1, <3>1, <3>2
  <2>6. pc'[w] = "restat" /\ pc[w] = "probe" /\ file'[w] = file[w] /\ identity'[w] = id
    BY <1>12, <2>1 DEF ProbeReads
  <2> QED
    BY <2>1, <2>2, <2>3, <2>4, <2>5, <2>6
<1>13. ASSUME NEW w \in Workers, ProbeThrows(w) PROVE InHand'
  BY <1>13 DEF ProbeThrows, EntryUnreadable, NoEntry
<1>14. ASSUME NEW w \in Workers, RestatSame(w) PROVE InHand'
  <2>1. /\ pc[w] = "restat" /\ file[w] \in Files /\ identity[w] \in Identity
        /\ identity[w].stamp = files[w][file[w]]
        /\ version[file[w]] = files[w][file[w]]
    BY <1>14 DEF RestatSame
  <2>2. files[w][file[w]] = made[file[w]] /\ made[file[w]] \in Nat
    BY <2>1 DEF Identity
  <2>3. ASSUME NEW v \in identity[w].content PROVE v = identity[w].stamp
    <3>1. v \in Nat
      BY <2>1 DEF Identity
    <3>2. files[w][file[w]] <= v /\ v <= made[file[w]]
      BY <2>1
    <3>3. PICK m \in Nat : m = made[file[w]] /\ m = files[w][file[w]] /\ m = identity[w].stamp
      BY <2>1, <2>2
    <3>4. m <= v /\ v <= m
      BY <3>2, <3>3
    <3>5. v = m
      BY <3>1, <3>4, Squeezed
    <3> QED
      BY <3>3, <3>5
  <2>4. identity[w].content = {identity[w].stamp}
    BY <2>1, <2>3
  <2> QED
    BY <1>14, <2>1, <2>4 DEF RestatSame
<1>15. ASSUME NEW w \in Workers, RestatDiffers(w) PROVE InHand'
  BY <1>15 DEF RestatDiffers, EntryUnreadable, NoEntry
<1>16. ASSUME NEW w \in Workers, Publish(w) PROVE InHand'
  BY <1>16 DEF Publish, NoEntry
<1>17. ASSUME NEW w \in Workers, Cancel(w) PROVE InHand'
  BY <1>17 DEF Cancel
<1>18. ASSUME NEW w \in Workers, AllDone(w) PROVE InHand'
  BY <1>18 DEF AllDone
<1>19. ASSUME NEW w \in Workers, Save(w) PROVE InHand'
  BY <1>19 DEF Save
<1>20. ASSUME NEW w \in Workers, SaveFails(w) PROVE InHand'
  BY <1>20 DEF SaveFails
<1>21. ASSUME NEW w \in Workers, ReturnEntries(w) PROVE InHand'
  BY <1>21 DEF ReturnEntries
<1>22. ASSUME NEW w \in Workers, ForgetMissing(w) PROVE InHand'
  BY <1>22 DEF ForgetMissing, LocalsEnd
<1>23. ASSUME NEW w \in Workers, CatalogDone(w) PROVE InHand'
  BY <1>23 DEF CatalogDone, LocalsEnd
<1>24. CASE Install
  <2>1. PICK g \in Files :
          /\ made' = [made EXCEPT ![g] = @ + 1]
          /\ version' = [version EXCEPT ![g] = made[g] + 1]
    BY <1>24 DEF Install
  <2>2. \A f \in Files : made[f] \in Nat /\ made'[f] \in Nat /\ made[f] <= made'[f]
    BY <2>1
  <2>3. UNCHANGED <<pc, file, identity, files>>
    BY <1>24 DEF Install
  <2>4. SUFFICES ASSUME NEW w \in Workers, pc[w] \in {"probe", "restat"},
                        NEW v \in identity[w].content
                 PROVE  files[w][file[w]] <= v /\ v <= made'[file[w]]
    BY <2>3
  <2>5. file[w] \in Files /\ v \in Versions
    BY <2>4 DEF Identity
  <2> QED
    BY <2>2, <2>4, <2>5
<1>25. CASE Remove
  BY <1>25 DEF Remove
<1>26. CASE Damage
  BY <1>26 DEF Damage
<1>27. CASE Stop
  BY <1>27 DEF Stop
<1>28. CASE Crash
  BY <1>28 DEF Crash, LocalsEnd, ThreadsOf
<1>29. CASE UNCHANGED vars
  BY <1>29
<1> QED
  BY <1>1, <1>2, <1>3, <1>4, <1>5, <1>6, <1>7, <1>8, <1>9, <1>10, <1>11, <1>12, <1>13, <1>14, <1>15, <1>16, <1>17, <1>18, <1>19, <1>20, <1>21, <1>22, <1>23, <1>24, <1>25, <1>26, <1>27, <1>28, <1>29 DEF Next, Environment, Build

-----------------------------------------------------------------------------
LEMMA Initially == Init => IInv
BY WorkersAssumption, VersionsAssumption, NoneAssumption
   DEF Init, IInv, TypeOK, Newest, Scanned, Looked, Kept, Good, EntriesMatchScan, InHand,
       Places, NoIds, NoFiles, IdMap, Maybe, Versions, Absent

LEMMA Inductive == IInv /\ [Next]_vars => IInv'
<1> SUFFICES ASSUME IInv, [Next]_vars PROVE IInv'
  OBVIOUS
<1> QED
  BY TypeStep, SourceStep, LookedStep, KeptStep, InHandStep DEF IInv

LEMMA Invariance == Spec => []IInv
BY Initially, Inductive, PTL DEF Spec

(* Type correctness of the shelf index, whatever fails and whoever runs.   *)
THEOREM Typed == Spec => []TypeOK
BY Invariance, PTL DEF IInv

(* shelf_index.cpp:134-138: the second stat is enough.  Whatever is        *)
(* installed, rewritten or removed while books are scanned and probed, no  *)
(* process, snapshot or listing holds an identity that was read from       *)
(* another version of the file than the one its stamp names.               *)
THEOREM IdentitiesStayTrue == Spec => []IdentitiesTrue
<1>1. IInv => IdentitiesTrue
  BY DEF IInv, Kept, Good, IdentitiesTrue, Faithful
<1> QED
  BY <1>1, Invariance, PTL

(* shelf_index.cpp:78-81: the producer field separates the decoder         *)
(* revisions that share a snapshot file during a reload.                   *)
THEOREM RevisionsStayApart == Spec => []OwnRevision
<1>1. IInv => OwnRevision
  BY DEF IInv, Kept, Good, OwnRevision
<1> QED
  BY <1>1, Invariance, PTL

(* shelf_index.cpp:102,109: readable entries describe the stamps scanned.  *)
THEOREM EntriesStayMatched == Spec => []EntriesMatchScan
BY Invariance, PTL DEF IInv
-----------------------------------------------------------------------------
(* The steps of one build before its save, and what a build that is to     *)
(* save must have: every name read, unless the directory did not open.     *)
Scanning == {"idle", "scan"}

Thorough ==
  \A w \in Workers :
    /\ pc[w] \notin Scanning => unread[w] = {} \/ Cancelled(w)
    /\ pc[w] = "save" => unread[w] = {}

(* A build that has read the snapshot and holds the lock file.  Only such  *)
(* a build saves, so until it lets go the snapshot is the one it read.     *)
Comparing == {"each", "probe", "restat", "publish", "save"}

Undisturbed ==
  \A w \in Workers :
    /\ pc[w] = "save" => lock = w
    /\ pc[w] \in Comparing /\ lock = w /\ disk # None => Decoded(w) = loaded[w]

SInv == /\ TypeOK
        /\ Fault("readdir") \/ Thorough
        /\ Fault("store") \/ Undisturbed

(* The names that a scan leaves unread, unless it was cancelled. *)
LEMMA ThoroughStep ==
  ASSUME TypeOK, Thorough, [Next]_vars, ~Fault("readdir")
  PROVE  Thorough'
<1> USE WorkersAssumption, VersionsAssumption DEF TypeOK, Thorough, vars, source, local, At, Goto, Scanning, Cancelled, Places, NoIds, NoFiles, Maybe
<1>1. ASSUME NEW w \in Workers, Scan(w) PROVE Thorough'
  BY <1>1 DEF Scan
<1>2. ASSUME NEW w \in Workers, StatFile(w) PROVE Thorough'
  BY <1>2 DEF StatFile
<1>3. ASSUME NEW w \in Workers, ScanEnds(w) PROVE Thorough'
  BY <1>3 DEF ScanEnds
<1>4. ASSUME NEW w \in Workers, Decline(w) PROVE Thorough'
  BY <1>4 DEF Decline, LocalsEnd
<1>5. ASSUME NEW w \in Workers, TryLock(w) PROVE Thorough'
  BY <1>5 DEF TryLock
<1>6. ASSUME NEW w \in Workers, TryLockFails(w) PROVE Thorough'
  BY <1>6 DEF TryLockFails
<1>7. ASSUME NEW w \in Workers, Load(w) PROVE Thorough'
  BY <1>7 DEF Load
<1>8. ASSUME NEW w \in Workers, LoadFails(w) PROVE Thorough'
  BY <1>8 DEF LoadFails
<1>9. ASSUME NEW w \in Workers, MemoryHit(w) PROVE Thorough'
  BY <1>9 DEF MemoryHit, NextFile
<1>10. ASSUME NEW w \in Workers, DiskHit(w) PROVE Thorough'
  BY <1>10 DEF DiskHit, NextFile
<1>11. ASSUME NEW w \in Workers, ProbeStarts(w) PROVE Thorough'
  BY <1>11 DEF ProbeStarts, NextFile
<1>12. ASSUME NEW w \in Workers, ProbeReads(w) PROVE Thorough'
  BY <1>12 DEF ProbeReads
<1>13. ASSUME NEW w \in Workers, ProbeThrows(w) PROVE Thorough'
  BY <1>13 DEF ProbeThrows, EntryUnreadable, NoEntry
<1>14. ASSUME NEW w \in Workers, RestatSame(w) PROVE Thorough'
  BY <1>14 DEF RestatSame
<1>15. ASSUME NEW w \in Workers, RestatDiffers(w) PROVE Thorough'
  BY <1>15 DEF RestatDiffers, EntryUnreadable, NoEntry
<1>16. ASSUME NEW w \in Workers, Publish(w) PROVE Thorough'
  BY <1>16 DEF Publish, NoEntry
<1>17. ASSUME NEW w \in Workers, Cancel(w) PROVE Thorough'
  BY <1>17 DEF Cancel
<1>18. ASSUME NEW w \in Workers, AllDone(w) PROVE Thorough'
  BY <1>18 DEF AllDone, WantsSave
<1>19. ASSUME NEW w \in Workers, Save(w) PROVE Thorough'
  BY <1>19 DEF Save
<1>20. ASSUME NEW w \in Workers, SaveFails(w) PROVE Thorough'
  BY <1>20 DEF SaveFails
<1>21. ASSUME NEW w \in Workers, ReturnEntries(w) PROVE Thorough'
  BY <1>21 DEF ReturnEntries
<1>22. ASSUME NEW w \in Workers, ForgetMissing(w) PROVE Thorough'
  BY <1>22 DEF ForgetMissing, LocalsEnd
<1>23. ASSUME NEW w \in Workers, CatalogDone(w) PROVE Thorough'
  BY <1>23 DEF CatalogDone, LocalsEnd
<1>24. CASE Install
  BY <1>24 DEF Install
<1>25. CASE Remove
  BY <1>25 DEF Remove
<1>26. CASE Damage
  BY <1>26 DEF Damage
<1>27. CASE Stop
  BY <1>27 DEF Stop
<1>28. CASE Crash
  BY <1>28 DEF Crash, LocalsEnd, ThreadsOf
<1>29. CASE UNCHANGED vars
  BY <1>29
<1> QED
  BY <1>1, <1>2, <1>3, <1>4, <1>5, <1>6, <1>7, <1>8, <1>9, <1>10, <1>11, <1>12, <1>13, <1>14, <1>15, <1>16, <1>17, <1>18, <1>19, <1>20, <1>21, <1>22, <1>23, <1>24, <1>25, <1>26, <1>27, <1>28, <1>29 DEF Next, Environment, Build

(* Nobody writes the snapshot while another build holds the lock file. *)
LEMMA UndisturbedStep ==
  ASSUME TypeOK, Undisturbed, [Next]_vars, ~Fault("store")
  PROVE  Undisturbed'
<1> USE WorkersAssumption, VersionsAssumption DEF TypeOK, Undisturbed, vars, source, local, At, Goto, Comparing, Decoded, NoIds, NoFiles, Maybe
<1>1. ASSUME NEW w \in Workers, Scan(w) PROVE Undisturbed'
  BY <1>1 DEF Scan
<1>2. ASSUME NEW w \in Workers, StatFile(w) PROVE Undisturbed'
  BY <1>2 DEF StatFile
<1>3. ASSUME NEW w \in Workers, ScanEnds(w) PROVE Undisturbed'
  BY <1>3 DEF ScanEnds
<1>4. ASSUME NEW w \in Workers, Decline(w) PROVE Undisturbed'
  BY <1>4 DEF Decline, LocalsEnd
<1>5. ASSUME NEW w \in Workers, TryLock(w) PROVE Undisturbed'
  BY <1>5 DEF TryLock
<1>6. ASSUME NEW w \in Workers, TryLockFails(w) PROVE Undisturbed'
  BY <1>6 DEF TryLockFails
<1>7. ASSUME NEW w \in Workers, Load(w) PROVE Undisturbed'
  BY <1>7 DEF Load
<1>8. ASSUME NEW w \in Workers, LoadFails(w) PROVE Undisturbed'
  BY <1>8 DEF LoadFails
<1>9. ASSUME NEW w \in Workers, MemoryHit(w) PROVE Undisturbed'
  BY <1>9 DEF MemoryHit, NextFile
<1>10. ASSUME NEW w \in Workers, DiskHit(w) PROVE Undisturbed'
  BY <1>10 DEF DiskHit, NextFile
<1>11. ASSUME NEW w \in Workers, ProbeStarts(w) PROVE Undisturbed'
  BY <1>11 DEF ProbeStarts, NextFile
<1>12. ASSUME NEW w \in Workers, ProbeReads(w) PROVE Undisturbed'
  BY <1>12 DEF ProbeReads
<1>13. ASSUME NEW w \in Workers, ProbeThrows(w) PROVE Undisturbed'
  BY <1>13 DEF ProbeThrows, EntryUnreadable, NoEntry
<1>14. ASSUME NEW w \in Workers, RestatSame(w) PROVE Undisturbed'
  BY <1>14 DEF RestatSame
<1>15. ASSUME NEW w \in Workers, RestatDiffers(w) PROVE Undisturbed'
  BY <1>15 DEF RestatDiffers, EntryUnreadable, NoEntry
<1>16. ASSUME NEW w \in Workers, Publish(w) PROVE Undisturbed'
  BY <1>16 DEF Publish, NoEntry
<1>17. ASSUME NEW w \in Workers, Cancel(w) PROVE Undisturbed'
  BY <1>17 DEF Cancel
<1>18. ASSUME NEW w \in Workers, AllDone(w) PROVE Undisturbed'
  BY <1>18 DEF AllDone, WantsSave
<1>19. ASSUME NEW w \in Workers, Save(w) PROVE Undisturbed'
  BY <1>19 DEF Save
<1>20. ASSUME NEW w \in Workers, SaveFails(w) PROVE Undisturbed'
  BY <1>20 DEF SaveFails
<1>21. ASSUME NEW w \in Workers, ReturnEntries(w) PROVE Undisturbed'
  BY <1>21 DEF ReturnEntries
<1>22. ASSUME NEW w \in Workers, ForgetMissing(w) PROVE Undisturbed'
  BY <1>22 DEF ForgetMissing, LocalsEnd
<1>23. ASSUME NEW w \in Workers, CatalogDone(w) PROVE Undisturbed'
  BY <1>23 DEF CatalogDone, LocalsEnd
<1>24. CASE Install
  BY <1>24 DEF Install
<1>25. CASE Remove
  BY <1>25 DEF Remove
<1>26. CASE Damage
  BY <1>26 DEF Damage
<1>27. CASE Stop
  BY <1>27 DEF Stop
<1>28. CASE Crash
  BY <1>28 DEF Crash, LocalsEnd, ThreadsOf
<1>29. CASE UNCHANGED vars
  BY <1>29
<1> QED
  BY <1>1, <1>2, <1>3, <1>4, <1>5, <1>6, <1>7, <1>8, <1>9, <1>10, <1>11, <1>12, <1>13, <1>14, <1>15, <1>16, <1>17, <1>18, <1>19, <1>20, <1>21, <1>22, <1>23, <1>24, <1>25, <1>26, <1>27, <1>28, <1>29 DEF Next, Environment, Build

LEMMA SaveInvariance == Spec => []SInv
<1>1. Init => SInv
  <2>1. Init => IInv
    BY Initially
  <2>2. Init => Thorough
    BY DEF Init, Thorough, Scanning
  <2>3. Init => Undisturbed
    BY DEF Init, Undisturbed, Comparing
  <2> QED
    BY <2>1, <2>2, <2>3 DEF SInv, IInv
<1>2. SInv /\ TypeOK' /\ [Next]_vars => SInv'
  <2>1. Fault("readdir") <=> Fault("readdir")'
    BY DEF Fault
  <2>2. Fault("store") <=> Fault("store")'
    BY DEF Fault
  <2> QED
    BY <2>1, <2>2, ThoroughStep, UndisturbedStep DEF SInv
<1> QED
  BY <1>1, <1>2, Typed, PTL DEF Spec

(* shelf_index.cpp:96,149: whoever else runs, is stopped or dies, a build  *)
(* that saves has read every name of the directory, unless the directory   *)
(* could not be opened or read on, which the code takes for its end.       *)
THEOREM WholeScansAreSaved == Spec => (Fault("readdir") \/ WholeScansSaved)
<1>1. SInv /\ [Next]_vars /\ ~Fault("readdir")
        => [\A w \in Workers : Saves(w) => unread[w] = {}]_vars
  BY DEF SInv, Thorough, Saves, At
<1>2. CASE Fault("readdir")
  BY <1>2
<1>3. CASE ~Fault("readdir")
  <2>1. SInv /\ [Next]_vars => [\A w \in Workers : Saves(w) => unread[w] = {}]_vars
    BY <1>1, <1>3
  <2> QED
    BY <2>1, SaveInvariance, PTL DEF Spec, WholeScansSaved
<1> QED
  BY <1>2, <1>3

(* shelf_index.cpp:83-91,149: the lock file makes reading the snapshot and *)
(* replacing it one step: what a save replaces is what its build read,     *)
(* unless the store failed that build when it took the lock or read.       *)
THEOREM SavesReplaceWhatTheyRead == Spec => (Fault("store") \/ SavesOverItsOwnLoad)
<1>1. SInv /\ [Next]_vars /\ ~Fault("store")
        => [\A w \in Workers : Saves(w) /\ disk # None => Decoded(w) = loaded[w]]_vars
  BY DEF SInv, Undisturbed, Comparing, Saves, At
<1>2. CASE Fault("store")
  BY <1>2
<1>3. CASE ~Fault("store")
  <2>1. SInv /\ [Next]_vars
          => [\A w \in Workers : Saves(w) /\ disk # None => Decoded(w) = loaded[w]]_vars
    BY <1>1, <1>3
  <2> QED
    BY <2>1, SaveInvariance, PTL DEF Spec, SavesOverItsOwnLoad
<1> QED
  BY <1>2, <1>3
=============================================================================
