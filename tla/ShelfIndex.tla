----------------------------- MODULE ShelfIndex -----------------------------
(***************************************************************************)
(* The identities of the books of one directory (src/apache): the metadata *)
(* map of each httpd child process, the snapshot file that all children    *)
(* share through GeistCacheDir, and the threads that run scan_shelf,       *)
(* shelf_entries and forget_missing over it while the directory changes.   *)
(*                                                                         *)
(* A book file is abstracted to its version: every installation makes a    *)
(* new one, a version has one stamp (inode, ctime, mtime, size), and no    *)
(* two versions share a stamp.  An identity is what a listing shows: it    *)
(* records under which stamp it is kept, from which versions its text was  *)
(* read, and by which decoder revision.                                    *)
(***************************************************************************)
EXTENDS Naturals, FiniteSets

CONSTANTS Procs,       \* httpd child processes
          Workers,     \* threads that build a shelf
          ProcOf,      \* [Workers -> Procs]
          Warmers,     \* the workers that are background warmers: they can be stopped
          Files,       \* book names of the directory
          MaxVersion,  \* bound: installations of one file
          Producer,    \* [Procs -> decoder revisions]
          Faults,      \* the faults that may happen in this instance
          None

FaultKinds == {"crash", "stop", "store", "corrupt", "readdir", "probe"}

ASSUME WorkersAssumption  == ProcOf \in [Workers -> Procs] /\ Warmers \subseteq Workers
ASSUME VersionsAssumption == MaxVersion \in Nat \ {0} /\ None \notin Workers
ASSUME FaultsAssumption   == Faults \subseteq FaultKinds

Versions  == 1..MaxVersion
Absent    == 0
Revisions == {Producer[p] : p \in Procs}
Identity  == [stamp : Versions, content : SUBSET Versions, by : Revisions]
Maybe(S)  == S \cup {None}
ASSUME NoneAssumption == None \notin Identity /\ None \notin Files

VARIABLES
  version,   \* [Files -> Versions or Absent]: the directory as it is
  made,      \* [Files -> 0..MaxVersion]: installations so far
  memory,    \* [Procs -> [Files -> Maybe(Identity)]]: the metadata map
  disk,      \* the snapshot file: [by, ids], or None when missing or damaged
  lock,      \* the holder of the directory's lock file, or None
  stop,      \* [Procs -> BOOLEAN]: the warmer's stop flag
  pc,        \* [Workers -> Places]
  unread,    \* [Workers -> SUBSET Files]: names the scan has not come to
  files,     \* [Workers -> [Files -> Versions or Absent]]: stamps the scan saw
  todo,      \* [Workers -> SUBSET Files]: scanned files not yet looked up
  loaded,    \* [Workers -> [Files -> Maybe(Identity)]]: decoded snapshot
  fresh,     \* [Workers -> [Files -> Maybe(Identity)]]: readable entries so far
  changed,   \* [Workers -> BOOLEAN]
  file,      \* [Workers -> Maybe(Files)]: the file being looked up
  identity   \* [Workers -> Maybe(Identity)]: its identity so far

source == <<version, made>>
local  == <<unread, files, todo, loaded, fresh, changed, file, identity>>
vars   == <<source, memory, disk, lock, stop, pc, local>>

Places == {"idle", "scan", "lock", "load", "each", "probe", "restat",
           "publish", "save", "return", "forget"}

NoIds   == [f \in Files |-> None]
NoFiles == [f \in Files |-> Absent]

(* The locals of the threads of W, out of scope.                           *)
LocalsEnd(W) ==
  /\ unread' = [w \in Workers |-> IF w \in W THEN {} ELSE unread[w]]
  /\ files' = [w \in Workers |-> IF w \in W THEN NoFiles ELSE files[w]]
  /\ todo' = [w \in Workers |-> IF w \in W THEN {} ELSE todo[w]]
  /\ loaded' = [w \in Workers |-> IF w \in W THEN NoIds ELSE loaded[w]]
  /\ fresh' = [w \in Workers |-> IF w \in W THEN NoIds ELSE fresh[w]]
  /\ changed' = [w \in Workers |-> IF w \in W THEN FALSE ELSE changed[w]]
  /\ file' = [w \in Workers |-> IF w \in W THEN None ELSE file[w]]
  /\ identity' = [w \in Workers |-> IF w \in W THEN None ELSE identity[w]]

Init == /\ made \in [Files -> 0..1]
        /\ version = made
        /\ memory = [p \in Procs |-> NoIds]
        /\ disk = None
        /\ lock = None
        /\ stop = [p \in Procs |-> FALSE]
        /\ pc = [w \in Workers |-> "idle"]
        /\ unread = [w \in Workers |-> {}]
        /\ files = [w \in Workers |-> NoFiles]
        /\ todo = [w \in Workers |-> {}]
        /\ loaded = [w \in Workers |-> NoIds]
        /\ fresh = [w \in Workers |-> NoIds]
        /\ changed = [w \in Workers |-> FALSE]
        /\ file = [w \in Workers |-> None]
        /\ identity = [w \in Workers |-> None]

Goto(w, place) == pc' = [pc EXCEPT ![w] = place]
At(w, place)   == pc[w] = place
Memory(w)      == memory[ProcOf[w]]
Cancelled(w)   == w \in Warmers /\ stop[ProcOf[w]]
Fault(k)       == k \in Faults
-----------------------------------------------------------------------------
(* scan_shelf: one stat per name, in directory order, until cancelled.     *)
Scan(w) ==
  /\ At(w, "idle")
  /\ ~Cancelled(w)
  /\ unread' = [unread EXCEPT ![w] = Files]
  /\ Goto(w, "scan")
  /\ UNCHANGED <<source, memory, disk, lock, stop, files, todo, loaded, fresh, changed, file, identity>>

StatFile(w) ==
  /\ At(w, "scan")
  /\ ~Cancelled(w)
  /\ \E f \in unread[w] :
       /\ unread' = [unread EXCEPT ![w] = @ \ {f}]
       /\ files' = [files EXCEPT ![w][f] = version[f]]
  /\ UNCHANGED <<source, memory, disk, lock, stop, pc, todo, loaded, fresh, changed, file, identity>>

(* The scan also ends, as at the end of the directory, when the directory  *)
(* cannot be opened or the next name cannot be read.                       *)
ScanEnds(w) ==
  /\ At(w, "scan")
  /\ \/ unread[w] = {}
     \/ Cancelled(w)
     \/ Fault("readdir")
  /\ todo' = [todo EXCEPT ![w] = {f \in Files : files[w][f] # Absent}]
  /\ Goto(w, "lock")
  /\ UNCHANGED <<source, memory, disk, lock, stop, unread, files, loaded, fresh, changed, file, identity>>

(* A page request leaves a directory without books to other handlers; a    *)
(* catalog request and a warmer build its empty listing.                   *)
Decline(w) ==
  /\ At(w, "lock")
  /\ w \notin Warmers
  /\ files[w] = NoFiles
  /\ LocalsEnd({w})
  /\ Goto(w, "idle")
  /\ UNCHANGED <<source, memory, disk, lock, stop>>

(* CacheStore::try_lock never waits: a build without the lock only reads.  *)
TryLock(w) ==
  /\ At(w, "lock")
  /\ lock' = IF lock = None THEN w ELSE lock
  /\ Goto(w, "load")
  /\ UNCHANGED <<source, memory, disk, stop, local>>

TryLockFails(w) ==
  /\ At(w, "lock")
  /\ Fault("store")
  /\ Goto(w, "load")
  /\ UNCHANGED <<source, memory, disk, lock, stop, local>>

(* Mutant: the producer field of the snapshot is not compared.             *)
DecodedAny(w) == IF disk # None THEN disk.ids ELSE NoIds

(* read and decode_snapshot: all of the snapshot or, when it is missing,   *)
(* damaged or of another decoder revision, none of it.                     *)
Decoded(w) == IF disk # None /\ disk.by = Producer[ProcOf[w]] THEN disk.ids ELSE NoIds

Load(w) ==
  /\ At(w, "load")
  /\ loaded' = [loaded EXCEPT ![w] = Decoded(w)]
  /\ Goto(w, "each")
  /\ UNCHANGED <<source, memory, disk, lock, stop, unread, files, todo, fresh, changed, file, identity>>

(* A read error, or a rename that unlinks the file opened for reading.     *)
LoadFails(w) ==
  /\ At(w, "load")
  /\ Fault("store")
  /\ loaded' = [loaded EXCEPT ![w] = NoIds]
  /\ Goto(w, "each")
  /\ UNCHANGED <<source, memory, disk, lock, stop, unread, files, todo, fresh, changed, file, identity>>

(* Mutant: a path known to the process is not compared by stamp.           *)
InMemoryByPath(w, f) == Memory(w)[f] # None

InMemory(w, f) == Memory(w)[f] # None /\ Memory(w)[f].stamp = files[w][f]
OnDisk(w, f)   == loaded[w][f] # None /\ loaded[w][f].stamp = files[w][f]

NextFile(w) == At(w, "each") /\ ~Cancelled(w)

MemoryHit(w) ==
  /\ NextFile(w)
  /\ \E f \in todo[w] :
       /\ InMemory(w, f)
       /\ file' = [file EXCEPT ![w] = f]
       /\ identity' = [identity EXCEPT ![w] = Memory(w)[f]]
  /\ Goto(w, "publish")
  /\ UNCHANGED <<source, memory, disk, lock, stop, unread, files, todo, loaded, fresh, changed>>

DiskHit(w) ==
  /\ NextFile(w)
  /\ \E f \in todo[w] :
       /\ ~InMemory(w, f)
       /\ OnDisk(w, f)
       /\ file' = [file EXCEPT ![w] = f]
       /\ identity' = [identity EXCEPT ![w] = loaded[w][f]]
  /\ Goto(w, "publish")
  /\ UNCHANGED <<source, memory, disk, lock, stop, unread, files, todo, loaded, fresh, changed>>


(* probe_book opens the file as it is now, which need not be as scanned.   *)
ProbeStarts(w) ==
  /\ NextFile(w)
  /\ \E f \in todo[w] :
       /\ ~InMemory(w, f)
       /\ ~OnDisk(w, f)
       /\ file' = [file EXCEPT ![w] = f]
       /\ identity' = [identity EXCEPT ![w] =
            [stamp   |-> files[w][f],
             content |-> {version[f]} \ {Absent},
             by      |-> Producer[ProcOf[w]]]]
  /\ changed' = [changed EXCEPT ![w] = TRUE]
  /\ Goto(w, "probe")
  /\ UNCHANGED <<source, memory, disk, lock, stop, unread, files, todo, loaded, fresh>>

(* It goes on reading while the file may be rewritten in place, so it may  *)
(* have read parts of two versions when it ends.                           *)
ProbeReads(w) ==
  /\ At(w, "probe")
  /\ identity[w].content # {}
  /\ \E now \in {{}, {version[file[w]]} \ {Absent}} :
       identity' = [identity EXCEPT ![w].content = @ \cup now]
  /\ Goto(w, "restat")
  /\ UNCHANGED <<source, memory, disk, lock, stop, unread, files, todo, loaded, fresh, changed, file>>

NoEntry(w) == /\ file' = [file EXCEPT ![w] = None]
              /\ identity' = [identity EXCEPT ![w] = None]

(* The file is gone, or is no readable book: its entry is marked           *)
(* unreadable and neither kept in memory nor saved.                        *)
EntryUnreadable(w) == /\ todo' = [todo EXCEPT ![w] = @ \ {file[w]}]
                      /\ NoEntry(w)
                      /\ Goto(w, "each")
                      /\ UNCHANGED <<source, memory, disk, lock, stop, unread, files,
                                     loaded, fresh, changed>>

(* Mutant: a file that cannot be probed is tried again. *)
ProbeThrowsRetried(w) ==
  /\ At(w, "probe")
  /\ identity[w].content = {} \/ Fault("probe")
  /\ NoEntry(w)
  /\ Goto(w, "each")
  /\ UNCHANGED <<source, memory, disk, lock, stop, unread, files, todo, loaded, fresh, changed>>

ProbeThrows(w) ==
  /\ At(w, "probe")
  /\ identity[w].content = {} \/ Fault("probe")
  /\ EntryUnreadable(w)

(* Mutant: a probe that succeeded is published without a second look.      *)
RestatTrusts(w) ==
  /\ At(w, "restat")
  /\ Goto(w, "publish")
  /\ UNCHANGED <<source, memory, disk, lock, stop, local>>

(* The stamp is taken again after the probe.                               *)
RestatSame(w) ==
  /\ At(w, "restat")
  /\ version[file[w]] = files[w][file[w]]
  /\ Goto(w, "publish")
  /\ UNCHANGED <<source, memory, disk, lock, stop, local>>

RestatDiffers(w) ==
  /\ At(w, "restat")
  /\ version[file[w]] # files[w][file[w]]
  /\ EntryUnreadable(w)

(* Under meta_mutex the identity goes to the process, and to this build.   *)
Publish(w) ==
  /\ At(w, "publish")
  /\ memory' = [memory EXCEPT ![ProcOf[w]][file[w]] = identity[w]]
  /\ fresh' = [fresh EXCEPT ![w][file[w]] = identity[w]]
  /\ todo' = [todo EXCEPT ![w] = @ \ {file[w]}]
  /\ NoEntry(w)
  /\ Goto(w, "each")
  /\ UNCHANGED <<source, disk, lock, stop, unread, files, loaded, changed>>

Size(ids) == Cardinality({f \in Files : ids[f] # None})

(* A cancelled walk returns at the next file, without saving.              *)
Cancel(w) ==
  /\ At(w, "each")
  /\ todo[w] # {}
  /\ Cancelled(w)
  /\ Goto(w, "return")
  /\ UNCHANGED <<source, memory, disk, lock, stop, local>>

(* Mutant: the last look at the stop flag is forgotten.                    *)
WantsSaveWhenStopped(w) == /\ lock = w
                           /\ changed[w] \/ Size(fresh[w]) # Size(loaded[w])

(* Mutant: a build that was refused the lock file saves all the same.      *)
WantsSaveUnlocked(w) == /\ changed[w] \/ Size(fresh[w]) # Size(loaded[w])
                        /\ ~Cancelled(w)

WantsSave(w) == /\ lock = w
                /\ changed[w] \/ Size(fresh[w]) # Size(loaded[w])
                /\ ~Cancelled(w)

AllDone(w) ==
  /\ At(w, "each")
  /\ todo[w] = {}
  /\ Goto(w, IF WantsSave(w) THEN "save" ELSE "return")
  /\ UNCHANGED <<source, memory, disk, lock, stop, local>>

(* CacheStore::write: a private temporary file is written, synced and      *)
(* renamed over the snapshot.  A failure leaves the old snapshot.          *)
Save(w) ==
  /\ At(w, "save")
  /\ disk' = [by |-> Producer[ProcOf[w]], ids |-> fresh[w]]
  /\ Goto(w, "return")
  /\ UNCHANGED <<source, memory, lock, stop, local>>

SaveFails(w) ==
  /\ At(w, "save")
  /\ Fault("store")
  /\ Goto(w, "return")
  /\ UNCHANGED <<source, memory, disk, lock, stop, local>>

(* shelf_entries returns what it has and closes the lock file.             *)
ReturnEntries(w) ==
  /\ At(w, "return")
  /\ lock' = IF lock = w THEN None ELSE lock
  /\ Goto(w, "forget")
  /\ UNCHANGED <<source, memory, disk, stop, local>>

ForgetMissing(w) ==
  /\ At(w, "forget")
  /\ w \in Warmers \/ files[w] # NoFiles
  /\ memory' = [memory EXCEPT ![ProcOf[w]] =
                  [f \in Files |-> IF files[w][f] = Absent THEN None ELSE @[f]]]
  /\ LocalsEnd({w})
  /\ Goto(w, "idle")
  /\ UNCHANGED <<source, disk, lock, stop>>
(* shelf_catalog keeps the identities of files its scan did not see.       *)
CatalogDone(w) ==
  /\ At(w, "forget")
  /\ w \notin Warmers
  /\ LocalsEnd({w})
  /\ Goto(w, "idle")
  /\ UNCHANGED <<source, memory, disk, lock, stop>>
-----------------------------------------------------------------------------
(* The environment: books are installed, rewritten and removed; the cache  *)
(* file is damaged; a child is asked to stop, or dies and is replaced by   *)
(* one with an empty map.                                                  *)
Install == \E f \in Files :
             /\ made[f] < MaxVersion
             /\ made' = [made EXCEPT ![f] = @ + 1]
             /\ version' = [version EXCEPT ![f] = made[f] + 1]
             /\ UNCHANGED <<memory, disk, lock, stop, pc, local>>

Remove == \E f \in Files :
            /\ version[f] # Absent
            /\ version' = [version EXCEPT ![f] = Absent]
            /\ UNCHANGED <<made, memory, disk, lock, stop, pc, local>>

Damage == /\ Fault("corrupt")
          /\ disk # None
          /\ disk' = None
          /\ UNCHANGED <<source, memory, lock, stop, pc, local>>

Stop == /\ Fault("stop")
        /\ \E p \in Procs : ~stop[p] /\ stop' = [stop EXCEPT ![p] = TRUE]
        /\ UNCHANGED <<source, memory, disk, lock, pc, local>>

ThreadsOf(p) == {w \in Workers : ProcOf[w] = p}

Crash == /\ Fault("crash")
         /\ \E p \in Procs :
              /\ memory' = [memory EXCEPT ![p] = NoIds]
              /\ stop' = [stop EXCEPT ![p] = FALSE]
              /\ lock' = IF lock \in ThreadsOf(p) THEN None ELSE lock
              /\ pc' = [w \in Workers |-> IF w \in ThreadsOf(p) THEN "idle" ELSE pc[w]]
              /\ LocalsEnd(ThreadsOf(p))
         /\ UNCHANGED <<source, disk>>

Build(w) == \/ StatFile(w) \/ ScanEnds(w) \/ Decline(w)
            \/ TryLock(w) \/ TryLockFails(w) \/ Load(w) \/ LoadFails(w)
            \/ MemoryHit(w) \/ DiskHit(w)
            \/ ProbeStarts(w) \/ ProbeReads(w) \/ ProbeThrows(w)
            \/ RestatSame(w) \/ RestatDiffers(w) \/ Publish(w)
            \/ Cancel(w) \/ AllDone(w) \/ Save(w) \/ SaveFails(w)
            \/ ReturnEntries(w) \/ ForgetMissing(w) \/ CatalogDone(w)

Environment == Install \/ Remove \/ Damage \/ Stop \/ Crash

Next == Environment \/ \E w \in Workers : Scan(w) \/ Build(w)

Spec     == Init /\ [][Next]_vars
LiveSpec == Spec /\ \A w \in Workers : WF_vars(Build(w))
-----------------------------------------------------------------------------
IdMap   == [Files -> Maybe(Identity)]

TypeOK ==
  /\ version \in [Files -> Versions \cup {Absent}]
  /\ made \in [Files -> 0..MaxVersion]
  /\ memory \in [Procs -> IdMap]
  /\ disk \in Maybe([by : Revisions, ids : IdMap])
  /\ lock \in Maybe(Workers)
  /\ stop \in [Procs -> BOOLEAN]
  /\ pc \in [Workers -> Places]
  /\ unread \in [Workers -> SUBSET Files]
  /\ files \in [Workers -> [Files -> Versions \cup {Absent}]]
  /\ todo \in [Workers -> SUBSET Files]
  /\ loaded \in [Workers -> IdMap]
  /\ fresh \in [Workers -> IdMap]
  /\ changed \in [Workers -> BOOLEAN]
  /\ file \in [Workers -> Maybe(Files)]
  /\ identity \in [Workers -> Maybe(Identity)]

(* An identity shows the version its stamp names, and nothing else.        *)
Faithful(id) == id # None => id.content = {id.stamp}

(* shelf_index.cpp:134-138: an identity that some process, the snapshot or *)
(* a listing holds was read from exactly the version whose stamp it        *)
(* carries, however the file was rewritten, removed or put back between    *)
(* the scan, the probe and the second stat, and whichever child read it.   *)
IdentitiesTrue ==
  \A f \in Files :
    /\ \A p \in Procs : Faithful(memory[p][f])
    /\ disk # None => Faithful(disk.ids[f])
    /\ \A w \in Workers : Faithful(loaded[w][f]) /\ Faithful(fresh[w][f])

(* shelf_index.cpp:78-81: a listing built by one decoder revision never    *)
(* shows what another revision extracted, although children of both share  *)
(* the snapshot file while the server is reloaded with a new module.       *)
OwnRevision ==
  \A w \in Workers, f \in Files :
    fresh[w][f] # None => fresh[w][f].by = Producer[ProcOf[w]]

(* shelf_index.cpp:102,109: a readable entry describes the very stamp the  *)
(* scan saw, which is what the page's ETag is computed from.               *)
EntriesMatchScan ==
  \A w \in Workers, f \in Files :
    fresh[w][f] # None => fresh[w][f].stamp = files[w][f]

Saves(w) == At(w, "save") /\ disk' # disk /\ pc'[w] = "return"

(* shelf_index.cpp:83-91,149: the snapshot that a save replaces is the one *)
(* this build read, so no identity another child saved in between is lost. *)
SavesOverItsOwnLoad ==
  [][\A w \in Workers : Saves(w) /\ disk # None => Decoded(w) = loaded[w]]_vars

(* shelf_index.cpp:96,149: a scan that the stop flag cut short never       *)
(* becomes the snapshot: every name of the directory was read.             *)
WholeScansSaved == [][\A w \in Workers : Saves(w) => unread[w] = {}]_vars

(* Every build ends, whoever holds the lock file and whatever fails.       *)
BuildsReturn == \A w \in Workers : pc[w] # "idle" ~> pc[w] = "idle"

(* mod_geist.cpp:128-130 says that identities are persisted in snapshots   *)
(* shared across children and restarts.  A build that held the lock file   *)
(* and was not stopped would leave its readable identities in the snapshot.*)
Persisted ==
  \A w \in Workers :
    At(w, "return") /\ lock = w /\ ~Cancelled(w) =>
      \A f \in Files : fresh[w][f] # None => disk # None /\ disk.ids[f] = fresh[w][f]
=============================================================================
