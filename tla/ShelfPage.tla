----------------------------- MODULE ShelfPage ------------------------------
(***************************************************************************)
(* The rendered listing of one directory in one httpd child                *)
(* (geist_dir_handler, src/apache/mod_geist.cpp).  A request signs what    *)
(* its own scan of the directory found, together with the URI and settings *)
(* it is answered under, and is served the one cached Shelf only if that   *)
(* has the same signature.  Otherwise it takes the build mutex, looks      *)
(* again, and builds the page from its own scan, which may be older by     *)
(* then than the directory and than the Shelf it replaces.                 *)
(*                                                                         *)
(* shelf_entries and forget_missing, the work of a build, are ShelfIndex;  *)
(* here they are one step that may throw.  Each thread has one keep-alive  *)
(* connection whose client stores one page per URI.                        *)
(***************************************************************************)
EXTENDS Naturals

CONSTANTS Threads,
          Views,       \* URIs and virtual hosts that show this directory
          MaxVersion,  \* bound: changes of the directory
          MaxThrows,   \* bound: builds that fail
          None

Versions == 1..MaxVersion

(* http_cache_key over the scan, the renderer's identity and the heading.  *)
Signatures == Versions \X Views

ASSUME BoundsAssumption == MaxVersion \in Nat \ {0} /\ MaxThrows \in Nat
ASSUME NobodyAssumption == None \notin Threads /\ None \notin Signatures

VARIABLES dir,     \* Versions: what a scan of the directory finds
          page,    \* Signatures \cup {None}: shelf_cache()[directory]
          builder, \* Threads \cup {None}: holder of shelf_build_mutex
          at,      \* [Threads -> Places]
          sig,     \* [Threads -> Signatures \cup {None}]: of the request
          shelf,   \* [Threads -> Signatures \cup {None}]: its shared_ptr<Shelf>
          copy,    \* [Threads \X Views -> 0..MaxVersion]: page a client keeps
          throws

vars == <<dir, page, builder, at, sig, shelf, copy, throws>>

Places == {"idle", "lookup", "wait", "recheck", "build", "publish", "serve"}
InBuild == {"recheck", "build", "publish"}

Init == /\ dir = 1 /\ page = None /\ builder = None
        /\ at    = [t \in Threads |-> "idle"]
        /\ sig   = [t \in Threads |-> None]
        /\ shelf = [t \in Threads |-> None]
        /\ copy  = [c \in Threads \X Views |-> 0]
        /\ throws = 0

Goto(t, place) == at' = [at EXCEPT ![t] = place]

Leave(t) == /\ Goto(t, "idle")
            /\ sig'   = [sig EXCEPT ![t] = None]
            /\ shelf' = [shelf EXCEPT ![t] = None]

Change == /\ dir < MaxVersion
          /\ dir' = dir + 1
          /\ UNCHANGED <<page, builder, at, sig, shelf, copy, throws>>

Scan(t) == /\ at[t] = "idle"
           /\ \E v \in Views : sig' = [sig EXCEPT ![t] = <<dir, v>>]
           /\ Goto(t, "lookup")
           /\ UNCHANGED <<dir, page, builder, shelf, copy, throws>>

(* A mutant: the cache is asked for the directory alone. *)
MatchesDirectory(t) == page # None
Matches(t) == page = sig[t]

Hit(t) == /\ at[t] = "lookup" /\ Matches(t)
          /\ shelf' = [shelf EXCEPT ![t] = page]
          /\ Goto(t, "serve")
          /\ UNCHANGED <<dir, page, builder, sig, copy, throws>>

Miss(t) == /\ at[t] = "lookup" /\ ~Matches(t)
           /\ Goto(t, "wait")
           /\ UNCHANGED <<dir, page, builder, sig, shelf, copy, throws>>

(* A mutant: concurrent builds. *)
LockShared(t) == /\ at[t] = "wait"
                 /\ Goto(t, "recheck")
                 /\ UNCHANGED <<dir, page, builder, sig, shelf, copy, throws>>

Lock(t) == /\ at[t] = "wait" /\ builder = None
           /\ builder' = t
           /\ Goto(t, "recheck")
           /\ UNCHANGED <<dir, page, sig, shelf, copy, throws>>

(* Somebody else has built the page in the meantime.                       *)
RecheckHit(t) == /\ at[t] = "recheck" /\ Matches(t)
                 /\ shelf' = [shelf EXCEPT ![t] = page]
                 /\ builder' = None
                 /\ Goto(t, "serve")
                 /\ UNCHANGED <<dir, page, sig, copy, throws>>

(* A mutant: the winner of the mutex builds without a second look. *)
RecheckSkipped(t) == /\ at[t] = "recheck"
                     /\ Goto(t, "build")
                     /\ UNCHANGED <<dir, page, builder, sig, shelf, copy, throws>>

RecheckMiss(t) == /\ at[t] = "recheck" /\ ~Matches(t)
                  /\ Goto(t, "build")
                  /\ UNCHANGED <<dir, page, builder, sig, shelf, copy, throws>>

(* A mutant: a build that fails keeps the mutex. *)
BuildThrowsLocked(t) == /\ at[t] = "build" /\ throws < MaxThrows
                        /\ throws' = throws + 1
                        /\ Leave(t)
                        /\ UNCHANGED <<dir, page, builder, copy>>


Build(t) == /\ at[t] = "build"
            /\ shelf' = [shelf EXCEPT ![t] = sig[t]]
            /\ Goto(t, "publish")
            /\ UNCHANGED <<dir, page, builder, sig, copy, throws>>

(* Unwinding releases the mutex and answers 500.                           *)
BuildThrows(t) == /\ at[t] = "build" /\ throws < MaxThrows
                  /\ throws' = throws + 1
                  /\ builder' = None
                  /\ Leave(t)
                  /\ UNCHANGED <<dir, page, copy>>

Publish(t) == /\ at[t] = "publish"
              /\ page'  = shelf[t]
              /\ builder' = None
              /\ Goto(t, "serve")
              /\ UNCHANGED <<dir, sig, shelf, copy, throws>>

(* The client keeps the page, or is told that the one it has is current.   *)
Serve(t) == /\ at[t] = "serve"
            /\ copy' = [copy EXCEPT ![<<t, sig[t][2]>>] = shelf[t][1]]
            /\ Leave(t)
            /\ UNCHANGED <<dir, page, builder, throws>>

NotModified(t) == /\ at[t] = "serve"
                  /\ copy[<<t, sig[t][2]>>] = shelf[t][1]
                  /\ Leave(t)
                  /\ UNCHANGED <<dir, page, builder, copy, throws>>

(* HEAD, or a connection that is gone.                                     *)
NoBody(t) == /\ at[t] = "serve"
             /\ Leave(t)
             /\ UNCHANGED <<dir, page, builder, copy, throws>>

(* The child is replaced by another one, with nothing built.               *)
Restart == /\ page' = None /\ builder' = None
           /\ at'    = [t \in Threads |-> "idle"]
           /\ sig'   = [t \in Threads |-> None]
           /\ shelf' = [t \in Threads |-> None]
           /\ UNCHANGED <<dir, copy, throws>>

Step(t) == \/ Hit(t) \/ Miss(t) \/ Lock(t) \/ RecheckHit(t) \/ RecheckMiss(t)
           \/ Build(t) \/ BuildThrows(t) \/ Publish(t)
           \/ Serve(t) \/ NotModified(t) \/ NoBody(t)

Next == Change \/ (\E t \in Threads : Scan(t) \/ Step(t)) \/ Restart

(* A worker goes on with its request; the mutex itself need not be fair.   *)
Spec == Init /\ [][Next]_vars /\ \A t \in Threads : WF_vars(Step(t))
-----------------------------------------------------------------------------
TypeOK == /\ dir \in Versions
          /\ page \in Signatures \cup {None}
          /\ builder \in Threads \cup {None}
          /\ at \in [Threads -> Places]
          /\ sig \in [Threads -> Signatures \cup {None}]
          /\ shelf \in [Threads -> Signatures \cup {None}]
          /\ copy \in [Threads \X Views -> 0..MaxVersion]
          /\ throws \in 0..MaxThrows

(* The page a request answers with was made from the directory it saw and  *)
(* under the URI and settings it came with, whoever built it.              *)
AnswersOwnScan == \A t \in Threads : at[t] = "serve" => shelf[t] = sig[t]

(* A client never goes back to an older state of the directory, although   *)
(* the cache itself may (a late builder overwrites a newer Shelf).         *)
ClientsMoveForward == [][\A c \in Threads \X Views : copy'[c] >= copy[c]]_vars

(* "The rebuilders that lose the race re-check the cache and find the      *)
(* finished shelf" (mod_geist.cpp:155): no build publishes what is there.  *)
ReplacesAnother == [][\A t \in Threads : Publish(t) => page # shelf[t]]_vars

(* Once only one URI is asked for, every request ends, also behind builds  *)
(* that throw: the mutex is not fair, but nobody needs it when the page of *)
(* the settled directory is built.  (Requests under two URIs can replace   *)
(* each other's page for ever; only a fair mutex would serve them all.)    *)
OneViewAsked(u) == \A t \in Threads : sig[t] # None => sig[t][2] = u
RequestsEnd == \A u \in Views : <>[]OneViewAsked(u) =>
                 \A t \in Threads : at[t] # "idle" ~> at[t] = "idle"
=============================================================================
