------------------------------- MODULE MCSite -------------------------------
(***************************************************************************)
(* The parts of the Apache module that answer requests below a shelf,      *)
(* checked side by side: a behaviour picks one of them and runs that one   *)
(* alone.                                                                  *)
(*   "books"    BookCache, the Books its workers share (MCBookCache)       *)
(*   "page"     SiteRequests, one request from its hooks to its answer     *)
(*   "machine"  MachineApi, one request to a machine interface             *)
(***************************************************************************)
EXTENDS MCBookCache, Sequences

CONSTANTS Layers,      \* of SiteRequests
          MaxReplaced  \* of MachineApi

VARIABLES part,
          call, site, step, by, status, sent,           \* of SiteRequests
          disk, replaced, wanted, stage, summary, opened, answer  \* of MachineApi

\* Up to two layers of settings; the two interfaces are set apart.
Against   == [unset |-> "unset", off |-> "on", on |-> "off"]
Layer     == {[index |-> i, api |-> v, mcp |-> Against[v], download |-> v] :
                i, v \in {"unset", "off", "on"}}
MCLayers  == UNION {[1..n -> Layer] : n \in 0..2}

R == INSTANCE SiteRequests WITH request <- call, at <- step
M == INSTANCE MachineApi WITH request <- wanted, at <- stage

ASSUME LayersAssumption == Layers \subseteq Seq(R!DirConfig)

page    == <<call, site, step, by, status, sent>>
machine == <<disk, replaced, wanted, stage, summary, opened, answer>>

NoPage    == call = 0 /\ site = 0 /\ step = 0 /\ by = 0 /\ status = 0 /\ sent = 0
NoMachine == /\ disk = 0 /\ replaced = 0 /\ wanted = 0 /\ stage = 0
             /\ summary = 0 /\ opened = 0 /\ answer = 0

\* Only a request that was answered has nothing left to do.
Answered == \/ part = "page" /\ step = "done"
            \/ part = "machine" /\ stage = "done"

MCInit == /\ Init
          /\ \/ part = "books"   /\ NoPage /\ NoMachine
             \/ part = "page"    /\ R!Init /\ NoMachine
             \/ part = "machine" /\ NoPage /\ M!Init
MCNext == \/ part = "books"   /\ Next   /\ UNCHANGED <<part, page, machine>>
          \/ part = "page"    /\ R!Next /\ UNCHANGED <<part, vars, machine>>
          \/ part = "machine" /\ M!Next /\ UNCHANGED <<part, vars, page>>
          \/ Answered /\ UNCHANGED <<part, vars, page, machine>>
all    == <<part, vars, page, machine>>
MCSpec == MCInit /\ [][MCNext]_all
-----------------------------------------------------------------------------
\* The properties of the instances.
DisclosedByTheClosest == part = "page" => R!DisclosedByTheClosest
OneAnswer             == part = "page" => R!OneAnswer
AnswersAgree          == part = "machine" => M!AnswersAgree
=============================================================================
