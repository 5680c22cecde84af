----------------------------- MODULE MCListing ------------------------------
(***************************************************************************)
(* The listing of one directory at two levels, checked side by side: a     *)
(* behaviour picks one of them and runs that one alone.                    *)
(*   "page"   ShelfPage, the requests for the rendered listing             *)
(*   "index"  ShelfIndex, one build of it by each of two children, which   *)
(*            share the lock file and the snapshot of the directory        *)
(***************************************************************************)
EXTENDS ShelfPage, TLC

VARIABLES part,
          version, made, memory, disk, lock, stop, pc,
          unread, files, todo, loaded, fresh, changed, file, identity

Children == {"before", "after"}

\* Children of two revisions list one book that may vanish and come back.
S == INSTANCE ShelfIndex WITH
       Procs <- Children, Workers <- Children, Warmers <- {},
       ProcOf <- [c \in Children |-> c], Producer <- [c \in Children |-> c],
       Files <- {"book"}, MaxVersion <- 1, Faults <- {"store", "readdir", "probe"}

index == <<version, made, memory, disk, lock, stop, pc,
           unread, files, todo, loaded, fresh, changed, file, identity>>

Page(step)  == part = "page"  /\ step /\ UNCHANGED <<part, index>>
Index(step) == part = "index" /\ step /\ UNCHANGED <<part, vars>>

MCInit == /\ part \in {"page", "index"}
          /\ Init /\ S!Init
          /\ part = "page" => made = [f \in {"book"} |-> 0]
MCNext == Page(Next) \/ Index(S!Next)
MCSpec == /\ MCInit /\ [][MCNext]_<<part, vars, index>>
          /\ \A t \in Threads : WF_<<part, vars, index>>(Page(Step(t)))
          /\ \A c \in Children : WF_<<part, vars, index>>(Index(S!Build(c)))

\* The property of the index.
BuildsReturn == S!BuildsReturn
=============================================================================
