---------------------------- MODULE LinkTargets -----------------------------
(***************************************************************************)
(* Which ids reach a topic (api/topic_link_targets.cpp): what a typed      *)
(* document reports of the anchors that stand in it.                       *)
(*                                                                         *)
(* An id is the sequence of the object prefixes it is spelled with and a   *)
(* name; <<>> is the empty id, and letter case is left out.  A document is *)
(* [blocks, named].  A block is one of                                     *)
(*   [block |-> "anchor", id, role]      [block |-> "figure", picture]     *)
(*   [block |-> "rule"]                  [block |-> "text"]                *)
(*   [block |-> "drawn", picture, anchors]  rows of a <pre>, with anchors  *)
(*   [block |-> "list", items]              one sequence of blocks each    *)
(*   [block |-> "table", cells]             [blocks, anchors] each         *)
(* and a picture is NoPicture or the name of a stored object; one that is  *)
(* missing or kept on a server counts as no picture.                       *)
(***************************************************************************)
EXTENDS Naturals, SequencesExt

CONSTANTS NoPicture,
          Blocks  \* the sequences of blocks of all documents, lists and cells

Starts(id, object)   == id # <<>> /\ Head(id) = object
Stripped(id, object) == IF Starts(id, object) THEN Tail(id) ELSE id

(* A table is referred to by its object id, of which one prefix is doubled. *)
TableReference(id) ==
  IF Starts(id, "TBL") /\ ~Starts(Tail(id), "TBL") THEN <<"TBL">> \o id ELSE id

(* An anchor whose role is not proved tells by its prefix what it is.      *)
Role(anchor) ==
  CASE anchor.role = "cross_reference" /\ Starts(anchor.id, "FIG") -> "figure"
    [] anchor.role = "cross_reference" /\ Starts(anchor.id, "TBL") -> "table"
    [] OTHER -> anchor.role


Target(id, role) ==
  [kind |-> IF role \in {"figure", "table"} THEN role ELSE "anchor",
   id   |-> CASE role = "figure" -> Stripped(id, "FIG")
              [] role = "table"  -> TableReference(Stripped(id, "TBL"))
              [] OTHER           -> id,
   fragment |-> id, resource |-> NoPicture]

(* A local anchor is withheld from the book, a footnote is not.            *)
Published(anchor) ==
  anchor.id # <<>> /\ (anchor.role # "local" \/ Starts(anchor.id, "FTN"))

(* Of the anchors that stand in a row or a cell, local ones are withheld.  *)
Placed(anchors) == SelectSeq(anchors, LAMBDA a : a.id # <<>> /\ a.role # "local")
OfRows(anchors)  == [i \in DOMAIN Placed(anchors) |-> Target(Placed(anchors)[i].id, Placed(anchors)[i].role)]
OfCells(anchors) == [i \in DOMAIN Placed(anchors) |-> Target(Placed(anchors)[i].id, "cross_reference")]

(* The picture of the figure that was named last, if it is still awaited.  *)
Pictured(state, picture) ==
  IF state.pending = 0 \/ picture = NoPicture THEN state.targets
  ELSE [state.targets EXCEPT ![state.pending].resource = picture]

Settled(targets) == [targets |-> targets, pending |-> 0]

(* One block: what it adds, and which target still awaits its picture.     *)
(* "of" says what the sequences of blocks in a block report.               *)
Visit(of, state, block) ==
  CASE block.block = "anchor" ->
         IF ~Published(block) THEN Settled(state.targets)
         ELSE [targets |-> Append(state.targets, Target(block.id, Role(block))),
               pending |-> IF Role(block) = "figure" THEN Len(state.targets) + 1 ELSE 0]
    [] block.block = "figure" -> Settled(Pictured(state, block.picture))
    [] block.block = "rule"   -> state
    [] block.block = "drawn"  -> Settled(Pictured(state, block.picture) \o OfRows(block.anchors))
    [] block.block = "list"   ->
         Settled(FoldLeft(LAMBDA ts, item : ts \o of[item], state.targets, block.items))
    [] block.block = "table"  ->
         Settled(FoldLeft(LAMBDA ts, cell : ts \o of[cell.blocks] \o OfCells(cell.anchors),
                          state.targets, block.cells))
    [] OTHER -> Settled(state.targets)

TargetsOf[blocks \in Blocks] ==
  FoldLeft(LAMBDA state, block : Visit(TargetsOf, state, block), Settled(<<>>), blocks).targets

(* The ids that name the whole topic come last.                            *)
DocumentLinkTargets(document) ==
  TargetsOf[document.blocks]
    \o LET named == SelectSeq(document.named, LAMBDA id : id # <<>>)
       IN  [i \in DOMAIN named |-> [Target(named[i], "local") EXCEPT !.fragment = <<>>]]

(* The anchors the renderer emits for a document.                          *)
Spots(anchors) == {anchors[i].id : i \in DOMAIN anchors}
EmittedAnchors[blocks \in Blocks] ==
  UNION {LET b == blocks[i]
         IN  CASE b.block = "anchor" -> {b.id}
               [] b.block = "drawn"  -> Spots(b.anchors)
               [] b.block = "list"   -> UNION {EmittedAnchors[b.items[j]] : j \in DOMAIN b.items}
               [] b.block = "table"  -> UNION {EmittedAnchors[b.cells[j].blocks]
                                                 \cup Spots(b.cells[j].anchors) : j \in DOMAIN b.cells}
               [] OTHER -> {} : i \in DOMAIN blocks}
=============================================================================
