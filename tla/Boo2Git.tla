------------------------------ MODULE Boo2Git -------------------------------
(***************************************************************************)
(* The export of a whole book to a folder of Markdown pages                *)
(* (examples/boo2git.cpp): names for the pages, destinations for           *)
(* everything a topic reports, and the rewriting of each page's links.     *)
(*                                                                         *)
(* A topic is [id, document, refs]; a ref is what its rendered page says:  *)
(*   [form |-> "link",  id]  a Markdown link to "#id" or "<id>"            *)
(*   [form |-> "row",   id]  an <a href="#id"> in a preformatted row       *)
(*   [form |-> "image", id]  an image "resource:id"                        *)
(* The name of a page is a sequence; sanitize_stem takes several ids to    *)
(* one, and a number is appended to tell them apart.                       *)
(***************************************************************************)
EXTENDS LinkTargets, FiniteSets

CONSTANTS Exports,   \* the books that may be exported: [toc, pictures, drawable]
          Stem       \* [topic ids -> sequences]: sanitize_stem

VARIABLES book, at, next, files, links, pngs, disk

vars == <<book, at, next, files, links, pngs, disk>>

Readme   == <<"readme">>
At(file, fragment) == [to |-> "page", file |-> file, fragment |-> fragment]
Stored(picture)    == [to |-> "stored", picture |-> picture]  \* "resource:<picture>"
Png(picture)       == [to |-> "png", picture |-> picture]
Kept(id)           == [to |-> "here", id |-> id]               \* "#id" as it was
Text               == [to |-> "text"]                          \* the link is taken off

With(map, keys, value) == [k \in DOMAIN map \cup keys |-> IF k \in keys THEN value ELSE map[k]]
-----------------------------------------------------------------------------
(* A mutant: the number of a repeated stem is not counted. *)
NamedOnce(names, topic) ==
  [names EXCEPT !.files = With(@, {topic.id}, Stem[topic.id])]

(* One more entry: a repeated stem is numbered, README stays free, and an  *)
(* entry that comes twice has the file of its last coming.                 *)
Named(names, topic) ==
  LET stem  == IF Stem[topic.id] = Readme THEN <<"readme", "topic">> ELSE Stem[topic.id]
      count == 1 + (IF stem \in DOMAIN names.used THEN names.used[stem] ELSE 0)
  IN  [files |-> With(names.files, {topic.id}, IF count = 1 THEN stem ELSE Append(stem, count)),
       used  |-> With(names.used, {stem}, count)]

TopicFiles(toc) ==
  FoldLeft(Named, [files |-> <<>>, used |-> [s \in {Readme} |-> 1]], toc).files
-----------------------------------------------------------------------------
(* What a report is spelled, and where it leads.                           *)
Keys(target) ==
  CASE target.kind = "figure" -> {target.id, <<"FIG">> \o target.id, target.fragment}
    [] target.kind = "table"  -> {target.id, <<"TBL">> \o target.id, target.fragment}
    [] OTHER -> {target.id}

Leads(target, file) ==
  CASE target.kind = "figure" /\ target.resource # NoPicture -> Stored(target.resource)
    [] target.kind = "anchor" -> At(file, <<>>)
    [] OTHER -> At(file, IF target.fragment = <<>> THEN target.id ELSE target.fragment)

(* build_markdown_link_map(): every topic by its id, then every report in  *)
(* order; the last one counts.                                             *)
Reported(toc, names) ==
  FoldLeft(LAMBDA map, topic :
             FoldLeft(LAMBDA m, target : With(m, Keys(target) \ {<<>>}, Leads(target, names[topic.id])),
                      map, DocumentLinkTargets(topic.document)),
           [id \in DOMAIN names |-> At(names[id], <<>>)], toc)

(* The anchors of a file are those of the last entry that has it.          *)
FileAnchors(toc, names, file) ==
  LET of == {i \in DOMAIN toc : names[toc[i].id] = file}
  IN  IF of = {} THEN {}
      ELSE EmittedAnchors[toc[CHOOSE i \in of : \A j \in of : j <= i].document.blocks]

(* A fragment its file does not emit is replaced when one anchor of the    *)
(* file, and no other, ends with it.                                       *)
Repaired(dest, anchors) ==
  LET ending == {a \in anchors : a # dest.fragment /\ IsSuffix(dest.fragment, a)}
  IN  IF dest.fragment = <<>> \/ dest.fragment \in anchors \/ Cardinality(ending) # 1 THEN dest
      ELSE [dest EXCEPT !.fragment = CHOOSE a \in ending : TRUE]

MarkdownLinks(toc, names) ==
  LET map == Reported(toc, names)
  IN  [id \in DOMAIN map |->
         IF map[id].to # "page" THEN map[id]
         ELSE Repaired(map[id], FileAnchors(toc, names, map[id].file))]
-----------------------------------------------------------------------------
(* build_resource_link_map(): a picture by its name, "pic" or "picture".   *)
PictureOf(id, drawn) == {p \in drawn : id \in {p, <<"PIC">> \o p, <<"PICTURE">> \o p}}

(* An object reference that stands in Markdown is replaced by its file.    *)
Drawn(picture, drawn) == IF picture \in drawn THEN Png(picture) ELSE Stored(picture)

(* A row: what the book reports, or what the page itself emits; a link     *)
(* that nothing answers is taken off, except the cross-book "#".           *)
Row(id, map, local) ==
  CASE id \in DOMAIN map -> map[id]
    [] id \notin DOMAIN map /\ (id = <<>> \/ id \in local) -> Kept(id)
    [] OTHER -> Text

Link(id, map, drawn) ==
  CASE id \in DOMAIN map ->
         IF map[id].to = "stored" THEN Drawn(map[id].picture, drawn) ELSE map[id]
    [] id \notin DOMAIN map /\ PictureOf(id, drawn) # {} ->
         Png(CHOOSE p \in PictureOf(id, drawn) : TRUE)
    [] OTHER -> Kept(id)

(* render_topic_markdown(), as far as its links go.                        *)
Rewritten(ref, topic, map, drawn) ==
  CASE ref.form = "link"  -> Link(ref.id, map, drawn)
    [] ref.form = "row"   -> Row(ref.id, map, EmittedAnchors[topic.document.blocks])
    [] ref.form = "image" -> Drawn(ref.id, drawn)

PageOf(topic, map, drawn) ==
  [topic |-> topic.id, refs |-> {[ref |-> r, dest |-> Rewritten(r, topic, map, drawn)] : r \in topic.refs}]
-----------------------------------------------------------------------------
Init == /\ book \in Exports
        /\ at = "names" /\ next = 1
        /\ files = <<>> /\ links = <<>> /\ pngs = {} /\ disk = <<>>

(* A topic that cannot be rendered, or a file that cannot be written, ends *)
(* the program where it stands.                                            *)
Throws == /\ at \notin {"done", "failed"}
          /\ at' = "failed" /\ UNCHANGED <<book, next, files, links, pngs, disk>>

Name == /\ at = "names"
        /\ files' = TopicFiles(book.toc)
        /\ links' = MarkdownLinks(book.toc, files')
        /\ at' = "pictures" /\ UNCHANGED <<book, next, pngs, disk>>

(* A picture that cannot be converted is passed over.                      *)
Extract == /\ at = "pictures"
           /\ pngs' = book.pictures \cap book.drawable
           /\ at' = "index" /\ UNCHANGED <<book, next, files, links, disk>>

WriteIndex == /\ at = "index"
              /\ disk' = With(disk, {Readme}, [topic |-> "index", refs |->
                           {[ref |-> [form |-> "toc", id |-> id], dest |-> At(files[id], <<>>)] :
                              id \in DOMAIN files}])
              /\ at' = "topics" /\ UNCHANGED <<book, next, files, links, pngs>>

WriteTopic == /\ at = "topics" /\ next <= Len(book.toc)
              /\ LET topic == book.toc[next]
                 IN  disk' = With(disk, {files[topic.id]}, PageOf(topic, links, pngs))
              /\ next' = next + 1 /\ UNCHANGED <<book, at, files, links, pngs>>

WriteManifest == /\ at = "topics" /\ next > Len(book.toc)
                 /\ at' = "done" /\ UNCHANGED <<book, next, files, links, pngs, disk>>

Next == Name \/ Extract \/ WriteIndex \/ WriteTopic \/ WriteManifest \/ Throws

Spec == Init /\ [][Next]_vars
-----------------------------------------------------------------------------
Topics  == {book.toc[i] : i \in DOMAIN book.toc}
Shown(file) == CHOOSE t \in Topics : t.id = disk[file].topic
Emitting(id)  == {t \in Topics : id \in EmittedAnchors[t.document.blocks]}
Reporting(id) == {t \in Topics : \E i \in DOMAIN DocumentLinkTargets(t.document) :
                                   id \in Keys(DocumentLinkTargets(t.document)[i])}

(* A stem that reads like a numbered one can take its file away.           *)
Clashing == \E t, u \in Topics : \E n \in 1..Len(book.toc) : Stem[t.id] = Append(Stem[u.id], n)

Pages == \A t \in Topics : disk[files[t.id]].topic = t.id

LandsAt(ref, dest) ==
  /\ dest.file \in DOMAIN disk \ {Readme}
  /\ dest.fragment = <<>> \/ Shown(dest.file) \in Emitting(dest.fragment)
  /\ \A t \in Topics : Reporting(ref.id) = {t} \/ (Reporting(ref.id) = {} /\ ref.id = t.id)
                        => Shown(dest.file) = t

(* When an export is done every link in it leads where its name does: to   *)
(* the page of the topic that reports the name, at an anchor this page     *)
(* emits; to a picture that was written; to an anchor of its own page.     *)
(* What stays as it was names nothing the book reports, and a row loses    *)
(* its link only when no page emits what it names, save an anchor that is  *)
(* kept for its own page.  Only a row that names a stored picture is not   *)
(* resolved (boo2git.cpp:268-633, topic_link_targets.cpp:71).              *)
LinksLand ==
  at = "done" /\ ~Clashing =>
    /\ Pages
    /\ \A file \in DOMAIN disk : \A link \in disk[file].refs :
         LET ref == link.ref  dest == link.dest
         IN  CASE dest.to = "page"   -> LandsAt(ref, dest)
               [] dest.to = "png"    -> dest.picture \in pngs
               [] dest.to = "stored" -> dest.picture \notin pngs \/ ref.form = "row"
               [] dest.to = "here"   -> /\ Reporting(ref.id) = {} /\ ref.id \notin DOMAIN files
                                        /\ ref.form = "row" /\ ref.id # <<>> => Shown(file) \in Emitting(ref.id)
               [] dest.to = "text"   -> /\ Reporting(ref.id) = {} /\ Shown(file) \notin Emitting(ref.id)
                                        /\ Starts(ref.id, "FTN") => Emitting(ref.id) = {}
=============================================================================
