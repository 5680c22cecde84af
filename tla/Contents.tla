------------------------------ MODULE Contents ------------------------------
(***************************************************************************)
(* Opening a book as far as its topics and its table of contents go        *)
(* (BooDocument::open in api/document.cpp, container/toc.cpp,              *)
(* ir/book_topic_catalog_ir.cpp), and the tree a reader draws of them.     *)
(*                                                                         *)
(* A file is [grammar, records].  A record is                              *)
(*   header    the id of the topic it opens, or None                       *)
(*   number    it carries the topic's number, and so its other controls    *)
(*   heading   n for :Hn, 0 for any other level                            *)
(*   titled    a display line of it is the topic's title                   *)
(*   parent    the operand of its CPARENT: an id, Top, or None without one *)
(*   entries   the CTocE lines in it, [id, level, style] each; the grammar *)
(*             "style_only" has no level                                   *)
(* Letter case is left out of the ids.                                     *)
(***************************************************************************)
EXTENDS Integers, SequencesExt

CONSTANTS Volumes,    \* the files that may be opened
          ContentsId, \* the id of the CONTENTS topic
          Top, None

VARIABLES volume, opened

LeastOf(S) == CHOOSE n \in S : \A m \in S : n <= m
-----------------------------------------------------------------------------
(* The records that open a topic, and where each of these topics ends.     *)
Headers(records)    == {r \in DOMAIN records : records[r].header # None}
EndOf(records, r) == LeastOf({h \in Headers(records) : h > r} \cup {Len(records) + 1})

(* The record with a topic's controls; it may follow the header.           *)
Metadata(records, r) ==
  LET later == {m \in r..EndOf(records, r) - 1 : records[m].number}
  IN  IF later = {} THEN r ELSE LeastOf(later)

(* The records whose lines are looked at for title and parent: six at the  *)
(* most, and none after the title.                                         *)
Looked(records, r) ==
  LET from == Metadata(records, r)
  IN  {m \in from..EndOf(records, r) - 1 :
         m < from + 6 /\ \A k \in from..m - 1 : ~records[k].titled}

ParentOf(records, r) ==
  LET said == {m \in Looked(records, r) : records[m].parent # None}
  IN  IF said = {} THEN None ELSE records[LeastOf(said)].parent

TopicOf(records, r) ==
  [id |-> records[r].header, parent |-> ParentOf(records, r),
   heading |-> records[Metadata(records, r)].heading,
   first |-> r, end |-> EndOf(records, r)]

Ids(topics) == {topics[i].id : i \in DOMAIN topics}

(* build_topics(): of an id that comes again only the first topic is kept. *)
Topics(records) ==
  LET kept[r \in 0..Len(records)] ==
        IF r = 0 THEN <<>>
        ELSE LET before == kept[r - 1]
             IN  IF r \in Headers(records) /\ records[r].header \notin Ids(before)
                 THEN Append(before, TopicOf(records, r)) ELSE before
  IN  kept[Len(records)]

TopicNamed(topics, id) == topics[LeastOf({i \in DOMAIN topics : topics[i].id = id})]
-----------------------------------------------------------------------------
(* The topics that stand above one, as CPARENT says, each where it is      *)
(* come to; a name that is no topic of the book is never left.             *)
Way(topics, id) ==
  LET way[n \in 0..Len(topics)] ==
        IF n = 0 THEN id
        ELSE LET below == way[n - 1]
             IN  IF below \in Ids(topics) THEN TopicNamed(topics, below).parent ELSE below
  IN  way

(* parent_chain_length(): how many topics stand above one; None if a       *)
(* topic on the way has no CPARENT that was read, or one that is no topic  *)
(* of the book, or if the way never ends.                                  *)
ParentChainLength(topics, id) ==
  LET way  == Way(topics, id)
      ends == {n \in 0..Len(topics) :
                 way[n] \in Ids(topics) /\ TopicNamed(topics, way[n]).parent = Top}
  IN  IF ends = {} THEN None ELSE LeastOf(ends)

(* A mutant: without a nesting the style stands for it. *)
LevelByStyle(grammar, topics, line) ==
  IF grammar = "style_only" THEN line.style ELSE line.level

(* The level of a contents line; an older book stores none.                *)
Level(grammar, topics, line) ==
  IF grammar = "style_only" THEN ParentChainLength(topics, line.id) ELSE line.level

Entry(topics, id, level, style) ==
  LET known == id \in Ids(topics)
  IN  [id |-> id, level |-> level, style |-> style,
       first |-> IF known THEN TopicNamed(topics, id).first ELSE 0,
       end   |-> IF known THEN TopicNamed(topics, id).end ELSE 0]

(* The lines of the CONTENTS topic.                                        *)
Lines(records, topics) ==
  IF ContentsId \notin Ids(topics) THEN <<>>
  ELSE LET topic == TopicNamed(topics, ContentsId)
       IN  FlattenSeq([i \in 1..topic.end - topic.first |-> records[topic.first + i - 1].entries])

(* A line of style 0 is passed over.                                       *)
Styled(lines) ==
  LET shown[n \in 0..Len(lines)] ==
        IF n = 0 THEN <<>>
        ELSE IF lines[n].style = 0 THEN shown[n - 1] ELSE Append(shown[n - 1], lines[n])
  IN  shown[Len(lines)]

(* build_table_of_contents(): one line whose nesting cannot be derived     *)
(* takes the whole contents with it.                                       *)
TableOfContents(file, topics) ==
  LET lines == Styled(Lines(file.records, topics))
  IN  IF \E i \in DOMAIN lines : Level(file.grammar, topics, lines[i]) = None THEN <<>>
      ELSE [i \in DOMAIN lines |->
              Entry(topics, lines[i].id, Level(file.grammar, topics, lines[i]), lines[i].style)]

HeadingLevelDepth(heading) == IF heading = 0 THEN 0 ELSE heading - 1

(* Without contents of its own a book has its topics for them.             *)
ByHeadings(topics) ==
  [i \in DOMAIN topics |->
     Entry(topics, topics[i].id, HeadingLevelDepth(topics[i].heading) * 2, 1)]

Opened(file) ==
  LET topics == Topics(file.records)
      toc    == TableOfContents(file, topics)
  IN  [topics |-> topics, spelled |-> toc # <<>>,
       toc    |-> IF toc = <<>> THEN ByHeadings(topics) ELSE toc]
-----------------------------------------------------------------------------
(* populate_contents(): under the entry that was last seen one level up,   *)
(* or as deep as there is one; 0 is the book itself.                       *)
Plant(tree, level) ==
  LET slot == LeastOf({level, Len(tree.path)})
      this == Len(tree.parents) + 1
  IN  IF slot = 0 THEN [parents |-> Append(tree.parents, 0), path |-> <<this>>]
      ELSE [parents |-> Append(tree.parents, tree.path[slot]),
            path    |-> Append(SubSeq(tree.path, 1, slot), this)]

Tree(toc) ==
  LET grown[n \in 0..Len(toc)] ==
        IF n = 0 THEN [parents |-> <<>>, path |-> <<>>]
        ELSE Plant(grown[n - 1], toc[n].level)
  IN  grown[Len(toc)].parents
-----------------------------------------------------------------------------
Init == volume \in Volumes /\ opened = None

Open == /\ opened = None
        /\ opened' = Opened(volume)
        /\ UNCHANGED volume

Spec == Init /\ [][Open]_<<volume, opened>>
-----------------------------------------------------------------------------
Above(id) == {Way(opened.topics, id)[n] : n \in 0..Len(opened.topics)}

(* Every topic with its parent before it, and below the topic before it.   *)
InOrder(ids) ==
  /\ IsInjective(ids) /\ \A i \in DOMAIN ids : ids[i] \in Ids(opened.topics)
  /\ \A i \in DOMAIN ids :
       LET parent == TopicNamed(opened.topics, ids[i]).parent
       IN  parent = Top \/ (i > 1 /\ parent \in Above(ids[i - 1]) /\ parent \in {ids[j] : j \in 1..i - 1})

(* A stored nesting is the length of the CPARENT chain (toc.adoc:278).     *)
NestingsTrue(lines) ==
  volume.grammar = "style_only"
    \/ \A i \in DOMAIN lines : lines[i].level = ParentChainLength(opened.topics, lines[i].id)

IdsOf(seq) == [i \in DOMAIN seq |-> seq[i].id]

(* Whether each entry is drawn under the entry of its CPARENT.             *)
DrawnUnderParents ==
  \A i \in DOMAIN opened.toc :
    LET drawn == Tree(opened.toc)[i]
    IN  IF drawn = 0 THEN TopicNamed(opened.topics, opened.toc[i].id).parent = Top
        ELSE opened.toc[drawn].id = TopicNamed(opened.topics, opened.toc[i].id).parent

(* Contents that list their topics in order are drawn as the topics hang   *)
(* together, whether the nesting is stored or read off the CPARENT chains, *)
(* wherever the controls of a topic stand; contents of which one nesting   *)
(* cannot be derived are not drawn at all, and then every topic is listed  *)
(* once (toc.cpp:212-378, document.cpp:269-333, reader_window.cpp:492).    *)
TreeFollowsParents ==
  opened # None =>
    IF opened.spelled
    THEN /\ \A i \in DOMAIN opened.toc : opened.toc[i].level # None
         /\ InOrder(IdsOf(opened.toc)) /\ NestingsTrue(opened.toc) => DrawnUnderParents
    ELSE IdsOf(opened.toc) = IdsOf(opened.topics) /\ IsInjective(IdsOf(opened.toc))

(* The same of what the book spells out.  boo-spec/toc.adoc:300-305: fifty *)
(* entries in eleven books use style 0, and they are displayed: they are   *)
(* the book's "Part" divisions.                                            *)
PartsAreDrawn ==
  opened # None /\ opened.spelled =>
    LET lines == Lines(volume.records, opened.topics)
    IN  InOrder(IdsOf(lines)) /\ NestingsTrue(lines) => DrawnUnderParents

(* api/document.cpp:190 and 324: `:H2` is one step in from `:H1`.          *)
HeadingsStepByOne ==
  opened # None /\ ~opened.spelled =>
    LET parents == Tree(opened.toc)
        depth[i \in 0..Len(parents)] == IF i = 0 THEN -1 ELSE depth[parents[i]] + 1
        heading(i) == HeadingLevelDepth(opened.topics[i].heading)
    IN  heading(1) = 0 /\ (\A i \in 2..Len(parents) : heading(i) <= heading(i - 1) + 1)
          => \A i \in DOMAIN parents : depth[i] = heading(i)
=============================================================================
