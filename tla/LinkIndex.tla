----------------------------- MODULE LinkIndex ------------------------------
(***************************************************************************)
(* Where a cross reference of a book leads.  Every topic reports the ids   *)
(* that reach it (LinkTargets); the server (apache/mod_geist.cpp) and the  *)
(* three readers (win32/, gui/, macos/) each collect the reports of all    *)
(* topics, in the order of the contents, into a map from spelled id to     *)
(* destination.  The server keeps the first report of an id, the readers   *)
(* keep the last.                                                          *)
(*                                                                         *)
(* The contents are a sequence of topics [id, document]; letter case is    *)
(* left out.                                                               *)
(***************************************************************************)
EXTENDS LinkTargets

NoFragment == <<>>

(* The reports of all topics, each with the topic it is of.                *)
OfTopic(topic) ==
  LET targets == DocumentLinkTargets(topic.document)
  IN  [i \in DOMAIN targets |-> [topic    |-> topic.id,
                                 kind     |-> targets[i].kind,
                                 id       |-> targets[i].id,
                                 fragment |-> targets[i].fragment,
                                 resource |-> targets[i].resource]]
Reports(toc) == FlattenSeq([i \in DOMAIN toc |-> OfTopic(toc[i])])

(* A figure or table is spelled both bare and with its object prefix.      *)
Spellings(report) ==
  {report.id} \cup CASE report.kind = "figure" -> {<<"FIG">> \o report.id}
                     [] report.kind = "table"  -> {<<"TBL">> \o report.id}
                     [] OTHER                  -> {}

Naming(reports, id) == {i \in DOMAIN reports : id \in Spellings(reports[i])}

Destination(report) == [topic    |-> report.topic,
                        fragment |-> report.fragment,
                        resource |-> report.resource]

(* std::map::emplace: a later report of the same id changes nothing.       *)
ServerLink(reports, id) ==
  Destination(reports[CHOOSE i \in Naming(reports, id) :
                        \A j \in Naming(reports, id) : i <= j])

(* links[id] = destination: each report replaces the ones before it.       *)
ReaderLink(reports, id) ==
  Destination(reports[CHOOSE i \in Naming(reports, id) :
                        \A j \in Naming(reports, id) : j <= i])

Page(topic, fragment) == [to |-> "topic", topic |-> topic, fragment |-> fragment]
Object(resource)      == [to |-> "object", resource |-> resource]
Here(fragment)        == [to |-> "here", fragment |-> fragment]
(* The renderer writes "#id", which reaches an anchor of the page itself.  *)
Unresolved            == [to |-> "spelled"]

(* What the callback resolve_anchor makes of a destination, on the page of *)
(* a topic.                                                                *)
LedFrom(link, topic) ==
  CASE link.resource # NoPicture -> Object(link.resource)
    [] link.resource = NoPicture /\ link.topic = topic ->
         IF link.fragment = NoFragment THEN Unresolved ELSE Here(link.fragment)
    [] OTHER -> Page(link.topic, link.fragment)

(* A generated list names a topic by its own id, which no topic reports.   *)
Unreported(toc, id) ==
  IF \E i \in DOMAIN toc : toc[i].id = id THEN Page(id, NoFragment) ELSE Unresolved

ServerAnchor(toc, topic, id) ==
  IF Naming(Reports(toc), id) = {} THEN Unreported(toc, id)
  ELSE LedFrom(ServerLink(Reports(toc), id), topic)

ReaderAnchor(toc, topic, id) ==
  IF Naming(Reports(toc), id) = {} THEN Unreported(toc, id)
  ELSE LedFrom(ReaderLink(Reports(toc), id), topic)
-----------------------------------------------------------------------------
(* What an id names, whatever object it is spelled as.                     *)
Bare(id) == SelectSeq(id, LAMBDA part : part \notin {"FIG", "TBL"})

IsTopic(toc, id)       == \E i \in DOMAIN toc : toc[i].id = id
DocumentOf(toc, topic) == toc[CHOOSE i \in DOMAIN toc : toc[i].id = topic].document

(* A place on the page of a topic is an anchor that the renderer emits     *)
(* there and that bears the name; the top of the page is only for a name   *)
(* of the whole topic.                                                     *)
Reaches(toc, topic, fragment, id) ==
  IF fragment = NoFragment
  THEN id = topic \/ id \in Range(DocumentOf(toc, topic).named)
  ELSE fragment \in EmittedAnchors[DocumentOf(toc, topic).blocks] /\ Bare(fragment) = Bare(id)

Lands(toc, topic, id, place) ==
  CASE place.to = "topic"   -> IsTopic(toc, place.topic) /\ Reaches(toc, place.topic, place.fragment, id)
    [] place.to = "here"    -> place.fragment # NoFragment /\ Reaches(toc, topic, place.fragment, id)
    [] place.to = "object"  -> \E i \in Naming(Reports(toc), id) :
                                 /\ Reports(toc)[i].resource = place.resource
                                 /\ Reaches(toc, Reports(toc)[i].topic, Reports(toc)[i].fragment, id)
    [] place.to = "spelled" -> \/ Naming(Reports(toc), id) = {} /\ ~IsTopic(toc, id)
                               \/ id \in Range(DocumentOf(toc, topic).named)
=============================================================================
