----------------------------- MODULE MachineApi -----------------------------
(***************************************************************************)
(* One request to a machine interface of a shelf: the REST API             *)
(* (apache/rest/rest.cpp), or an MCP message that calls a tool or reads a  *)
(* resource (apache/mcp/mcp.cpp).  All of them ask a Catalog               *)
(* (apache/service/catalog.cpp) that was made for the request from a scan  *)
(* of the shelf, and that opens the book anew for every question, while    *)
(* the file may be replaced.                                               *)
(*                                                                         *)
(* A request is what is wrong with it, and what it wants: the list of the  *)
(* shelf, or of one book its description, its contents, its topics, its    *)
(* objects, what is known of a topic or of an object, a topic, or an       *)
(* object in one of two representations.                                   *)
(***************************************************************************)
EXTENDS Naturals, Sequences

CONSTANT MaxReplaced  \* bound: replacements of the book during the request

(* The book's file: absent, not readable as a book, or a book.             *)
Readable == [state  : {"book"},
           topic  : {"none", "renders", "throws"},
           object : {"none", "web", "legacy", "corrupt", "other"}]
Gone   == [state |-> "gone"]
Broken == [state |-> "broken"]

(* What is checked before the catalog is asked, in this order, and the     *)
(* status that refuses it.                                                 *)
RestChecks == << <<"path", 400>>, <<"endpoint", 404>>, <<"query", 400>>, <<"parameter", 400>>,
                 <<"method", 405>>, <<"value", 406>> >>
McpChecks  == << <<"origin", 403>>, <<"method", 405>>, <<"size", 413>>, <<"type", 415>>,
                 <<"encoding", 415>>, <<"accept", 406>>, <<"json", 400>>, <<"envelope", 400>>,
                 <<"params", 400>>, <<"no version", 400>>, <<"meta", 400>>, <<"version", 400>>,
                 <<"header", 400>>, <<"name", 400>>, <<"no id", 202>>, <<"arguments", 400>> >>
Checks(via) == IF via = "rest" THEN RestChecks ELSE McpChecks

(* What each of the three can be asked for.                                *)
Everywhere == {"shelf", "book", "content", "stored", "web"}
Wants(via) == Everywhere \cup
  [rest |-> {"toc", "topics", "topic", "objects", "object"},
   tool |-> {"topics", "objects"},
   read |-> {"toc"}][via]

(* Only a representation has a value to be refused, and only the path of   *)
(* the shelf itself nothing to decode.                                     *)
Faults(via, want) ==
  {Checks(via)[i][1] : i \in DOMAIN Checks(via)}
    \ {fault \in {"path", "value"} :
         IF fault = "path" THEN want = "shelf" ELSE want \notin {"content", "stored", "web"}}

VARIABLES disk,      \* the file of the book
          replaced,  \* times it was replaced
          request,   \* [via, want, faults]
          at,        \* "scan", "check", "ask", "convert", "done"
          summary,   \* what the scan of the shelf found
          opened,    \* the documents that were opened, in order
          answer     \* a class of answer; the status that refuses a request

vars == <<disk, replaced, request, at, summary, opened, answer>>

Init == /\ disk \in Readable \cup {Gone, Broken}
        /\ replaced = 0
        /\ \E via \in {"rest", "tool", "read"} : \E want \in Wants(via) :
             \E faults \in {{}} \cup {{f} : f \in Faults(via, want)} :
               request = [via |-> via, want |-> want, faults |-> faults]
        /\ at = "scan" /\ summary = Gone /\ opened = <<>> /\ answer = <<"none">>
-----------------------------------------------------------------------------
(* Another version is installed, or the file is removed.                   *)
Replace == /\ at # "done" /\ replaced < MaxReplaced
           /\ disk' \in (Readable \cup {Gone, Broken}) \ {disk}
           /\ replaced' = replaced + 1
           /\ UNCHANGED <<request, at, summary, opened, answer>>

Reply(reply)  == /\ at' = "done" /\ answer' = reply
                 /\ UNCHANGED <<disk, replaced, request, summary>>
Answer(class) == Reply(<<class>>)

(* shelf_catalog(), before anything but the origin is checked.             *)
Scan == /\ at = "scan"
        /\ summary' = IF "origin" \in request.faults THEN summary ELSE disk
        /\ at' = "check"
        /\ UNCHANGED <<disk, replaced, request, opened, answer>>

(* The first check that fails decides; a message with no id is a           *)
(* notification and is answered with nothing (202).                        *)
Check ==
  LET checks == Checks(request.via)
      failing == {i \in DOMAIN checks : checks[i][1] \in request.faults}
  IN  /\ at = "check"
      /\ IF failing # {}
         THEN /\ Reply(<<"refused", checks[CHOOSE i \in failing : \A j \in failing : i <= j][2]>>)
              /\ UNCHANGED opened
         ELSE at' = "ask" /\ UNCHANGED <<disk, replaced, request, summary, opened, answer>>

(* The questions of the Catalog of a document.  A list is read off it; the *)
(* detail of a topic names its diagnostic, and so renders it as well.      *)
Content(book, want) ==
  CASE want \in {"book", "toc", "topics", "objects"} -> "ok"
    [] want \in {"topic", "content"} ->
         [none |-> "missing", renders |-> "ok", throws |-> "failed"][book.topic]
    [] want \in {"object", "stored", "web"} /\ book.object = "none" -> "missing"
    [] want \in {"object", "stored"} /\ book.object # "none" -> "ok"
    [] want = "web" /\ book.object \in {"web", "legacy"} -> "ok"
    [] want = "web" /\ book.object = "corrupt" -> "failed"
    [] want = "web" /\ book.object = "other"   -> "unavailable"

(* Catalog::source() and open(): a book the scan did not list is missing,  *)
(* one it listed that cannot be opened any more, or never could, fails.    *)
(* The list of the shelf is what the scan found, and opens nothing.        *)
Unopened == CASE request.want = "shelf"   -> "ok"
              [] request.want # "shelf" /\ summary = Gone -> "missing"
              [] request.want # "shelf" /\ summary # Gone -> "failed"
Opened(reply) ==
  IF request.want = "shelf" \/ summary = Gone \/ disk.state # "book"
  THEN Answer(Unopened) /\ UNCHANGED opened
  ELSE reply /\ opened' = Append(opened, disk)

(* list_books, get_book, list_topics, get_topic, list_resources,           *)
(* get_resource: one question of the catalog each.                         *)
CallTool     == at = "ask" /\ request.via = "tool" /\ Opened(Answer(Content(disk, request.want)))

(* resources/read of the same things by their geist:// names.              *)
ReadResource == at = "ask" /\ request.via = "read" /\ Opened(Answer(Content(disk, request.want)))

(* A mutant: the API leaves it to the conversion to find the object. *)
DispatchUnasked ==
  /\ at = "ask" /\ request.via = "rest"
  /\ Opened(IF request.want \in {"stored", "web"}
            THEN at' = "convert" /\ UNCHANGED <<disk, replaced, request, summary, answer>>
            ELSE Answer(Content(disk, request.want)))

(* The API asks for an object before it asks for its content.              *)
Dispatch ==
  /\ at = "ask" /\ request.via = "rest"
  /\ Opened(IF request.want \in {"stored", "web"} /\ disk.object # "none"
            THEN at' = "convert" /\ UNCHANGED <<disk, replaced, request, summary, answer>>
            ELSE Answer(Content(disk, request.want)))

(* The second opening: an object that is gone by now is "not acceptable".  *)
Convert ==
  /\ at = "convert"
  /\ Opened(Answer(IF disk.object = "none" THEN "unavailable" ELSE Content(disk, request.want)))

Next == Replace \/ Scan \/ Check \/ CallTool \/ ReadResource \/ Dispatch \/ Convert

Spec == Init /\ [][Next]_vars
-----------------------------------------------------------------------------
(* What the request means for a file.                                      *)
Meaning(file) == CASE request.want = "shelf" -> "ok"
                   [] request.want # "shelf" /\ file = Gone   -> "missing"
                   [] request.want # "shelf" /\ file = Broken -> "failed"
                   [] OTHER -> Content(file, request.want)

(* The three ways in give one answer about a shelf that nobody changes,    *)
(* and one about some state of a shelf that changes, save that the API may *)
(* call an object unconvertible that was taken away between its two looks  *)
(* at the book (rest.cpp:424-431), and that a book may leave after it was  *)
(* listed.                                                                 *)
AnswersAgree ==
  at = "done" /\ request.faults = {} =>
    LET last == IF opened = <<>> THEN summary ELSE opened[Len(opened)]
    IN  \/ answer = <<Meaning(last)>>
        \/ replaced > 0 /\ answer = <<"failed">>
        \/ replaced > 0 /\ answer = <<"unavailable">> /\ Len(opened) = 2
=============================================================================
