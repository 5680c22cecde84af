---------------------------- MODULE SiteRequests ----------------------------
(***************************************************************************)
(* One request to the Apache module (apache/mod_geist.cpp), from the hooks *)
(* that may claim it to what is sent.  The server offers it to the machine *)
(* handler, the book handler, mod_dir, the shelf handler and the core, in  *)
(* this order; the first that does not decline answers.                    *)
(*                                                                         *)
(* Settings come in layers (server, directories, .htaccess), outermost     *)
(* first.  The caches behind a page are BookCache and ShelfPage.           *)
(***************************************************************************)
EXTENDS Naturals, Sequences

CONSTANTS Layers  \* the sequences of settings a request may meet

Directives == {"index", "api", "mcp", "download"}
DirConfig  == [Directives -> {"unset", "off", "on"}]

(* A URL: a directory, another file, a path below a book (trailing slashes *)
(* dropped; its kind and whether a rest follows), or one below .geist.     *)
Targets ==
  [area : {"directory", "file"}, path : {<<>>}]
    \cup [area : {"book"},
          path : {<<>>} \cup ({"topic", "object", "asset", "download", "other"} \X BOOLEAN)]
    \cup [area : {"machine"}, path : {"openapi", "api", "mcp", "setup", "setup.js", "other"}]

VARIABLES
  request,  \* [method, target, fresh: the client holds the current page]
  site,     \* [layers, books: the directory holds some, index: and an index file]
  at,       \* the handler that is asked, or the step of the one that answers
  by,       \* who answers, for a book the kind of page
  status,   \* 0 until it is known
  sent      \* what the client was sent of a page

vars == <<request, site, at, by, status, sent>>

(* A mutant: what an outer layer turned on stays on. *)
MergeEnabling(base, add) ==
  [d \in Directives |-> IF base[d] # "on" /\ add[d] # "unset" THEN add[d] ELSE base[d]]

(* merge_dir_config().                                                     *)
Merge(base, add) == [d \in Directives |-> IF add[d] # "unset" THEN add[d] ELSE base[d]]

Settings(layers) ==
  LET upTo[n \in 0..Len(layers)] ==
        IF n = 0 THEN [d \in Directives |-> "unset"] ELSE Merge(upTo[n - 1], layers[n])
  IN  upTo[Len(layers)]

Config == Settings(site.layers)

Init == /\ request \in [method : {"GET", "HEAD", "POST"}, target : Targets, fresh : BOOLEAN]
        /\ site \in [layers : Layers, books : BOOLEAN, index : BOOLEAN]
        /\ at = "machine" /\ by = "nobody" /\ status = 0 /\ sent = <<>>
-----------------------------------------------------------------------------
Is(area)   == request.target.area = area
Path       == request.target.path
Get        == request.method \in {"GET", "HEAD"}  \* httpd's M_GET is both
HeaderOnly == request.method = "HEAD"

Decline(next) == at' = next /\ UNCHANGED <<request, site, by, status, sent>>

Answer(who, code) == /\ at' = "done" /\ by' = who /\ status' = code
                     /\ UNCHANGED <<request, site, sent>>

(* A body that was prepared as a whole; the client may be gone by now.     *)
AnswerWith(who, code) ==
  IF HeaderOnly THEN Answer(who, code)
  ELSE /\ at' = "done" /\ by' = who
       /\ status' \in {code, 500}
       /\ sent' = Append(sent, IF status' = code THEN "body" ELSE "cut")
       /\ UNCHANGED <<request, site>>

(* geist_machine_handler(): needs the shelf and the interface disclosed.   *)
(* The routers of the two interfaces refuse methods themselves.            *)
Interface == IF Path \in {"mcp", "setup", "setup.js"} THEN "mcp" ELSE "api"

Machine ==
  /\ at = "machine"
  /\ IF ~Is("machine") \/ Path = "other" \/ Config["index"] # "on" \/ Config[Interface] # "on"
     THEN Decline("book")
     ELSE \/ Path \notin {"api", "mcp"} /\ ~Get /\ Answer("machine", 405)
          \/ Path \notin {"api", "mcp"} /\ Get
             /\ IF Path = "setup.js" /\ request.fresh THEN Answer("machine", 304)
                ELSE AnswerWith("machine", 200)
          \/ Path \in {"api", "mcp"}
             /\ \E code \in {200, 400, 403, 404, 405, 500} : AnswerWith("machine", code)

(* geist_handler(): what cannot be opened as a book is left to the core.   *)
Book ==
  /\ at = "book"
  /\ \/ ~Is("book") /\ Decline("mod_dir")
     \/ Is("book") /\ ~Get /\ Answer("book", 405)
     \/ Is("book") /\ Get /\ Decline("mod_dir")
     \/ /\ Is("book") /\ Get
        /\ IF Path = <<>> THEN by' = "index"
           ELSE /\ Path[1] # "other" /\ Path[2] = (Path[1] # "download")
                /\ by' = Path[1]
        /\ at' = "lookup"
        /\ UNCHANGED <<request, site, status, sent>>
     \/ /\ Is("book") /\ Get /\ Path # <<>>
        /\ Path[1] = "other" \/ Path[2] = (Path[1] = "download")
        /\ Answer("book", 404)

(* A real index file wins.                                                 *)
ModDir == /\ at = "mod_dir"
          /\ IF Is("directory") /\ site.index THEN AnswerWith("mod_dir", 200) ELSE Decline("shelf")

(* geist_dir_handler(): a directory without books is left to the core.     *)
Shelf ==
  /\ at = "shelf"
  /\ IF ~Is("directory") \/ Config["index"] # "on" \/ ~Get \/ ~site.books THEN Decline("core")
     ELSE \/ request.fresh /\ Answer("shelf", 304)
          \/ ~request.fresh /\ AnswerWith("shelf", 200)
          \/ Answer("shelf", 500)

(* Directory listings, plain files, and everything that is not there.      *)
Core == /\ at = "core"
        /\ \E code \in {200, 403, 404, 405} : AnswerWith("core", code)
-----------------------------------------------------------------------------
(* What a page of a book is of: a topic, an object, an asset or the file.  *)
Lookup ==
  /\ at = "lookup"
  /\ \/ by = "download" /\ Config["download"] = "off" /\ Answer(by, 403)
     \/ by # "index" /\ ~(by = "download" /\ Config["download"] = "off") /\ Answer(by, 404)
     \/ ~(by = "download" /\ Config["download"] = "off") /\ Decline("condition")

(* A mutant: topics are written the way the index is. *)
ConditionStreaming ==
  /\ at = "condition"
  /\ IF request.fresh \/ HeaderOnly
     THEN Answer(by, IF request.fresh THEN 304 ELSE 200)
     ELSE /\ at' = IF by \in {"asset", "download"} THEN "write" ELSE "render"
          /\ sent' = IF by \in {"index", "topic"} THEN <<"head">> ELSE sent
          /\ UNCHANGED <<request, site, by, status>>

(* http_cache_conditions(), and a HEAD needs no more.  The index page then *)
(* writes its head, its toolbar and its list of topics.                    *)
Condition ==
  /\ at = "condition"
  /\ IF request.fresh \/ HeaderOnly
     THEN Answer(by, IF request.fresh THEN 304 ELSE 200)
     ELSE /\ at' = IF by \in {"asset", "download"} THEN "write" ELSE "render"
          /\ sent' = IF by = "index" THEN <<"head">> ELSE sent
          /\ UNCHANGED <<request, site, by, status>>

(* The contents of the book, when it has any, are rendered after the head. *)
RenderIndex == /\ at = "render" /\ by = "index"
               /\ Answer(by, 500) \/ Decline("write")

(* A topic is rendered before anything is written.                         *)
RenderTopic == /\ at = "render" /\ by = "topic"
               /\ Answer(by, 500) \/ Decline("write")

(* An object that cannot be decoded is not found.                          *)
RenderObject == /\ at = "render" /\ by = "object"
                /\ Answer(by, 404) \/ Decline("write")

(* The end of ap_send_fd is not looked at.                                 *)
Write == /\ at = "write"
         /\ IF by = "download"
            THEN /\ at' = "done" /\ status' = 200
                 /\ \E part \in {"body", "cut"} : sent' = <<part>>
                 /\ UNCHANGED <<request, site, by>>
            ELSE AnswerWith(by, 200)

Next == Machine \/ Book \/ ModDir \/ Shelf \/ Core \/ Lookup \/ Condition
        \/ RenderIndex \/ RenderTopic \/ RenderObject \/ Write

Spec == Init /\ [][Next]_vars
-----------------------------------------------------------------------------
(* What the layer closest to the request that says anything says.          *)
ClosestOf(layers, d) ==
  LET said == {i \in DOMAIN layers : layers[i][d] # "unset"}
  IN  IF said = {} THEN "unset" ELSE layers[CHOOSE i \in said : \A j \in said : j <= i][d]

Innermost(d) == ClosestOf(site.layers, d)

(* An interface answers where the closest settings disclose both it and    *)
(* the shelf, and there alone: elsewhere its paths are missing whatever    *)
(* the method (README "Machine interfaces", mod_geist.cpp:1479-1493).      *)
(* Nothing but such settings shows a shelf or hands out a book, and a      *)
(* shelf hides neither an index file nor what would be listed of a         *)
(* directory without books (mod_geist.cpp:1628-1633).                      *)
DisclosedByTheClosest ==
  at = "done" =>
    /\ (by = "machine") <=> /\ Is("machine") /\ Path # "other"
                            /\ Innermost("index") = "on" /\ Innermost(Interface) = "on"
    /\ by = "shelf" => Innermost("index") = "on" /\ site.books /\ ~site.index
    /\ by = "download" /\ status # 403 => Innermost("download") # "off"

(* An error never follows a page that was begun, save on the index page    *)
(* (mod_geist.cpp:824) and where the client itself broke off; and neither  *)
(* a HEAD nor "not modified" is answered with a body.                      *)
OneAnswer ==
  at = "done" =>
    /\ status >= 400 /\ sent # <<>> /\ sent[Len(sent)] # "cut" /\ by \notin {"machine", "core"}
         => by = "index"
    /\ HeaderOnly \/ status = 304 => sent = <<>>
=============================================================================
