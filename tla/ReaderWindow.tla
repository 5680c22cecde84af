---------------------------- MODULE ReaderWindow ----------------------------
(***************************************************************************)
(* The windows of the Win32 reader (win32/reader_window.cpp, app.cpp,      *)
(* protocol.cpp).  One user-interface thread runs the handlers of every    *)
(* window; each search scans the book on a thread of its own and posts its *)
(* results to the window; the browser control fetches pages through a      *)
(* process-wide registry of books, on a thread of the URL library.         *)
(*                                                                         *)
(* A book that is opened gets a fresh host name, and is named by it here.  *)
(* A window has one navigation at a time: another one, and the end of its  *)
(* view, cancel it.                                                        *)
(***************************************************************************)
EXTENDS Naturals

CONSTANTS Windows,
          Queries,        \* what can be typed into the search field
          MaxHosts,       \* bound: books opened
          MaxGeneration,  \* bound: steps of one window's search_generation_
          None

Hosts == 1..MaxHosts
Empty == 0

ASSUME BoundsAssumption == MaxHosts \in Nat /\ MaxGeneration \in Nat

VARIABLES
  hosts,       \* App::hosts_, the last host name given out
  registry,    \* hosts the protocol handler finds a book for
  alive,       \* windows on the screen
  source,      \* [Windows -> Hosts or Empty]: source_
  generation,  \* [Windows -> Nat]: search_generation_
  text,        \* [Windows -> Queries or None]: the search field, None when empty
  showing,     \* [Windows -> BOOLEAN]: showing_results_
  tree,        \* [Windows -> Trees]: what the tree lists
  current,     \* [Windows -> Hosts or Empty]: the book current_topic_ is of
  load,        \* [Windows -> Loads]: the navigation of its view
  history,     \* [Windows -> SUBSET Hosts]: books its view can go back to
  searches,    \* search threads at work
  posted,      \* results in the windows' message queues
  asked        \* [Windows -> Hits or None]: history, the last search submitted

fields == <<generation, text, showing, tree, asked>>
pages  == <<current, load, history>>
vars   == <<hosts, registry, alive, source, fields, pages, searches, posted>>

Hits  == [window : Windows, host : Hosts, generation : 0..MaxGeneration, query : Queries]
Trees == [host : Hosts \cup {Empty}, query : Queries \cup {None}]
Blank == [host |-> Empty, query |-> None]
Loads == [host : Hosts \cup {Empty}, at : {"blank", "start", "serve", "missing"}]
NoLoad == [host |-> Empty, at |-> "blank"]

ASSUME NoneAssumption == None \notin Queries \cup Nat \cup Hits

Init == /\ hosts = 0 /\ registry = {} /\ alive = {}
        /\ source     = [w \in Windows |-> Empty]
        /\ generation = [w \in Windows |-> 0]
        /\ text       = [w \in Windows |-> None]
        /\ showing    = [w \in Windows |-> FALSE]
        /\ tree       = [w \in Windows |-> Blank]
        /\ current    = [w \in Windows |-> Empty]
        /\ load       = [w \in Windows |-> NoLoad]
        /\ history    = [w \in Windows |-> {}]
        /\ searches = {} /\ posted = {}
        /\ asked      = [w \in Windows |-> None]

(* The generation after n steps, and one more when emptying the field      *)
(* takes the contents back (EN_CHANGE while results are shown).            *)
Later(w, n) == generation[w] + n + (IF showing[w] THEN 1 ELSE 0)
Room(w)     == generation[w] + 3 <= MaxGeneration
HasBook(w)  == w \in alive /\ source[w] # Empty

Navigated(w, h) == load' = [load EXCEPT ![w] = [host |-> h, at |-> "start"]]

Contents(w, h) == /\ showing' = [showing EXCEPT ![w] = FALSE]
                  /\ tree'    = [tree EXCEPT ![w] = [host |-> h, query |-> None]]

MakeReader == /\ \E w \in Windows \ alive :
                   /\ source[w] = Empty /\ generation[w] = 0
                   /\ alive' = alive \cup {w}
              /\ UNCHANGED <<hosts, registry, source, fields, pages, searches, posted>>

OpenFails == /\ alive # {} /\ hosts < MaxHosts
             /\ hosts' = hosts + 1
             /\ UNCHANGED <<registry, alive, source, fields, pages, searches, posted>>

(* A new view, a new host, the contents of the book and its first topic.   *)
OpenBook(w) ==
  /\ w \in alive /\ hosts < MaxHosts /\ Room(w)
  /\ hosts' = hosts + 1
  /\ registry'   = (registry \ {source[w]}) \cup {hosts'}
  /\ source'     = [source EXCEPT ![w] = hosts']
  /\ generation' = [generation EXCEPT ![w] = Later(w, 2)]
  /\ text'       = [text EXCEPT ![w] = None]
  /\ Contents(w, hosts')
  /\ current'    = [current EXCEPT ![w] = Empty]
  /\ history'    = [history EXCEPT ![w] = {}]
  /\ Navigated(w, hosts')
  /\ UNCHANGED <<alive, searches, posted, asked>>

(* A mutant: the book stays registered. *)
CloseBookAttached(w) ==
  /\ HasBook(w) /\ Room(w)
  /\ source'     = [source EXCEPT ![w] = Empty]
  /\ generation' = [generation EXCEPT ![w] = Later(w, 1)]
  /\ text'       = [text EXCEPT ![w] = None]
  /\ Contents(w, Empty)
  /\ current'    = [current EXCEPT ![w] = Empty]
  /\ load'       = [load EXCEPT ![w] = NoLoad]
  /\ UNCHANGED <<hosts, registry, alive, history, searches, posted, asked>>

(* The view stays, on a blank page, and so does its history.               *)
CloseBook(w) ==
  /\ HasBook(w) /\ Room(w)
  /\ registry'   = registry \ {source[w]}
  /\ source'     = [source EXCEPT ![w] = Empty]
  /\ generation' = [generation EXCEPT ![w] = Later(w, 1)]
  /\ text'       = [text EXCEPT ![w] = None]
  /\ Contents(w, Empty)
  /\ current'    = [current EXCEPT ![w] = Empty]
  /\ load'       = [load EXCEPT ![w] = NoLoad]
  /\ UNCHANGED <<hosts, alive, history, searches, posted, asked>>

(* WM_DESTROY; results that are posted to the window are never handled.    *)
Destroy(w) ==
  /\ w \in alive
  /\ alive'      = alive \ {w}
  /\ registry'   = registry \ {source[w]}
  /\ source'     = [source EXCEPT ![w] = Empty]
  /\ generation' = [generation EXCEPT ![w] = @ + 1]
  /\ load'       = [load EXCEPT ![w] = NoLoad]
  /\ history'    = [history EXCEPT ![w] = {}]
  /\ posted'     = {hits \in posted : hits.window # w}
  /\ UNCHANGED <<hosts, text, showing, tree, asked, current, searches>>
-----------------------------------------------------------------------------
Type(w) == /\ HasBook(w)
           /\ \E q \in Queries : text' = [text EXCEPT ![w] = q]
           /\ UNCHANGED <<hosts, registry, alive, source, generation, showing, tree,
                          asked, pages, searches, posted>>

(* The user empties the field, or presses Escape in it.                    *)
Clear(w) == /\ HasBook(w) /\ Room(w)
            /\ text' = [text EXCEPT ![w] = None]
            /\ IF showing[w] THEN Contents(w, source[w]) ELSE UNCHANGED <<showing, tree>>
            /\ generation' = [generation EXCEPT ![w] = Later(w, 0)]
            /\ UNCHANGED <<hosts, registry, alive, source, asked, pages, searches, posted>>

(* The table of contents button empties the field on its way.              *)
ShowContents(w) ==
  /\ HasBook(w) /\ Room(w)
  /\ text' = [text EXCEPT ![w] = None]
  /\ generation' = [generation EXCEPT ![w] = Later(w, 1)]
  /\ Contents(w, source[w])
  /\ Navigated(w, source[w])
  /\ UNCHANGED <<hosts, registry, alive, source, asked, current, history, searches, posted>>

(* Return in the empty field takes the contents back.                      *)
RunEmptySearch(w) ==
  /\ HasBook(w) /\ Room(w) /\ text[w] = None
  /\ generation' = [generation EXCEPT ![w] = @ + 1]
  /\ Contents(w, source[w])
  /\ UNCHANGED <<hosts, registry, alive, source, text, asked, pages, searches, posted>>


(* A mutant: a new search has the number of the one before. *)
RunSearchUnnumbered(w) ==
  /\ HasBook(w) /\ Room(w) /\ text[w] # None
  /\ LET hits == [window |-> w, host |-> source[w],
                  generation |-> generation[w], query |-> text[w]]
     IN /\ searches' = searches \cup {hits}
        /\ asked'    = [asked EXCEPT ![w] = hits]
  /\ UNCHANGED <<hosts, registry, alive, source, generation, text, showing, tree, pages, posted>>

RunSearch(w) ==
  /\ HasBook(w) /\ Room(w) /\ text[w] # None
  /\ generation' = [generation EXCEPT ![w] = @ + 1]
  /\ LET hits == [window |-> w, host |-> source[w],
                  generation |-> generation'[w], query |-> text[w]]
     IN /\ searches' = searches \cup {hits}
        /\ asked'    = [asked EXCEPT ![w] = hits]
  /\ UNCHANGED <<hosts, registry, alive, source, text, showing, tree, pages, posted>>

(* A mutant: a search that fails posts nothing. *)
SearchDrops(hits) ==
  /\ hits \in searches
  /\ searches' = searches \ {hits}
  /\ UNCHANGED <<hosts, registry, alive, source, fields, pages, posted>>

(* The scan is over, or has failed with no hits: its results are posted,   *)
(* unless the window is gone.  (A full message queue is not modelled.)     *)
SearchEnds(hits) ==
  /\ hits \in searches
  /\ searches' = searches \ {hits}
  /\ posted' = IF hits.window \in alive THEN posted \cup {hits} ELSE posted
  /\ UNCHANGED <<hosts, registry, alive, source, fields, pages>>

(* A mutant: whatever results arrive are shown. *)
WantedAny(hits) == HasBook(hits.window)
Wanted(hits) == hits.generation = generation[hits.window] /\ HasBook(hits.window)

(* The message loop comes to posted results.  (It takes them in the order  *)
(* in which they were posted; here, in any order.)                         *)
ShowSearchResults(hits) ==
  /\ hits \in posted
  /\ posted' = posted \ {hits}
  /\ IF Wanted(hits)
     THEN /\ showing' = [showing EXCEPT ![hits.window] = TRUE]
          /\ tree' = [tree EXCEPT ![hits.window] = [host |-> hits.host, query |-> hits.query]]
     ELSE UNCHANGED <<showing, tree>>
  /\ UNCHANGED <<hosts, registry, alive, source, generation, text, asked, pages, searches>>
-----------------------------------------------------------------------------
(* A topic of the tree, the next or previous one, or a link of the page.   *)
NavigateTo(w) == /\ HasBook(w)
                 /\ Navigated(w, source[w])
                 /\ UNCHANGED <<hosts, registry, alive, source, fields, current, history,
                                searches, posted>>

GoBack(w) == /\ w \in alive
             /\ \E h \in history[w] : Navigated(w, h)
             /\ UNCHANGED <<hosts, registry, alive, source, fields, current, history,
                            searches, posted>>

(* Protocol::Start, on a thread of the URL library.                        *)
Start(w) ==
  /\ load[w].at = "start"
  /\ load' = [load EXCEPT ![w].at = IF load[w].host \in registry THEN "serve" ELSE "missing"]
  /\ UNCHANGED <<hosts, registry, alive, source, fields, current, history, searches, posted>>

(* A mutant: the host of the page is not compared. *)
NavigateCompleteAny(w) ==
  /\ load[w].at \in {"serve", "missing"}
  /\ current' = [current EXCEPT ![w] = load[w].host]
  /\ history' = [history EXCEPT ![w] = @ \cup {load[w].host}]
  /\ load'    = [load EXCEPT ![w] = NoLoad]
  /\ UNCHANGED <<hosts, registry, alive, source, fields, searches, posted>>

(* A page that was not found is an entry of the history like any other.    *)
NavigateComplete(w) ==
  /\ load[w].at \in {"serve", "missing"}
  /\ current' = [current EXCEPT ![w] = IF HasBook(w) /\ load[w].host = source[w]
                                       THEN source[w] ELSE @]
  /\ history' = [history EXCEPT ![w] = @ \cup {load[w].host}]
  /\ load'    = [load EXCEPT ![w] = NoLoad]
  /\ UNCHANGED <<hosts, registry, alive, source, fields, searches, posted>>

User(w) == \/ OpenBook(w) \/ CloseBook(w) \/ Destroy(w) \/ Type(w) \/ Clear(w)
           \/ ShowContents(w) \/ RunEmptySearch(w) \/ RunSearch(w)
           \/ NavigateTo(w) \/ GoBack(w)

Next == \/ MakeReader \/ OpenFails
        \/ \E w \in Windows : User(w) \/ Start(w) \/ NavigateComplete(w)
        \/ \E hits \in searches \cup posted : SearchEnds(hits) \/ ShowSearchResults(hits)

(* Search threads run and the message loop turns; the user need not act.   *)
Spec == /\ Init /\ [][Next]_vars
        /\ \A hits \in Hits : WF_vars(SearchEnds(hits)) /\ WF_vars(ShowSearchResults(hits))
-----------------------------------------------------------------------------
TypeOK == /\ hosts \in 0..MaxHosts
          /\ registry \subseteq Hosts /\ alive \subseteq Windows
          /\ source \in [Windows -> Hosts \cup {Empty}]
          /\ generation \in [Windows -> 0..MaxGeneration+1]
          /\ text \in [Windows -> Queries \cup {None}]
          /\ showing \in [Windows -> BOOLEAN]
          /\ tree \in [Windows -> Trees]
          /\ current \in [Windows -> Hosts \cup {Empty}]
          /\ load \in [Windows -> Loads]
          /\ history \in [Windows -> SUBSET Hosts]
          /\ searches \subseteq Hits /\ posted \subseteq Hits
          /\ asked \in [Windows -> Hits \cup {None}]

(* Tree, results and current topic of a window are of the book it has      *)
(* open, although searches and pages of earlier books of the window are    *)
(* still under way (reader_window.cpp:806, 878).                           *)
OneBookPerWindow ==
  \A w \in alive : tree[w].host = source[w] /\ current[w] \in {Empty, source[w]}

(* "one handler serves all windows and a window's history never reaches    *)
(* into a book it no longer shows" (win32/README.md).                      *)
OwnPages == \A w \in alive : load[w].at = "serve" => load[w].host = source[w]

(* And every page of the book a window has open can be found.              *)
PagesFound == \A w \in alive : load[w].at = "missing" => load[w].host # source[w]

(* So a window gets the pages of the book it shows, all and no others.     *)
RightPages == OwnPages /\ PagesFound

(* Results that appear are those of the last search submitted, in whatever *)
(* order the threads of several searches end.                              *)
LatestResults ==
  [][\A w \in Windows : showing'[w] /\ tree'[w] # tree[w] =>
        /\ asked[w] # None
        /\ tree'[w] = [host |-> asked[w].host, query |-> asked[w].query]]_vars

(* A search is answered, unless the window has moved on.                   *)
SearchesAnswered ==
  \A hits \in Hits :
    hits \in searches ~> \/ generation[hits.window] # hits.generation
                         \/ tree[hits.window] = [host |-> hits.host, query |-> hits.query]

(* "clearing the field (or Escape) restores the contents"                  *)
(* (win32/README.md:56): an empty field never stands over search results.  *)
ClearedShowsContents == \A w \in alive : text[w] = None => ~showing[w]
=============================================================================
