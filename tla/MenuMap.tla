------------------------------- MODULE MenuMap --------------------------------
(***************************************************************************)
(* The crawl of a game's menus into a map, and the walk over that map      *)
(* (menu/crawler.py, menu/knowledge.py, menu/nav.py, menu_nav_exec.py).    *)
(* The crawl never goes back: for each node it opens a fresh session,      *)
(* replays the presses that lead there and probes the options in turn.     *)
(* What a press does is the game's affair, and whether it has settled in   *)
(* time is not certain.  A screen is its signature; a label is the         *)
(* category classify_option_label finds in it.                             *)
(***************************************************************************)
EXTENDS Naturals, Sequences, SequencesExt, FiniteSets

CONSTANTS
  Menus,    \* the screens of the game
  Games,    \* the games there may be: what each screen is and offers
  Door,     \* the screen a fresh session starts at
  MaxNodes, \* how many nodes one crawl visits
  Nowhere   \* no screen: UNEXPLORED_TARGET

\* A game tells of every screen what screen_state makes of it and its options.
ASSUME MenuAssumption ==
  /\ Door \in Menus /\ Nowhere \notin Menus /\ MaxNodes \in Nat
  /\ \A g \in Games : \A m \in Menus : /\ g[m].state \in {"menu", "unsafe", "other"}
                                       /\ g[m].options \in Seq([key : STRING, label : STRING, to : Menus])

VARIABLES
  game,     \* the game as it is now
  standsOn,       \* the screen the session is on
  job,      \* "none", "crawl", "idle", "walk", "done"
  crawlPhase,    \* of the crawl: "next", "replay", "probe", "again"
  node,     \* the node whose options are being probed, and how to get there
  arrived,    \* the screen its replay arrived at, whose options are probed
  option,   \* the option to probe next
  ahead,    \* replayed presses still to come
  frontier, \* nodes queued, each with the presses that reach it
  charted,    \* menu_map nodes
  edges,    \* menu_map edges
  visited,  \* nodes taken from the queue
  stamp,    \* last_crawl: "none", "complete", "truncated"
  target,   \* where a walk is to go
  route,    \* the rest of its plan
  walk,     \* how it ended: "none", "completed", "off_map", "mismatch", "refused", "failed"
  lastPress,  \* the latest press: the screen it fell on and the option meant
  unsettled,     \* a press was not seen to settle (history)
  changed   \* the game is not the one that was crawled (history)

crawlVars == <<crawlPhase, node, arrived, option, ahead, frontier, charted, edges, visited, stamp, unsettled>>
walkVars == <<target, route, walk>>
menuVars == <<game, standsOn, job, crawlVars, walkVars, lastPress, changed>>

Nav == {"back", "previous"}
Info == {"view", "help", "list", "display", "examine"}
\* SAFE_ALLOWLIST: the only labels a press is allowed for.
SafeLabels == Nav \cup Info
EdgeKind(label) == IF label \in Nav THEN "nav" ELSE IF label \in Info THEN "info" ELSE "action"

Options(m) == game[m].options
\* The game's answer to a key: the options' targets, or nothing.
After(m, key) ==
  LET hits == {i \in DOMAIN Options(m) : Options(m)[i].key = key} IN
  IF hits = {} THEN m ELSE Options(m)[CHOOSE i \in hits : TRUE].to

\* upsert_menu_edge: one edge per screen and key.
WithEdge(m, o, to, kind) ==
  {e \in edges : ~(e.from = m /\ e.key = o.key)} \cup {[from |-> m, key |-> o.key, to |-> to, kind |-> kind]}

\* find_menu_path over the edges a walk may use: the shortest routes.
Walkable == {e \in edges : e.kind \in {"nav", "info"}}
Linked(p) == \A i \in 1..Len(p) - 1 : p[i].to = p[i + 1].from
RoutesAnywhere(from, to, n) ==
  IF n = 0 THEN {p \in {<<>>} : from = to} ELSE {p \in [1..n -> Walkable] : p[1].from = from /\ Linked(p)}
Routes(from, to, n) ==
  IF n = 0 THEN {p \in {<<>>} : from = to}
  ELSE {p \in [1..n -> Walkable] : p[1].from = from /\ p[n].to = to /\ Linked(p)}
Shortest(from, to) ==
  LET lengths == {n \in 0..Cardinality(charted) : Routes(from, to, n) # {}} IN
  UNION {Routes(from, to, n) : n \in {k \in lengths : \A j \in lengths : k <= j}}

MenuInit ==
  /\ game \in Games /\ standsOn = Door /\ job = "none"
  /\ crawlPhase = "next" /\ node = [menu |-> Door, steps |-> <<>>] /\ arrived = Door /\ option = 1 /\ ahead = <<>>
  /\ frontier = <<node>> /\ charted = {Door} /\ edges = {} /\ visited = 0 /\ stamp = "none" /\ unsettled = FALSE
  /\ target = Door /\ route = <<>> /\ walk = "none"
  /\ lastPress = [on |-> Nowhere, meant |-> Nowhere, label |-> "none"] /\ changed = FALSE

-------------------------------------------------------------------------------
(* The crawl                                                               *)

CrawlKeeps == UNCHANGED <<game, walkVars, changed>>

\* crawl_menus, with the entry node queued.
CrawlStarts ==
  /\ job = "none" /\ job' = "crawl"
  /\ CrawlKeeps
  /\ UNCHANGED <<standsOn, crawlPhase, node, arrived, option, ahead, frontier, charted, edges, visited, stamp, unsettled, lastPress>>

\* The next node of the queue: a fresh session, and its way there.
Visits ==
  /\ job = "crawl" /\ crawlPhase = "next" /\ frontier # <<>> /\ visited < MaxNodes
  /\ node' = Head(frontier) /\ frontier' = Tail(frontier) /\ visited' = visited + 1
  /\ standsOn' = Door /\ ahead' = Head(frontier).steps /\ option' = 1 /\ crawlPhase' = "replay"
  /\ CrawlKeeps /\ UNCHANGED <<job, arrived, charted, edges, stamp, unsettled, lastPress>>

StampsComplete ==
  /\ job = "crawl" /\ crawlPhase = "next" /\ (frontier = <<>> \/ visited = MaxNodes)
  /\ stamp' = "complete" /\ job' = "idle"
  /\ CrawlKeeps
  /\ UNCHANGED <<standsOn, crawlPhase, node, arrived, option, ahead, frontier, charted, edges, visited, unsettled, lastPress>>
Stamps ==
  /\ job = "crawl" /\ crawlPhase = "next" /\ (frontier = <<>> \/ visited = MaxNodes)
  /\ stamp' = IF frontier = <<>> THEN "complete" ELSE "truncated"
  /\ job' = "idle"
  /\ CrawlKeeps /\ UNCHANGED <<standsOn, crawlPhase, node, arrived, option, ahead, frontier, charted, edges, visited, unsettled, lastPress>>

\* emit_key_if_safe once it sends: the key falls on whatever is on screen.
PressesKey(meant, o) ==
  /\ lastPress' = [on |-> standsOn, meant |-> meant, label |-> o.label]
  /\ standsOn' = After(standsOn, o.key)

\* One press of the way to a node; a screen that is no menu, or a press that
\* does not settle, gives the node up ("next": at the start of it, or its
\* remaining options).
Replays ==
  /\ job = "crawl" /\ crawlPhase = "replay"
  /\ IF ahead = <<>> THEN
       /\ crawlPhase' = "probe" /\ arrived' = IF option = 1 THEN standsOn ELSE arrived
       /\ UNCHANGED <<standsOn, ahead, unsettled, lastPress>>
     ELSE IF game[standsOn].state # "menu" THEN
       /\ crawlPhase' = "next" /\ UNCHANGED <<standsOn, arrived, ahead, unsettled, lastPress>>
     ELSE
       /\ UNCHANGED arrived /\ PressesKey(Head(ahead).menu, Head(ahead))
       /\ \/ crawlPhase' = "replay" /\ ahead' = Tail(ahead) /\ UNCHANGED unsettled
          \/ crawlPhase' = "next" /\ unsettled' = TRUE /\ UNCHANGED ahead
  /\ CrawlKeeps /\ UNCHANGED <<job, node, option, frontier, charted, edges, visited, stamp>>

NextOptionAgain == option
NextOption == option + 1

\* Nothing is pressed on a screen that is no menu; the options of a menu are
\* those it showed on the first arrival, whatever came of the presses since.
Probes ==
  /\ job = "crawl" /\ crawlPhase = "probe"
  /\ \/ /\ game[arrived].state # "menu" \/ option > Len(Options(arrived))
        /\ crawlPhase' = "next" /\ UNCHANGED <<standsOn, option, ahead, frontier, charted, edges, unsettled, lastPress>>
     \/ /\ game[arrived].state = "menu" /\ option <= Len(Options(arrived))
        /\ option' = NextOption
        /\ LET o == Options(arrived)[option] IN
           \/ /\ o.label \notin SafeLabels
              /\ edges' = WithEdge(node.menu, o, Nowhere, "action")
              /\ UNCHANGED <<standsOn, crawlPhase, ahead, frontier, charted, unsettled, lastPress>>
           \/ /\ o.label \in SafeLabels /\ PressesKey(arrived, o)
              /\ unsettled' = TRUE /\ UNCHANGED <<crawlPhase, ahead, frontier, charted, edges>>
           \/ /\ o.label \in SafeLabels /\ PressesKey(arrived, o)
              /\ charted' = charted \cup {standsOn'}
              /\ edges' = WithEdge(node.menu, o, standsOn', EdgeKind(o.label))
              /\ frontier' = IF standsOn' \in charted THEN frontier
                             ELSE Append(frontier, [menu |-> standsOn', steps |->
                                    Append(node.steps, [menu |-> arrived, key |-> o.key, label |-> o.label])])
              /\ crawlPhase' = "again" /\ UNCHANGED <<ahead, unsettled>>
  /\ CrawlKeeps /\ UNCHANGED <<job, node, arrived, visited, stamp>>

ReopensNothing ==
  /\ job = "crawl" /\ crawlPhase = "again" /\ crawlPhase' = "probe"
  /\ CrawlKeeps /\ UNCHANGED <<standsOn, ahead, job, node, arrived, option, frontier, charted, edges, visited, stamp, unsettled, lastPress>>
\* Back to the node for its next option, from a fresh session.
Reopens ==
  /\ job = "crawl" /\ crawlPhase = "again"
  /\ standsOn' = Door /\ ahead' = node.steps /\ crawlPhase' = "replay"
  /\ CrawlKeeps /\ UNCHANGED <<job, node, arrived, option, frontier, charted, edges, visited, stamp, unsettled, lastPress>>

-------------------------------------------------------------------------------
(* The walk: menumap --to --exec --arm                                     *)

\* Time passes: the game is another one, the player on another screen.
Drifts ==
  /\ job = "idle" /\ game' \in Games /\ standsOn' \in Menus
  /\ changed' = (changed \/ game' # game)
  /\ UNCHANGED <<job, crawlVars, walkVars, lastPress>>

WalkKeeps == UNCHANGED <<game, crawlPhase, node, arrived, option, ahead, frontier, charted, edges, visited, stamp, changed>>

\* plan_nav: nowhere to start from, or no way.
WalkRefused ==
  /\ job = "idle" /\ \E to \in Menus : target' = to /\ (standsOn \notin charted \/ Shortest(standsOn, to) = {})
  /\ walk' = "refused" /\ job' = "done"
  /\ WalkKeeps /\ UNCHANGED <<standsOn, route, lastPress, unsettled>>

WalkStarts ==
  /\ job = "idle" /\ standsOn \in charted
  /\ \E to \in Menus : target' = to /\ route' \in Shortest(standsOn, to)
  /\ job' = "walk"
  /\ WalkKeeps /\ UNCHANGED <<standsOn, walk, lastPress, unsettled>>

WalkEnds ==
  /\ job = "walk" /\ route = <<>>
  /\ walk' = "completed" /\ job' = "done"
  /\ WalkKeeps /\ UNCHANGED <<standsOn, target, route, lastPress, unsettled>>

\* localize: the screen read after a press is the edge's target.
AnyScreen(seen) == TRUE
AsMapped(seen) == seen = Head(route).to

\* Press, read the screen, and go on only where the map says it leads; a
\* press that has not settled leaves the old screen to be read.
WalkPresses ==
  /\ job = "walk" /\ route # <<>>
  /\ lastPress' = [on |-> standsOn, meant |-> Head(route).from, label |-> Head(route).kind]
  /\ standsOn' = After(standsOn, Head(route).key)
  /\ \E seen \in {standsOn, standsOn'} :
       /\ unsettled' = (unsettled \/ seen # standsOn')
       /\ \/ AsMapped(seen) /\ route' = Tail(route) /\ UNCHANGED <<walk, job>>
          \/ /\ ~AsMapped(seen) /\ job' = "done" /\ UNCHANGED route
             /\ walk' = IF seen \in charted THEN "mismatch" ELSE "off_map"
  /\ WalkKeeps /\ UNCHANGED target

\* The daemon refuses the press, or cannot be reached.
WalkFails ==
  /\ job = "walk" /\ route # <<>>
  /\ walk' = "failed" /\ job' = "done"
  /\ WalkKeeps /\ UNCHANGED <<standsOn, target, route, lastPress, unsettled>>

CrawlStep == Visits \/ Stamps \/ Replays \/ Probes \/ Reopens
WalkStep == WalkEnds \/ WalkPresses
MenuNext == CrawlStarts \/ CrawlStep \/ Drifts \/ WalkRefused \/ WalkStarts \/ WalkStep \/ WalkFails
MenuSpec == MenuInit /\ [][MenuNext]_menuVars

-------------------------------------------------------------------------------
MenuTypeOK ==
  /\ game \in Games /\ standsOn \in Menus /\ job \in {"none", "crawl", "idle", "walk", "done"}
  /\ crawlPhase \in {"next", "replay", "probe", "again"} /\ node.menu \in Menus /\ option \in Nat
  /\ charted \subseteq Menus /\ visited \in 0..MaxNodes /\ stamp \in {"none", "complete", "truncated"}
  /\ edges \subseteq [from : Menus, key : {e.key : e \in edges}, to : Menus \cup {Nowhere}, kind : {"nav", "info", "action"}]
  /\ target \in Menus /\ walk \in {"none", "completed", "off_map", "mismatch", "refused", "failed"}
  /\ unsettled \in BOOLEAN /\ changed \in BOOLEAN

\* Every press falls on the screen its label was read on, through any replay
\* and any walk, as long as presses settle in time (emit_key_if_safe judges
\* the label, not the screen).
PressedWhereRead == ~unsettled => lastPress.on = lastPress.meant

\* A map stamped complete has every screen that safe presses lead to
\* (record_crawl_status).
Explored(m) == \A i \in DOMAIN Options(m) :
  Options(m)[i].label \in SafeLabels => After(m, Options(m)[i].key) \in charted
CompleteIsComplete ==
  stamp = "complete" /\ ~unsettled /\ ~changed => \A m \in charted : game[m].state = "menu" => Explored(m)

\* A walk over a map of this game, crawled in time, gets where it was sent.
WalkArrives ==
  /\ walk = "completed" /\ ~unsettled => standsOn = target
  /\ walk \in {"off_map", "mismatch"} => unsettled \/ changed

\* The crawl presses what it has read, the map says how far it went, and a walk
\* over it ends where it says.
MapSound == PressedWhereRead /\ CompleteIsComplete /\ WalkArrives

\* Once a press has led elsewhere than the map says, no other follows, also
\* when the game is not the one crawled (localize after every press).
WalkStopsAstray ==
  job = "walk" /\ job' = "walk" /\ ~unsettled' => standsOn' = Head(route).to

\* Every crawl comes to its stamp: no screen is queued twice.
CrawlEnds == job = "crawl" ~> stamp # "none"
===============================================================================
