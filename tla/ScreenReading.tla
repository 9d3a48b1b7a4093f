----------------------------- MODULE ScreenReading -----------------------------
(***************************************************************************)
(* What the client makes of a screen: its class (session/classify.py), the *)
(* sector, credits, turns, holds, warps and port read off it               *)
(* (session/state_parser.py, hud_tracking.py), and the values the session  *)
(* remembers from poll to poll (session.py observe_*, the status verb).    *)
(*                                                                         *)
(* The screen is a window over the lines painted since it was cleared; a   *)
(* line is its kind and the numbers in it, and may be seen half painted.   *)
(* The game answers a key with a whole piece of text, line by line; older  *)
(* answers stay in the window above it.                                    *)
(***************************************************************************)
EXTENDS Integers, FiniteSets, SequencesExt

CONSTANTS
  Height,        \* lines of the window
  Spots,         \* sectors the ship may be in
  PortSpots,     \* those with a port
  Doors,         \* dialects of the game list: "boxed", "banner", "square", "plain"
  BannerSpan,    \* lines a server banner may spread over
  MaxAnswers     \* bound on the game's answers

ASSUME ScreenAssumption ==
  /\ Spots \subseteq Nat \ {0} /\ PortSpots \subseteq Spots
  /\ Doors \subseteq {"boxed", "banner", "square", "plain"}
  /\ Height \in Nat \ {0} /\ BannerSpan \in Nat /\ MaxAnswers \in Nat

VARIABLES
  window,    \* the window, the newest line last
  toPaint,   \* what of the answer is still to come
  half,      \* the line at the bottom is half painted
  untouched, \* nothing of the answer is on the screen yet
  answer,    \* the piece the game answered with last
  answers,
  spot,      \* where the ship is
  ship,      \* what the game knows: credits, turns, empty holds, holds, its prompt
  lastTold,  \* the credits and turns stated last
  hud,       \* what the session remembers
  polled     \* the last step was a poll

readVars == <<window, toPaint, half, untouched, answer, answers, spot, ship, lastTold, hud, polled>>

Line(kind, n, m) == [is |-> kind, n |-> n, m |-> m]
Plain(kind) == Line(kind, 0, 0)
LinesOf(q, kinds) == {i \in DOMAIN q : q[i].is \in kinds}
Lowest(S) == CHOOSE i \in S : \A j \in S : j <= i

\* render_cropped: the window without what is blank below the last line.
Rows == IF LinesOf(window, {"blank"}) = DOMAIN window THEN <<>>
        ELSE SubSeq(window, 1, Lowest(DOMAIN window \ LinesOf(window, {"blank"})))
Prompt(q) == IF q = <<>> THEN Plain("blank") ELSE Last(q)

-------------------------------------------------------------------------------
(* Classes                                                                 *)

\* Mutated form of ClosedBlock: whatever is painted below it.
ClosedBlockBare(q, head, foot) ==
  \E h \in LinesOf(q, {head}) : \E f \in LinesOf(q, {foot}) : f > h
\* _is_exclusive_closed_block: the latest header has a footer below it, a
\* command prompt or nothing above it, and nothing below but the prompt.
ClosedBlock(q, head, foot) ==
  \E h \in LinesOf(q, {head}) :
    /\ \A j \in LinesOf(q, {head}) : j <= h
    /\ LET above == {j \in 1..(h - 1) : q[j].is # "blank"}
       IN above # {} => q[Lowest(above)].is = "command"
    /\ \E f \in LinesOf(q, {foot}) :
         /\ f > h /\ \A j \in LinesOf(q, {foot}) : j > h => f <= j
         /\ \A j \in (f + 1)..(Len(q) - 1) : q[j].is = "blank"

\* _selection_prompt_context: a timeout or a line of ornament below the prompt
\* does not hide it.
PromptAt(q) ==
  IF Prompt(q).is \in {"timed_out", "ornament"} /\ LinesOf(q, {"selection"}) # {}
  THEN Lowest(LinesOf(q, {"selection"})) ELSE Len(q)

\* Between a heading and the prompt there is the list of games, not the menu of
\* one: both marks of the list, no lettered options, no second list below it.
ListsGames(q, heading) ==
  LET zone == (heading + 1)..(PromptAt(q) - 1)
      of(kinds) == zone \cap LinesOf(q, kinds)
      marks == of({"players", "descriptions"})
  IN /\ heading < PromptAt(q)
     /\ of({"lettered"}) = {}
     /\ Cardinality(of({"bracketed", "descriptions"})) >= 2
     /\ of({"players"}) # {} /\ of({"descriptions"}) # {}
     /\ Cardinality({i \in of({"bracketed", "descriptions", "numbered"}) : i > Lowest(marks)}) <= 1

BoxedDoor(q) ==
  /\ q # <<>> /\ q[PromptAt(q)].is = "selection"
  /\ LinesOf(q, {"games"}) # {} /\ ListsGames(q, Lowest(LinesOf(q, {"games"})))

BannerDoor(q) ==
  LET signs == {"title", "version", "registered"}
      at == {Lowest(LinesOf(q, {s})) : s \in {t \in signs : LinesOf(q, {t}) # {}}}
  IN /\ q # <<>>
     /\ q[PromptAt(q)].is = "selection" \/ (Prompt(q).is = "ornament" /\ LinesOf(q, {"selection"}) = {})
     /\ \A s \in signs : LinesOf(q, {s}) # {}
     /\ \A i, j \in at : i - j <= BannerSpan
     /\ ListsGames(q, Lowest(at))

SquareDoor(q) ==
  /\ Prompt(q).is \in {"choice", "timed_out"}
  /\ Cardinality({i \in LinesOf(q, {"game"}) : i < Len(q)}) >= 2
  /\ Prompt(q).is = "timed_out" => LinesOf(q, {"choice"}) # {}

TimedOutDoor(q) ==
  LET asked == {i \in LinesOf(q, {"select"}) : i < Len(q)}
  IN /\ Prompt(q).is = "timed_out" /\ asked # {}
     /\ \A i \in (Lowest(asked) + 1)..(Len(q) - 1) : q[i].is # "lettered"

\* _GATE_ANCHORS, asked of the prompt line alone; a prompt still being painted
\* in the slot of the sector is one already.
GateOf(line) ==
  CASE line.is = "pause" -> "pause_key"
    [] line.is = "select" -> "game_select"
    [] line.is = "toll" -> "fighter_encounter"
    [] line.is = "command" -> "main_command"
    [] line.is = "quantity" -> "money_prompt"
    [] OTHER -> "none"

\* _CONTENT_ANCHORS, asked of the whole screen.
ContentOf(q) ==
  CASE ClosedBlock(q, "quote", "end_quote") -> "stardock_cargo_hold_quote"
    [] ~ClosedBlock(q, "quote", "end_quote") /\ LinesOf(q, {"sector", "row"}) # {} -> "sector_display"
    [] OTHER ->
         IF LinesOf(q, {"good", "quantity"}) # {} THEN "port_trade"
         ELSE IF Cardinality(LinesOf(q, {"bracketed", "lettered", "descriptions"})) >= 2 THEN "menu"
         ELSE "unknown"

\* classify_screen, first match.
ClassOf(q) ==
  IF LinesOf(q, {"destroyed"}) # {} THEN "ship_destroyed"
  ELSE IF ClosedBlock(q, "report", "end_report") THEN "cim_report"
  ELSE IF BoxedDoor(q) \/ BannerDoor(q) \/ TimedOutDoor(q) \/ SquareDoor(q) THEN "game_select"
  ELSE IF GateOf(Prompt(q)) # "none" THEN GateOf(Prompt(q))
  ELSE ContentOf(q)

-------------------------------------------------------------------------------
(* Reads: 0 is nothing read                                                *)

SectorOf(line) == IF line.is = "command" THEN line.n ELSE 0

\* The latest statement of a kind, unless a label was begun below it.
LatestOf(q, kinds) ==
  LET whole == {i \in LinesOf(q, kinds) : q[i].n > 0}
      begun == {i \in LinesOf(q, kinds) : q[i].n = 0}
  IN IF whole = {} \/ \E i \in begun : i > Lowest(whole) THEN 0 ELSE q[Lowest(whole)].n
CreditsOf(q) == LatestOf(q, {"have", "credits"})

\* observe_turns: the count in the prompt, or else the latest in the text.
TurnsRead(q) == IF Prompt(q).is = "command" /\ Prompt(q).m > 0 THEN Prompt(q).m ELSE LatestOf(q, {"turns_left"})

\* read_empty_cargo_holds: the line that states it last; the ship's own sheet
\* states the total as well.
HoldsLine(q) ==
  LET stated == LinesOf(q, {"have"}) \cup {i \in LinesOf(q, {"holds"}) : q[i].m <= q[i].n}
  IN IF stated = {} THEN Plain("blank") ELSE q[Lowest(stated)]

\* The warps line painted last, and the port line of the last block that names a
\* sector and has one of the two below it.
WarpsOf(q) == IF LinesOf(q, {"warps"}) = {} THEN 0 ELSE q[Lowest(LinesOf(q, {"warps"}))].n
SameBlock(q, i, j) ==
  \A k \in DOMAIN q : (i <= k /\ k <= j) \/ (j <= k /\ k <= i) => q[k].is # "blank"
StatusBlocks(q) ==
  {i \in LinesOf(q, {"sector"}) : \E j \in LinesOf(q, {"ports", "warps"}) : SameBlock(q, i, j)}
PortsLines(q) ==
  {j \in LinesOf(q, {"ports"}) : SameBlock(q, Lowest(StatusBlocks(q)), j)}
\* Mutated form of PortOf: of any block.
AnyPortsLine(q) == IF LinesOf(q, {"ports"}) = {} THEN 0 ELSE q[Lowest(LinesOf(q, {"ports"}))].n
PortOf(q) ==
  IF StatusBlocks(q) = {} \/ PortsLines(q) = {} THEN 0 ELSE q[Lowest(PortsLines(q))].n

\* parse_port_report: the rows between the latest header and its footer.
ReportRows(q) ==
  LET h == Lowest(LinesOf(q, {"report"}))
      ends == {f \in LinesOf(q, {"end_report"}) : f > h}
  IN IF LinesOf(q, {"report"}) = {} \/ ends = {} THEN <<>>
     ELSE [i \in 1..((CHOOSE f \in ends : \A e \in ends : f <= e) - h - 1) |-> q[h + i].n]

-------------------------------------------------------------------------------
(* The game                                                                *)

Own(s, m) ==
  <<Plain("blank"), Line("sector", s, m)>> \o (IF s \in PortSpots THEN <<Line("ports", s, m)>> ELSE <<>>)
  \o <<Line("warps", s, m), Plain("blank")>>
\* A prompt carries the turns left, or on other servers a clock.
Asks(s, t) == <<Line("command", s, IF ship.clock THEN 0 ELSE t)>>
GameList(d) ==
  LET list == <<Plain("bracketed"), Plain("players"), Plain("descriptions")>>
  IN CASE d = "boxed" -> <<Plain("games")>> \o list \o <<Plain("selection")>>
       [] d = "banner" -> <<Plain("title"), Plain("version"), Plain("registered")>> \o list \o <<Plain("selection")>>
       [] d = "square" -> <<Plain("game"), Plain("game"), Plain("choice"), Plain("timed_out")>>
       [] d = "plain" -> <<Plain("select"), Plain("timed_out")>>

NothingRead == [credits |-> 0, baseline |-> 0, turns |-> 0, most |-> 0, sector |-> 0, empty |-> 0, holds |-> 0]

ScreenInit ==
  /\ window = <<>> /\ half = FALSE /\ untouched = FALSE /\ answers = 0
  /\ answer = "door" /\ toPaint \in {GameList(d) : d \in Doors}
  /\ spot \in Spots
  /\ \E clock \in BOOLEAN : ship = [credits |-> 2, turns |-> 3, empty |-> 1, holds |-> 1, clock |-> clock]
  /\ lastTold = [credits |-> 0, turns |-> 0]
  /\ hud = NothingRead /\ polled = FALSE

\* A key is answered: the piece begins below what is on the screen, or on a
\* screen the game has cleared.
Replies(name, piece) ==
  /\ toPaint = <<>> /\ answers < MaxAnswers
  /\ toPaint' = piece /\ answer' = name /\ untouched' = TRUE /\ answers' = answers + 1
  /\ \/ UNCHANGED window
     \/ window' = <<>>
  /\ polled' = FALSE /\ UNCHANGED <<half, lastTold, hud>>
InGame == answer # "door"

EntersGame ==
  /\ answer = "door" /\ UNCHANGED <<spot, ship>>
  /\ Replies("entry", <<Plain("lettered"), Plain("lettered"), Plain("selection")>>)
WarpsAway ==
  /\ InGame /\ ship.turns > 1 /\ spot' \in Spots
  /\ ship' = [ship EXCEPT !.turns = @ - 1]
  /\ Replies("display", <<Line("turns_left", ship.turns - 1, 0)>> \o Own(spot', 0) \o Asks(spot', ship'.turns))
Scans ==
  /\ InGame /\ UNCHANGED <<spot, ship>>
  /\ \E t \in Spots \ {spot} : Replies("scan", Own(t, 1) \o Asks(spot, ship.turns))
MeetsFighters ==
  /\ InGame /\ spot' \in Spots /\ UNCHANGED ship
  /\ Replies("encounter", Own(spot', 0) \o <<Plain("toll")>>)
TradesAtPort ==
  /\ InGame /\ ship.credits > 1 /\ UNCHANGED spot
  /\ ship' = [ship EXCEPT !.credits = @ - 1]
  /\ Replies("dock", <<Line("credits", ship.credits, 0), Plain("good"), Line("have", ship'.credits, ship.empty),
                       Plain("quantity")>>)
BuysHolds ==
  /\ InGame /\ UNCHANGED spot
  /\ ship' = [ship EXCEPT !.holds = @ + 1, !.empty = @ + 1]
  /\ Replies("quote", <<Plain("quote"), Plain("end_quote"), Plain("quantity")>>)
ShowsSheet ==
  /\ InGame /\ UNCHANGED <<spot, ship>>
  /\ Replies("sheet", <<Line("holds", ship.holds, ship.empty), Line("credits", ship.credits, 0)>> \o Asks(spot, ship.turns))
ShowsReport ==
  /\ InGame /\ UNCHANGED <<spot, ship>>
  /\ \E rows \in {<<1>>, <<1, 2>>} :
       Replies("report", <<Plain("report")>> \o [i \in DOMAIN rows |-> Line("row", rows[i], 0)] \o <<Plain("end_report")>>
                         \o Asks(spot, ship.turns))
\* A page of help that quotes a report, with words above and below it.
ShowsHelp ==
  /\ InGame /\ UNCHANGED <<spot, ship>>
  /\ Replies("help", <<Plain("words"), Plain("report"), Line("row", 9, 0), Plain("end_report"), Plain("words")>>
                     \o Asks(spot, ship.turns))
AsksForKey ==
  /\ InGame /\ UNCHANGED <<spot, ship>>
  /\ Replies("pause", <<Plain("words"), Plain("pause")>>)
SeesWreck ==
  /\ InGame /\ UNCHANGED <<spot, ship>>
  /\ Replies("wreck", <<Plain("destroyed")>> \o Asks(spot, ship.turns))

Shown(q) == IF Len(q) > Height THEN SubSeq(q, Len(q) - Height + 1, Len(q)) ELSE q
\* A line as it looks while it is painted: a prompt up to its sector, a label up
\* to its number, of any other no more than words.
Begun(line) ==
  IF line.is \in {"command", "credits"} THEN [line EXCEPT !.n = 0]
  ELSE IF line.is = "blank" THEN line ELSE Plain("words")

Painted ==
  /\ toPaint # <<>>
  /\ LET next == Head(toPaint)
     IN \/ \* the line arrives whole, in one chunk or in two
           /\ window' = Shown(Append(IF half THEN Front(window) ELSE window, next))
           /\ toPaint' = Tail(toPaint) /\ half' = FALSE
           /\ lastTold' = [credits |-> IF next.is \in {"have", "credits"} THEN next.n ELSE lastTold.credits,
                       turns |-> IF next.is = "turns_left" /\ next.n > 0 THEN next.n
                                 ELSE IF next.is = "command" /\ next.m > 0 THEN next.m ELSE lastTold.turns]
        \/ \* its first chunk
           /\ ~half /\ half' = TRUE /\ next.is \in {"command", "credits", "row", "ports"}
           /\ window' = Shown(Append(window, Begun(next)))
           /\ lastTold' = [lastTold EXCEPT !.turns = IF next.is = "command" /\ next.m > 0 THEN next.m ELSE @]
           /\ UNCHANGED toPaint
     /\ untouched' = (untouched /\ next.is = "blank")
  /\ polled' = FALSE
  /\ UNCHANGED <<answer, answers, spot, ship, hud>>

\* Mutated form of KeptOr: what is not on the screen is forgotten.
ReadOnly(read, kept) == read
\* What the session keeps of a reading; a total of holds is only ever replaced by
\* the ship's own sheet.
KeptOr(read, kept) == IF read = 0 THEN kept ELSE read
CreditsKept ==
  [credits |-> KeptOr(CreditsOf(Rows), hud.credits),
   baseline |-> IF hud.baseline = 0 THEN CreditsOf(Rows) ELSE hud.baseline]
TurnsKept ==
  [turns |-> KeptOr(TurnsRead(Rows), hud.turns),
   most |-> IF TurnsRead(Rows) > hud.most THEN TurnsRead(Rows) ELSE hud.most]
CargoKept ==
  LET line == HoldsLine(Rows)
  IN [empty |-> IF line.is = "blank" THEN hud.empty ELSE line.m,
      holds |-> IF line.is = "holds" THEN line.n ELSE hud.holds]
SectorKept == [sector |-> KeptOr(SectorOf(Prompt(Rows)), hud.sector)]

\* The status verb: every observer in turn.
Polls ==
  /\ ~polled /\ polled' = TRUE
  /\ hud' = [credits |-> CreditsKept.credits, baseline |-> CreditsKept.baseline, turns |-> TurnsKept.turns, most |-> TurnsKept.most,
             sector |-> SectorKept.sector, empty |-> CargoKept.empty, holds |-> CargoKept.holds]
  /\ UNCHANGED <<window, toPaint, half, untouched, answer, answers, spot, ship, lastTold>>

ScreenNext ==
  \/ EntersGame \/ WarpsAway \/ Scans \/ MeetsFighters \/ TradesAtPort \/ BuysHolds \/ ShowsSheet \/ ShowsReport \/ ShowsHelp
  \/ AsksForKey \/ SeesWreck \/ Painted \/ Polls

ScreenSpec == ScreenInit /\ [][ScreenNext]_readVars

-------------------------------------------------------------------------------
ScreenTypeOK ==
  /\ Len(window) <= Height /\ answers \in 0..MaxAnswers /\ spot \in Spots
  /\ {half, untouched, polled} \subseteq BOOLEAN
  /\ hud.sector \in Spots \cup {0}

\* What the game waits for once it has painted its answer.
Awaited ==
  CASE answer = "door" -> {"game_select"}
    [] answer = "entry" -> {"menu"}
    [] answer = "encounter" -> {"fighter_encounter"}
    [] answer \in {"dock", "quote"} -> {"money_prompt"}
    [] answer = "pause" -> {"pause_key"}
    [] answer = "report" -> {"main_command", "cim_report"}
    [] OTHER -> {"main_command"}

\* Whatever is still in the window above it, a screen has the class of the prompt
\* the game waits at: a game's own menu under the list of games, a command prompt
\* under a spent toll or pause, a money prompt under a quote.  Only the words of a
\* wreck outlive their prompt (_is_ship_destroyed looks at all of the screen).
PromptNamed ==
  toPaint = <<>> /\ LinesOf(window, {"destroyed"}) = {} => ClassOf(Rows) \in Awaited

\* A screen is taken for a port report only when it is one, all of it there: not
\* a quotation, not an old one, not one under way.
ReportWhole ==
  ClassOf(Rows) = "cim_report" /\ ~untouched => answer = "report" /\ ReportRows(Rows) \in {<<1>>, <<1, 2>>}
                                                 /\ (toPaint = <<>> \/ Head(toPaint).is = "command")

\* What is read off a screen with a command prompt comes from one display: its
\* port and its warps, and those of the sector in the prompt unless a scan of a
\* neighbour was painted last.
OneDisplay ==
  ClassOf(Rows) = "main_command" /\ SectorOf(Prompt(Rows)) # 0 =>
    /\ WarpsOf(Rows) # 0 /\ PortOf(Rows) # 0 => WarpsOf(Rows) = PortOf(Rows)
    /\ \A i \in LinesOf(Rows, {"warps"}) :
         i = Lowest(LinesOf(Rows, {"warps"})) /\ Rows[i].m = 0 => Rows[i].n = SectorOf(Prompt(Rows))

\* A sector is read only off the prompt of the sector the ship is in, or before
\* anything of the answer that moved it has arrived.
HereOrNothing == SectorOf(Prompt(Rows)) # 0 => SectorOf(Prompt(Rows)) = spot \/ untouched

\* A poll leaves in the session what the game stated last, if that is still on
\* the screen, and never the half of a number.
HudLatest ==
  polled =>
    /\ LatestOf(Rows, {"have", "credits"}) # 0 => hud.credits = lastTold.credits
    /\ hud.turns # 0 /\ LinesOf(Rows, {"turns_left"}) # {} => hud.turns = lastTold.turns
    /\ hud.turns <= hud.most /\ (hud.credits = 0 <=> hud.baseline = 0)

\* hud_tracking.py refuses to make a CargoSnapshot, which every status needs, of
\* more empty holds than holds: the pair the session keeps, read off two screens,
\* is one of those only while holds bought since have not been read.
StatusAnswers == hud.holds = ship.holds => hud.empty <= hud.holds

\* What is read off the screen is what the game says now.
ReadingsSound == PromptNamed /\ ReportWhole /\ OneDisplay /\ HereOrNothing /\ HudLatest /\ StatusAnswers
===============================================================================
