----------------------------- MODULE CockpitFrame -----------------------------
(***************************************************************************)
(* What the play screen draws and what a key then answers (screens.py,     *)
(* PlayShellScreen.draw, with the composers of cockpit/).  The loop draws, *)
(* then reads a key: a gate that is up takes it, so what its y stands for  *)
(* has to be on the screen.  A composer may raise: its panel falls back,   *)
(* but a gate or list that cannot be drawn is withdrawn.                   *)
(*                                                                         *)
(* A text is its length, a row of the list what it is about, the banner    *)
(* the reasons and the holder it names.  Left out: colours, box glyphs,    *)
(* the flash of a new log row, the rules list, the connection chip.        *)
(***************************************************************************)
EXTENDS CockpitLayout, FiniteSets, SequencesExt

CONSTANTS
  Scenes,     \* the cockpits to start from
  Shrunk,     \* the sizes a terminal may be changed to
  Reports,    \* the statuses a later poll may bring
  Flippable   \* the toggles whose key is pressed

\* What a poll may report, the list of loops, and the screen object with both;
\* the signs of life, two glyphs and a count, are narrower than any strip.
Statuses == [needs : BOOLEAN, reasons : Seq(STRING), mode : {"", "app", "human", "spectate"}, tail : Nat, holds : BOOLEAN]
LoopLists == [open : BOOLEAN, section : {"taught", "discovered"}, index : Nat, found : Nat, scroll : Nat,
              taught : Nat, discovered : Nat, truncated : BOOLEAN]
Gates == {"arm", "genesis", "draft", "identity"}
Toggles == {"F", "P", "C", "S"}
CockpitStates == [size : Nat \X Nat, status : Statuses, seat : {"armed", "attached", "spectating"}, off : SUBSET Toggles,
             hint : Nat, text : BOOLEAN, life : 0..57, raising : STRING, gates : SUBSET Gates, list : LoopLists]

\* A screen starts with its list closed and no gate up.
ASSUME FrameAssumption ==
  /\ Scenes \subseteq {c \in CockpitStates : c.gates = {} /\ ~c.list.open}
  /\ Shrunk \subseteq Nat \X Nat /\ Reports \subseteq Statuses /\ Flippable \subseteq Toggles

VARIABLES
  cockpit,    \* the screen object and what it has read
  drawn       \* the frame on the screen, NoFrame once a key or a poll outdated it

frameVars == <<cockpit, drawn>>

\* A status: does it ask for attention and why, who drives, how many log lines,
\* is the number of holds known; and the one of a provider that raises.
Unheard == [needs |-> FALSE, reasons |-> <<>>, mode |-> "", tail |-> 0, holds |-> FALSE]
Status(c) == IF c.raising = "status" THEN Unheard ELSE c.status
Halting(c) == Status(c).needs

LayoutOf(c) == Layout(c.size[1], c.size[2], Halting(c))
Has(region) == region.w > 0 /\ region.h > 0
Inner(n) == Greater(0, n - 2)
Fits(c) == Drawable(c.size[1], c.size[2])

-------------------------------------------------------------------------------
(* The panels, in the regions `lay' of a layout                            *)

\* A panel that its composer fills or that falls back; the decisions take in
\* the goals where these have no box, and the list hides the bubbles.
Shows(panel, c, lay) ==
  CASE panel = c.raising -> "fallback"
    [] panel # c.raising /\ panel = "decisions" /\ ~Has(lay.goals) -> "folded"
    [] OTHER -> "composed"
PanelsShown(c, lay) ==
  [p \in {q \in {"goals", "left_gutter", "center", "chain", "right_gutter", "decisions"} :
            Has(lay[q]) /\ (q = "chain" => ~c.list.open)} |-> Shows(p, c, lay)]

TailRoomWhole(c, h) == h
TailRoom(c, h) == IF c.text THEN h - 1 ELSE h
\* The logs: the tail's last lines, and the status text under them or alone.
LogRows(c, h) ==
  LET real == Status(c).tail > 0 /\ c.raising # "logs"
      entries == IF real THEN [i \in 1..Lesser(TailRoom(c, h), Status(c).tail) |-> "entry"]
                 ELSE IF c.text THEN <<>> ELSE <<"none yet">>
      rows == entries \o (IF c.text THEN <<"text">> ELSE <<>>)
  IN SubSeq(rows, 1, Lesser(Len(rows), h))

\* compose_stop_banner_lines: why, then who has the keyboard, then what to do.
Reason(code) == CASE code = "none" -> "?" [] code # "none" -> code
HolderHuman(mode) == IF mode = "" THEN "HUMAN" ELSE mode
Holder(mode) == CASE mode = "human" -> "HUMAN" [] mode = "" -> "?" [] mode \notin {"human", ""} -> mode
BannerLines(status, h) ==
  LET why == IF status.reasons = <<>> THEN {"?"} ELSE {Reason(r) : r \in ToSet(status.reasons)}
  IN IF status.needs THEN SubSeq(<<why, {Holder(status.mode)}, {"teach"}>>, 1, Lesser(3, h)) ELSE <<>>
Banner(c, region) ==
  IF ~Has(region) THEN <<>>
  ELSE IF c.raising = "banner" THEN <<{"!"}>> ELSE BannerLines(Status(c), region.h)

-------------------------------------------------------------------------------
(* The control strip: a label, the coverage meter and the band from the    *)
(* left, the signs of life at the right.                                   *)

\* _trainer_seat_label: in full or narrow.
SeatLabel(seat, budget) ==
  CASE seat = "armed" -> IF 12 <= budget THEN 12 ELSE 6
    [] seat = "attached" -> IF 15 <= budget THEN 15 ELSE 9
    [] seat = "spectating" -> 8

\* A repertoire: E, some toggles, perhaps the rule before T and L.
Toggle(t, long, off) ==
  (CASE t = "F" -> IF long THEN 14 ELSE 5
     [] t = "P" -> IF long THEN 11 ELSE 5
     [] t = "C" -> IF long THEN 19 ELSE 6
     [] t = "S" -> IF long THEN 13 ELSE 5) + (IF t \in off THEN 4 ELSE 3)
Repertoire(toggles, long, rule, chain, gap, margin, off) ==
  LET toggle(t) == IF t \in toggles THEN gap + Toggle(t, long, off) ELSE 0
  IN margin + 8 + toggle("F") + toggle("P") + toggle("C") + toggle("S")
       + (IF rule THEN gap + 1 ELSE 0) + (IF chain THEN gap + 17 ELSE 0) + gap + 11 + margin

\* fit_teach_band: the first of ever shorter ones that has room; none is 0.
Repertoires(off) ==
  LET all == {"F", "P", "C", "S"}
  IN <<Repertoire(all, TRUE, TRUE, TRUE, 2, 2, off), Repertoire(all, FALSE, TRUE, TRUE, 2, 2, off),
       Repertoire(all, FALSE, TRUE, TRUE, 2, 1, off), Repertoire(all, FALSE, TRUE, TRUE, 1, 1, off),
       Repertoire(all, FALSE, TRUE, TRUE, 1, 0, off), Repertoire({"F", "P", "C"}, FALSE, TRUE, TRUE, 1, 1, off),
       Repertoire({"F", "P"}, FALSE, TRUE, TRUE, 1, 1, off), Repertoire({"P"}, FALSE, TRUE, TRUE, 1, 1, off),
       Repertoire({"P"}, FALSE, FALSE, TRUE, 1, 1, off), Repertoire({"P"}, FALSE, FALSE, TRUE, 1, 0, off),
       Repertoire({}, FALSE, FALSE, FALSE, 2, 1, off), Repertoire({}, FALSE, FALSE, FALSE, 1, 0, off)>>
FittedBand(off, room) ==
  LET bands == Repertoires(off)
      fit == {i \in DOMAIN bands : bands[i] <= room}
  IN IF fit = {} THEN 0 ELSE bands[CHOOSE i \in fit : \A j \in fit : i <= j]

\* _fit_teach_into_budget: as composed when that fits, else composed again from
\* the toggles read back out of it, F not among them.  A hint is all or nothing.
Band(c, budget) ==
  LET whole == IF c.hint > 0 THEN c.hint ELSE Repertoires(c.off)[1]
  IN IF whole <= budget THEN whole
     ELSE IF budget <= 0 \/ c.hint > 0 THEN 0
     ELSE FittedBand(c.off \ {"F"}, budget)

Piece(is, len) == [is |-> is, len |-> len]
\* The columns of a row, which has six pieces at most.
Length(pieces) ==
  LET len(i) == IF i \in DOMAIN pieces THEN pieces[i].len ELSE 0
  IN len(1) + len(2) + len(3) + len(4) + len(5) + len(6)

MeteredTight(c, label, budget) == c.raising # "meter" /\ label + 23 <= budget
Metered(c, label, budget) == c.raising # "meter" /\ label + 2 + 23 <= budget

\* _compose_segments: what does not fit is dropped whole, but the label; the
\* rest of the row ends in the signs of life.
Strip(c, w) ==
  LET life == IF c.raising = "liveness" THEN 0 ELSE Lesser(c.life, w)
      budget == w - life - 1
      label == Piece("label", Lesser(SeatLabel(c.seat, budget), budget))
      chips == IF Metered(c, label.len, budget) THEN <<label, Piece("gap", 2), Piece("meter", 23)>> ELSE <<label>>
      gap == w - life - Length(chips)
      band == Band(c, gap - 2)
      placed == IF band > 0 /\ gap >= band + 2
                THEN chips \o <<Piece("gap", gap - band - 1), Piece("band", band)>>
                ELSE chips
  IN IF budget <= 0 \/ c.raising = "strip" THEN <<Piece("life", w)>>
     ELSE Append(placed, Piece("life", w - Length(placed)))

-------------------------------------------------------------------------------
(* The list of loops: the taught ones, then the discovered ones in a window *)

Closed(l) == [l EXCEPT !.open = FALSE, !.index = 0, !.found = 0, !.scroll = 0, !.section = "taught"]
Opened(l) ==
  [Closed(l) EXCEPT !.open = TRUE,
                    !.section = IF l.taught = 0 /\ l.discovered > 0 THEN "discovered" ELSE "taught"]

\* ChainsSession.move, over the end of one section into the other.
Moved(l, delta) ==
  IF l.section = "taught"
  THEN IF l.taught = 0
       THEN [l EXCEPT !.index = 0, !.section = IF l.discovered > 0 THEN "discovered" ELSE "taught"]
       ELSE IF l.index + delta >= l.taught /\ l.discovered > 0
       THEN [l EXCEPT !.section = "discovered", !.found = Lesser(l.discovered - 1, l.index + delta - l.taught)]
       ELSE [l EXCEPT !.index = Greater(0, Lesser(l.taught - 1, l.index + delta))]
  ELSE IF l.discovered = 0 THEN [l EXCEPT !.section = "taught", !.found = 0]
  ELSE IF l.found + delta < 0 /\ l.taught > 0
  THEN [l EXCEPT !.section = "taught", !.index = Greater(0, l.taught + l.found + delta)]
  ELSE [l EXCEPT !.found = Greater(0, Lesser(l.discovered - 1, l.found + delta))]

FollowedLate(l, window) ==
  LET at == IF l.found < l.scroll THEN l.found
            ELSE IF l.found > l.scroll + window THEN l.found - window ELSE l.scroll
  IN IF l.discovered = 0 THEN [l EXCEPT !.scroll = 0]
     ELSE [l EXCEPT !.scroll = Greater(0, Lesser(Greater(0, l.discovered - window), at))]
\* ensure_discovered_visible: the window follows the cursor.
Followed(l, window) ==
  LET at == IF l.found < l.scroll THEN l.found
            ELSE IF l.found >= l.scroll + window THEN l.found - window + 1 ELSE l.scroll
  IN IF l.discovered = 0 THEN [l EXCEPT !.scroll = 0]
     ELSE [l EXCEPT !.scroll = Greater(0, Lesser(Greater(0, l.discovered - window), at))]

\* What is left for the discovered rows beside titles, taught rows and notes.
ListInner(lay) == IF lay.center.h > 2 THEN lay.center.h - 2 ELSE 24
Window(c, lay) == Greater(1, ListInner(lay) - (5 + Greater(1, c.list.taught)))

Row(is, nr, marked) == [is |-> is, nr |-> nr, marked |-> marked]
Note(is) == Row(is, 0, FALSE)
\* format_profit_chain_lines: notes, then the window's rows, pulled back at the end.
FoundRows(l, window, holds) ==
  LET first == Lesser(l.scroll, l.discovered - 1)
      last == Lesser(l.discovered, first + window)
      start == IF last - first < window THEN Greater(0, last - window) ELSE first
      note(name, there) == IF there THEN <<Note(name)>> ELSE <<>>
  IN IF l.discovered = 0 THEN <<Note("title")>> \o note("partial", l.truncated) \o <<Note("nothing")>>
     ELSE <<Note("title")>> \o note("partial", l.truncated) \o note("holds", holds)
            \o note("showing", l.discovered > window)
            \o [i \in 1..(last - start) |->
                  Row("found", start + i - 1, l.section = "discovered" /\ l.found = start + i - 1)]
\* compose_chain_lines
ListRows(l, window, holds) ==
  <<Note("title")>>
    \o (IF l.taught = 0 THEN <<Note("nothing")>>
        ELSE [i \in 1..l.taught |-> Row("taught", i - 1, l.section = "taught" /\ l.index = i - 1)])
    \o <<Note("blank")>> \o FoundRows(l, window, holds)

ListShown(c, window, h) ==
  LET rows == ListRows(Followed(c.list, window), window, Status(c).holds)
  IN IF c.list.open /\ c.raising # "chains" THEN SubSeq(rows, 1, Lesser(Len(rows), h)) ELSE <<>>

-------------------------------------------------------------------------------
(* The gates                                                               *)

\* handle_key: which gate takes a key; and a key nobody wants lowers it, but
\* the form's.
Taker(gates) ==
  CASE "arm" \in gates -> "arm"
    [] "arm" \notin gates /\ "genesis" \in gates -> "genesis"
    [] gates \cap {"arm", "genesis"} = {} /\ "identity" \in gates -> "identity"
    [] gates = {"draft"} -> "draft"
    [] gates = {} -> "none"
Lowered(gates) == gates \ ({Taker(gates)} \ {"identity"})

WithdrawnNever(c) == c.gates
\* A prompt that cannot be composed takes its gate with it; the one of genesis
\* is not composed under an arm confirm.
Withdrawn(c) ==
  c.gates \ (IF c.raising = "genesis" /\ "arm" \in c.gates THEN {} ELSE {c.raising})
\* Those that can be, painted in this order, each over the one before.
PaintedPrompt(c) ==
  LET gates == c.gates \ {c.raising}
  IN CASE "identity" \in gates -> "identity"
       [] "identity" \notin gates /\ "draft" \in gates -> "draft"
       [] gates \cap {"identity", "draft"} = {} /\ "arm" \in gates -> "arm"
       [] gates = {"genesis"} -> "genesis"
       [] gates = {} -> "none"

-------------------------------------------------------------------------------
NoFrame == [is |-> "none"]
TooSmall == [is |-> "message"]
Frame(c, lay) ==
  [is |-> "frame", panels |-> PanelsShown(c, lay), logs |-> LogRows(c, Inner(lay.logs.h)),
   banner |-> Banner(c, lay.intervention), strip |-> Strip(c, lay.control_strip.w),
   list |-> ListShown(c, Window(c, lay), Inner(lay.center.h)), prompt |-> PaintedPrompt(c)]

FrameInit == cockpit \in Scenes /\ drawn = NoFrame

\* draw: on a terminal that is too small a message and nothing else, the gates
\* left as they are.
Draws ==
  /\ drawn = NoFrame
  /\ drawn' = IF Fits(cockpit) THEN Frame(cockpit, LayoutOf(cockpit)) ELSE TooSmall
  /\ cockpit' = IF ~Fits(cockpit) THEN cockpit
                ELSE [cockpit EXCEPT !.gates = Withdrawn(cockpit),
                                     !.list = IF ~cockpit.list.open THEN cockpit.list
                                              ELSE IF cockpit.raising = "chains" THEN Closed(cockpit.list)
                                              ELSE Followed(cockpit.list, Window(cockpit, LayoutOf(cockpit)))]

KeyRead(change) == drawn # NoFrame /\ drawn' = NoFrame /\ cockpit' = change

\* The keys of the list; a key of any gate goes to the gate.
OpensList == ~cockpit.list.open /\ cockpit.gates = {} /\ KeyRead([cockpit EXCEPT !.list = Opened(cockpit.list)])
ClosesList == cockpit.list.open /\ cockpit.gates = {} /\ KeyRead([cockpit EXCEPT !.list = Closed(cockpit.list)])
MovesInList(delta) ==
  cockpit.list.open /\ cockpit.gates = {} /\ KeyRead([cockpit EXCEPT !.list = Moved(cockpit.list, delta)])

\* F, P, C and S.
Flips(t) ==
  /\ cockpit.gates = {}
  /\ KeyRead([cockpit EXCEPT !.off = IF t \in cockpit.off THEN cockpit.off \ {t} ELSE cockpit.off \cup {t}])

\* A gate comes up by a key of its own, the rule form by the y to its draft,
\* and an arm confirm over the form by an O, H or G typed in it.
Raises(gate) ==
  /\ cockpit.gates = {} \/ (gate = "arm" /\ cockpit.gates = {"identity"}) \/ (gate = "identity" /\ cockpit.gates = {"draft"})
  /\ KeyRead([cockpit EXCEPT !.gates = {gate} \cup (cockpit.gates \ {"draft"})])
AnswersGate ==
  /\ cockpit.gates # {}
  /\ KeyRead([cockpit EXCEPT !.gates = @ \ {Taker(@)}])

\* A resize is a key as well.
Resizes(size) == KeyRead([cockpit EXCEPT !.size = size, !.gates = Lowered(@)])

\* No key in time: the next poll's status.
PollBrings(report) == KeyRead([cockpit EXCEPT !.status = report])

FrameNext ==
  \/ Draws \/ OpensList \/ ClosesList \/ MovesInList(1) \/ MovesInList(-1) \/ AnswersGate
  \/ \E t \in Flippable : Flips(t)
  \/ \E gate \in {"arm", "genesis", "draft", "identity"} : Raises(gate)
  \/ \E size \in Shrunk : Resizes(size)
  \/ \E report \in Reports : PollBrings(report)

FrameSpec == FrameInit /\ [][FrameNext]_frameVars

-------------------------------------------------------------------------------
FrameTypeOK ==
  /\ cockpit.gates \subseteq {"arm", "genesis", "draft", "identity"}
  /\ cockpit.list.section \in {"taught", "discovered"} /\ cockpit.list.open \in BOOLEAN
  /\ drawn.is \in {"none", "message", "frame"}

OnScreen == drawn.is = "frame"

\* The gate that the next key answers is the one whose prompt is on the strip,
\* whatever failed to compose: screens.py withdraws what it cannot draw, so that
\* there is no "invisible live gate".  An arm confirm raised from inside the rule
\* form is the exception, the form being painted over it.
GateSeen ==
  OnScreen /\ cockpit.gates # {"arm", "identity"} => drawn.prompt = Taker(cockpit.gates)

\* A halt is announced with every reason and its holder, whatever the terminal.
AlarmShown ==
  OnScreen /\ Halting(cockpit) =>
    /\ drawn.banner # <<>>
    /\ cockpit.raising # "banner" =>
         /\ drawn.banner[1] # {} /\ {r \in ToSet(cockpit.status.reasons) : r # "none"} \subseteq drawn.banner[1]
         /\ drawn.banner[2] = {"HUMAN"} <=> cockpit.status.mode = "human"
         /\ Len(drawn.banner) = 3

\* The row that Enter would arm is on the screen, however the list was moved in
\* and the terminal changed, but when the three notes come together, which the
\* window does not allow for, or the taught rows alone fill the box.
SelectedIsShown ==
  LET l == cockpit.list
      lay == LayoutOf(cockpit)
  IN OnScreen /\ l.open /\ l.taught + 6 <= ListInner(lay)
     /\ ~(l.truncated /\ Status(cockpit).holds /\ l.discovered > Window(cockpit, lay))
     /\ l.taught + l.discovered > 0
     => \E i \in DOMAIN drawn.list :
          /\ drawn.list[i].marked
          /\ drawn.list[i].nr = (IF l.section = "taught" THEN l.index ELSE l.found)

\* The strip's pieces fill its row and no more, and the signs of life are whole
\* and apart from what stands left of them.
StripWhole ==
  OnScreen =>
    LET s == drawn.strip IN
    /\ Len(s) <= 6 /\ Length(s) = LayoutOf(cockpit).control_strip.w
    /\ \A i \in DOMAIN s : s[i].len > 0
    /\ cockpit.raising \notin {"strip", "liveness"} => Last(s).len > cockpit.life

\* The status text is on the screen, and the goals are where there is room
\* for the decisions, in their own box or folded into that one.
TextShown == OnScreen /\ cockpit.text => Len(drawn.logs) = 1 /\ Last(drawn.logs) = "text"
GoalsTold ==
  OnScreen /\ "decisions" \in DOMAIN drawn.panels /\ cockpit.raising # "decisions" =>
    "goals" \in DOMAIN drawn.panels \/ drawn.panels["decisions"] = "folded"

FrameSound ==
  /\ OnScreen => Tiled(cockpit.size[1], cockpit.size[2], Halting(cockpit))
  /\ GateSeen /\ AlarmShown /\ SelectedIsShown /\ StripWhole /\ TextShown /\ GoalsTold
===============================================================================
