------------------------------- MODULE Outfitting -------------------------------
(***************************************************************************)
(* Prices read off the StarDock screens and what the cockpit advises with  *)
(* them.  Every window captures the listings its feed shows, row by row,   *)
(* into the one game_data.json of the world (introspector.py,              *)
(* game_data_capture.py, game_data.py); reads it back into the status      *)
(* (game_data_stats.py), together with the ship's sheet and the best trade *)
(* loop; and from there come the ship to buy (ship_upgrade_decision.py),   *)
(* what to do next (focus_status.py, decisions_status.py,                  *)
(* autonomy_policy.py), whether fighters can be afforded                   *)
(* (priority_engine.py) and the plan of a hold purchase                    *)
(* (stardock_hold_plan.py), which the daemon runs once it is confirmed     *)
(* (session/stardock_hold.py).                                             *)
(*                                                                         *)
(* A screen is a sequence of lines: headers and footers of listings, their *)
(* rows, anything else.  A ship's name is a sequence of words.             *)
(***************************************************************************)
EXTENDS Integers, FiniteSets, SequencesExt

CONSTANTS
  Shells,      \* windows that capture
  YardScreens, \* the screens the game shows, one after the other
  Situations,  \* the rest of a status: vitals, sheet, dock, loop
  Unread,      \* no reading
  LinksForShips, \* MIN_CHAIN_LINKS_FOR_SHIP_UPGRADE
  CashFloor,   \* of a hold purchase
  Stack        \* fighters bought at a time

ASSUME OutfitAssumption ==
  /\ LinksForShips \in Nat /\ CashFloor \in Nat /\ Stack \in Nat \ {0}
  /\ Unread \in Int /\ Unread < 0 /\ Shells # {}
  /\ Len(YardScreens) > 0 /\ YardScreens \in Seq(ToSet(YardScreens))
  /\ \A q \in ToSet(YardScreens) : q \in Seq(ToSet(q))
  /\ \A q \in ToSet(YardScreens) : \A l \in ToSet(q) :
       l.cost \in Int /\ l.holds \in Nat /\ l.warp \in Nat \ {0} /\ l.req \in Int
  /\ \A st \in Situations :
       /\ {st.turns, st.credits, st.empty, st.sheet, st.align, st.margin, st.float} \subseteq Int
       /\ {st.dock, st.links} \subseteq Nat /\ st.loopTurns \in Nat \ {0} /\ st.appetite \in BOOLEAN

VARIABLES
  onYard,     \* the screen the game shows
  watched,    \* per window: the screen its feed brought last
  noted,      \* the screen whose listing it captured last, 0 for none
  toStore,    \* the rows it is about to store
  gameData,   \* the file: per kind its rows, oldest first
  quoted,     \* what a window's status says of the file, and the price of a fighter
  holdPlan,   \* the purchase the operator is asked about
  holdRun,    \* the daemon's purchase
  torn        \* a capture failed between two of its rows

outfitVars == <<onYard, watched, noted, toStore, gameData, quoted, holdPlan, holdRun, torn>>

Kinds == <<"ships", "hold", "scanner", "transwarp", "item">>
NoStore == [screen |-> 0, rows |-> <<>>]
NoPurchase == [dock |-> 0, empty |-> 0, price |-> 0, credits |-> 0, qty |-> 0]
NoRun == [state |-> "none", plan |-> NoPurchase, stop |-> FALSE, outcome |-> "none"]

-------------------------------------------------------------------------------
(* Capture                                                                 *)

\* The elements of a sequence at some of its places, in their order.
Picked(q, places) ==
  [n \in 1..Cardinality(places) |-> q[CHOOSE i \in places : Cardinality({j \in places : j <= i}) = n]]

\* _bracketed_lines: between the last header and its footer; nothing without
\* either.
Marks(q, is, ware) == {i \in DOMAIN q : q[i].is = is /\ q[i].kind = ware}
BracketedOpen(q, ware) ==
  IF Marks(q, "head", ware) = {} THEN <<>>
  ELSE LET head == CHOOSE i \in Marks(q, "head", ware) : \A j \in Marks(q, "head", ware) : j <= i
       IN SubSeq(q, head + 1, Len(q))
Bracketed(q, ware) ==
  LET heads == Marks(q, "head", ware)
      head == CHOOSE i \in heads : \A j \in heads : j <= i
      feet == {i \in Marks(q, "foot", ware) : i > head}
  IN IF heads = {} \/ feet = {} THEN <<>>
     ELSE SubSeq(q, head + 1, (CHOOSE i \in feet : \A j \in feet : i <= j) - 1)

\* parse_shipyard_listing and its kin: the rows; of hold prices the last.
Parsed(q, ware) ==
  LET lines == Bracketed(q, ware)
      rows == {i \in DOMAIN lines : lines[i].is = "row" /\ lines[i].kind = ware}
  IN Picked(lines, IF ware = "hold" THEN {i \in rows : \A j \in rows : j <= i} ELSE rows)
Listing(q) ==
  Parsed(q, "ships") \o Parsed(q, "hold") \o Parsed(q, "scanner") \o Parsed(q, "transwarp") \o Parsed(q, "item")

\* A listing of the yard names a good once; it states a price for a transwarp
\* drive of either type.
ASSUME ListedOnce ==
  \A q \in ToSet(YardScreens) : \A r, t \in ToSet(Listing(q)) :
    r.kind = t.kind /\ r.name = t.name /\ r.kind # "transwarp" => r = t

\* persist_ship_row and its kin: a row takes the place of the one of its name,
\* a hold or transwarp price that of any.
Persisted(data, row) ==
  LET old == data[row.kind]
      others == {i \in DOMAIN old : row.kind \notin {"hold", "transwarp"} /\ old[i].name # row.name}
  IN [data EXCEPT ![row.kind] = Append(Picked(old, others), row)]

OutfitInit ==
  /\ onYard = 1 /\ watched = [w \in Shells |-> 1] /\ noted = [w \in Shells |-> 0]
  /\ toStore = [w \in Shells |-> NoStore]
  /\ gameData = [k \in ToSet(Kinds) |-> <<>>]
  /\ quoted = [read |-> FALSE, ships |-> <<>>, hold |-> Unread, fighter |-> Unread]
  /\ holdPlan = NoPurchase /\ holdRun = NoRun /\ torn = FALSE

YardShows ==
  /\ onYard < Len(YardScreens) /\ onYard' = onYard + 1
  /\ UNCHANGED <<watched, noted, toStore, gameData, quoted, holdPlan, holdRun, torn>>

\* The hub gives every window what is settled on the screen, each at its pace.
FeedBrings(w) ==
  /\ watched[w] # onYard /\ watched' = [watched EXCEPT ![w] = onYard]
  /\ UNCHANGED <<onYard, noted, toStore, gameData, quoted, holdPlan, holdRun, torn>>

\* GameDataCapture._tick: not the listing captured last.  The price of a
\* fighter on the same screen is remembered by the window alone.
SameScreen(s, r) == s # 0 /\ YardScreens[s] = YardScreens[r]
TicksEager(w) ==
  /\ toStore[w] = NoStore /\ Listing(YardScreens[watched[w]]) # <<>> /\ ~SameScreen(noted[w], watched[w])
  /\ toStore' = [toStore EXCEPT ![w] = [screen |-> watched[w], rows |-> Listing(YardScreens[watched[w]])]]
  /\ noted' = [noted EXCEPT ![w] = watched[w]]
  /\ UNCHANGED <<onYard, watched, gameData, quoted, holdPlan, holdRun, torn>>
Ticks(w) ==
  /\ toStore[w] = NoStore /\ Listing(YardScreens[watched[w]]) # <<>> /\ ~SameScreen(noted[w], watched[w])
  /\ toStore' = [toStore EXCEPT ![w] = [screen |-> watched[w], rows |-> Listing(YardScreens[watched[w]])]]
  /\ UNCHANGED <<onYard, watched, noted, gameData, quoted, holdPlan, holdRun, torn>>

\* capture_screen: each row under the file's lock, the file read anew; the
\* listing counts as captured when the last row is stored.
StoresRow(w) ==
  /\ toStore[w] # NoStore
  /\ gameData' = Persisted(gameData, Head(toStore[w].rows))
  /\ IF Len(toStore[w].rows) > 1
     THEN toStore' = [toStore EXCEPT ![w].rows = Tail(@)] /\ UNCHANGED noted
     ELSE /\ toStore' = [toStore EXCEPT ![w] = NoStore]
          /\ noted' = [noted EXCEPT ![w] = toStore[w].screen]
  /\ UNCHANGED <<onYard, watched, quoted, holdPlan, holdRun, torn>>

\* tick swallows what a row raises: the rest is left for the next tick.
StoreFails(w) ==
  /\ toStore[w] # NoStore /\ toStore' = [toStore EXCEPT ![w] = NoStore]
  /\ torn' = (torn \/ toStore[w].rows # Listing(YardScreens[toStore[w].screen]))
  /\ UNCHANGED <<onYard, watched, noted, gameData, quoted, holdPlan, holdRun>>

\* GameDataStats.refresh: nothing while there is no file.
OnFile == \E k \in DOMAIN gameData : gameData[k] # <<>>
Refreshes ==
  /\ OnFile
  /\ quoted' = [quoted EXCEPT !.read = TRUE, !.ships = gameData["ships"],
                              !.hold = IF gameData["hold"] = <<>> THEN Unread ELSE Last(gameData["hold"]).cost]
  /\ quoted' # quoted
  /\ UNCHANGED <<onYard, watched, noted, toStore, gameData, holdPlan, holdRun, torn>>

\* parse_fighter_unit_price: the first price of the screen; 0 is no price.
FighterPrices(q) == Picked(q, {i \in DOMAIN q : q[i].is = "fighters" /\ q[i].cost > 0})
ObservesFighters(w) ==
  /\ FighterPrices(YardScreens[watched[w]]) # <<>>
  /\ quoted' = [quoted EXCEPT !.fighter = Head(FighterPrices(YardScreens[watched[w]])).cost]
  /\ quoted' # quoted
  /\ UNCHANGED <<onYard, watched, noted, toStore, gameData, holdPlan, holdRun, torn>>

-------------------------------------------------------------------------------
(* The ship to buy                                                         *)

\* upgrade_catalog_from_ships: what has a price; alignment keeps a ship from a
\* player whose own is on record.
Commissioned(st, row) == row.req = Unread \/ st.align = Unread \/ st.align >= row.req
ForSale == Picked(quoted.ships, {i \in DOMAIN quoted.ships : quoted.ships[i].cost > 0})

\* _catalog_row_matches_ship_type: the row's words occur in the type in a row.
MatchesType(row, type) == \E i \in 0..(Len(type) - Len(row.name)) : SubSeq(type, i + 1, i + Len(row.name)) = row.name
OwnRows(st) == Picked(quoted.ships, {i \in DOMAIN quoted.ships : MatchesType(quoted.ships[i], st.type)})

\* upgrade_player_from_status: holds off the sheet, or off the catalogue's row.
HoldsNow(st) ==
  IF st.sheet # Unread THEN st.sheet
  ELSE IF OwnRows(st) # <<>> THEN Head(OwnRows(st)).holds ELSE Unread
PlayerKnown(st) == st.turns # Unread /\ st.type # <<>> /\ HoldsNow(st) # Unread

\* upgrade_loop_from_chain: a short loop feeds no more holds than there are.
LoopKnown(st) == st.links > 0 /\ st.margin > 0
Stock(st) ==
  LET most == {HoldsNow(st), 1} \cup {r.holds : r \in ToSet(ForSale)}
  IN IF st.links < LinksForShips THEN HoldsNow(st) ELSE CHOOSE h \in most : \A k \in most : k <= h

\* payback_turns against the turns left, over the positive gain per turn; the
\* ship now flown is taken to be as fast as the one on sale.
FillPrice == IF quoted.hold = Unread THEN 0 ELSE quoted.hold
Extra(st, s) == s.holds - HoldsNow(st)
OutlayBare(st, s) == s.cost
Outlay(st, s) == s.cost + Extra(st, s) * FillPrice
PaysBack(st, s) == Extra(st, s) > 0 /\ Outlay(st, s) * st.loopTurns * s.warp <= st.turns * Extra(st, s) * st.margin

\* evaluate_candidate: one gate after the other.
Refusal(st, s) ==
  CASE ~Commissioned(st, s) -> "alignment_rank"
    [] Commissioned(st, s) /\ s.holds > Stock(st) -> "needs_chains"
    [] Commissioned(st, s) /\ s.holds <= Stock(st) /\ Extra(st, s) <= 0 -> "no_gain"
    [] Commissioned(st, s) /\ s.holds <= Stock(st) /\ Extra(st, s) > 0 /\ ~PaysBack(st, s) -> "roi_vs_budget"
    [] OTHER -> "none"

\* choose_upgrade: the most holds a turn, the first of equals; without one the
\* first of the weightiest reasons.
Carries(s, t) == s.holds * t.warp > t.holds * s.warp
AdviceKnown(st) == ForSale # <<>> /\ PlayerKnown(st) /\ LoopKnown(st)
WorthBuying(st) == Picked(ForSale, {i \in DOMAIN ForSale : Refusal(st, ForSale[i]) = "none"})
BestShip(st) == CHOOSE i \in DOMAIN WorthBuying(st) :
              /\ \A j \in DOMAIN WorthBuying(st) : ~Carries(WorthBuying(st)[j], WorthBuying(st)[i])
              /\ \A j \in 1..(i - 1) : Carries(WorthBuying(st)[i], WorthBuying(st)[j])
Reasons == <<"roi_vs_budget", "needs_chains", "alignment_rank", "no_gain">>
HoldReason(st) == Reasons[CHOOSE k \in DOMAIN Reasons :
                /\ \E s \in ToSet(ForSale) : Refusal(st, s) = Reasons[k]
                /\ \A j \in 1..(k - 1) : \A s \in ToSet(ForSale) : Refusal(st, s) # Reasons[j]]
Advice(st) ==
  IF ~AdviceKnown(st) THEN [verdict |-> "unknown", ship |-> <<>>]
  ELSE IF WorthBuying(st) = <<>> THEN [verdict |-> HoldReason(st), ship |-> <<>>]
  ELSE [verdict |-> "buy", ship |-> WorthBuying(st)[BestShip(st)].name]

-------------------------------------------------------------------------------
(* What to do next                                                         *)

DockKnown(st) == st.dock # 0
VitalsKnown(st) == st.turns # Unread /\ st.credits # Unread
ShipPricesMet == ForSale # <<>>
HoldPriceMet == quoted.hold # Unread
Executable(st) == st.links >= 2

\* recommend_focus_candidates: what is unknown weighs on exploring and gates
\* the upgrade; beside a loop the upgrade stays gated, as nobody states its gain.
Weight(st) ==
  LET gap == CASE ~VitalsKnown(st) -> 100
               [] VitalsKnown(st) /\ DockKnown(st) /\ ~ShipPricesMet -> 80
               [] VitalsKnown(st) /\ DockKnown(st) /\ ShipPricesMet /\ ~HoldPriceMet -> 75
               [] OTHER -> 0
  IN IF st.appetite /\ gap < 70 THEN 70 ELSE gap
UpgradeGated(st) ==
  \/ ~VitalsKnown(st) \/ ~ShipPricesMet \/ ~HoldPriceMet \/ st.empty = Unread
  \/ Executable(st)
Candidate(does, gated, weight, ev) == [kind |-> does, gated |-> gated, weight |-> weight, ev |-> ev]
\* A loop earns more than the baseline, the baseline more than an upgrade whose
\* gain is unknown.
ExploreNeeded(st) == ~Executable(st) \/ ~DockKnown(st) \/ Weight(st) > 0
Candidates(st) ==
  (IF Executable(st) THEN <<Candidate("run_chain", FALSE, 0, 2)>> ELSE <<>>)
  \o (IF ExploreNeeded(st) THEN <<Candidate("explore", FALSE, Weight(st), 1)>> ELSE <<>>)
  \o (IF DockKnown(st) THEN <<Candidate("upgrade", UpgradeGated(st), 0, 0)>> ELSE <<>>)

\* _rank_candidates, stable.
Ahead(c, d) ==
  \/ ~c.gated /\ d.gated
  \/ ~c.gated /\ ~d.gated /\ c.weight > d.weight
  \/ ~c.gated /\ ~d.gated /\ c.weight = d.weight /\ c.ev > d.ev
RankedCandidates(st) ==
  LET all == Candidates(st)
      first(i, j) == Ahead(all[i], all[j]) \/ (~Ahead(all[j], all[i]) /\ i < j)
      place(i) == Cardinality({j \in DOMAIN all : j = i \/ first(j, i)})
  IN [n \in DOMAIN all |-> all[CHOOSE i \in DOMAIN all : place(i) = n]]

\* build_autopilot_trace stars the first that is not gated; choose_offer is
\* what O asks about.
UngatedCandidates(st) ==
  LET ranked == RankedCandidates(st)
  IN Picked(ranked, {i \in DOMAIN ranked : ~ranked[i].gated})
Starred(st) == IF UngatedCandidates(st) = <<>> THEN "none" ELSE Head(UngatedCandidates(st)).kind
OfferDockFirst(st) == IF ~DockKnown(st) THEN "explore" ELSE Starred(st)
Offer(st) ==
  IF ~DockKnown(st) /\ \A c \in ToSet(UngatedCandidates(st)) : c.kind # "run_chain" THEN "explore"
  ELSE IF UngatedCandidates(st) # <<>> THEN Head(UngatedCandidates(st)).kind
  ELSE IF RankedCandidates(st) # <<>> THEN Head(RankedCandidates(st)).kind ELSE "idle"

\* afford_fighters: a stack out of what the float leaves, holds first.
FightersAdvice(st) ==
  LET free == st.credits - st.float
  IN CASE st.credits = Unread \/ quoted.fighter = Unread -> "price_unknown"
       [] st.credits # Unread /\ quoted.fighter # Unread /\ free < 0 -> "keep_trade_float"
       [] quoted.fighter # Unread /\ free >= 0 /\ free < quoted.fighter * Stack -> "insufficient_credits"
       [] quoted.fighter # Unread /\ free >= quoted.fighter * Stack /\ quoted.hold > 0 /\ quoted.hold <= free -> "upgrade_holds"
       [] OTHER -> "buy_fighters"

-------------------------------------------------------------------------------
(* Buying a hold                                                           *)

\* plan_from_evidence, by the cockpit and again by the daemon.
PlanSound(p) == p.dock > 0 /\ p.price > 0 /\ p.qty > 0 /\ p.qty <= p.empty /\ p.price * p.qty <= p.credits
PlanNow(st) == [dock |-> st.dock, empty |-> st.empty, price |-> quoted.hold,
            credits |-> st.credits, qty |-> 1]

\* H: asked about when the plan is complete and the cash is at the floor.
AsksHold(st) ==
  /\ holdPlan = NoPurchase /\ PlanSound(PlanNow(st)) /\ PlanNow(st).credits >= CashFloor
  /\ holdPlan' = PlanNow(st)
  /\ UNCHANGED <<onYard, watched, noted, toStore, gameData, quoted, holdRun, torn>>

\* y or anything else; the daemon refuses while it buys.
HoldGranted == IF holdRun.state # "running" /\ PlanSound(holdPlan) THEN {[NoRun EXCEPT !.state = "running", !.plan = holdPlan]} ELSE {}
AnswersHold ==
  /\ holdPlan # NoPurchase /\ holdPlan' = NoPurchase
  /\ holdRun' \in {holdRun} \cup HoldGranted
  /\ UNCHANGED <<onYard, watched, noted, toStore, gameData, quoted, torn>>

StopsHold ==
  /\ holdRun.state = "running" /\ ~holdRun.stop /\ holdRun' = [holdRun EXCEPT !.stop = TRUE]
  /\ UNCHANGED <<onYard, watched, noted, toStore, gameData, quoted, holdPlan, torn>>

\* run_hold_purchase: the session has none of the three methods the driver asks
\* for a screen, so it reads nothing, finds no range and sends nothing.
HoldOutcome == IF holdRun.stop THEN "halted" ELSE "refused"
RunsHold ==
  /\ holdRun.state = "running" /\ holdRun' = [NoRun EXCEPT !.state = "ended", !.outcome = HoldOutcome]
  /\ UNCHANGED <<onYard, watched, noted, toStore, gameData, quoted, holdPlan, torn>>

OutfitNext ==
  \/ YardShows
  \/ \E w \in Shells : FeedBrings(w) \/ Ticks(w) \/ StoresRow(w) \/ StoreFails(w) \/ ObservesFighters(w)
  \/ Refreshes \/ (\E st \in Situations : AsksHold(st))
  \/ AnswersHold \/ StopsHold \/ RunsHold

OutfitSpec == OutfitInit /\ [][OutfitNext]_outfitVars

-------------------------------------------------------------------------------
OutfitTypeOK ==
  /\ onYard \in DOMAIN YardScreens /\ watched \in [Shells -> DOMAIN YardScreens]
  /\ noted \in [Shells -> 0..Len(YardScreens)]
  /\ \A w \in Shells : (toStore[w].screen = 0) <=> (toStore[w].rows = <<>>)
  /\ DOMAIN gameData = ToSet(Kinds) /\ quoted.read \in BOOLEAN
  /\ holdRun.state \in {"none", "running", "ended"}

\* When every window has captured the listing shown now, whatever each wrote
\* before or later, the file says of each of its goods what it says; and no good
\* is on file twice or from a listing that was not finished.  (A capture that
\* fails between two rows leaves the window sure of the listing before it.)
LatestListed ==
  ~torn /\ (\A w \in Shells : SameScreen(noted[w], onYard) /\ toStore[w] = NoStore) =>
    \A r \in ToSet(Listing(YardScreens[onYard])) : r.kind # "transwarp" => r \in ToSet(gameData[r.kind])
FileSound ==
  \A k \in ToSet(Kinds) :
    /\ \A i, j \in DOMAIN gameData[k] : i # j => gameData[k][i].name # gameData[k][j].name
    /\ \A r \in ToSet(gameData[k]) : \E s \in DOMAIN YardScreens : \E i \in DOMAIN YardScreens[s] :
         YardScreens[s][i] = r /\ \E j \in Marks(YardScreens[s], "foot", k) : i < j

\* A ship that is advised pays: trading till the turns are gone leaves no fewer
\* credits than with the present holds, what it costs to fill it counted, and no
\* ship that would pay as well carries more.  Only then is none advised.
Earns(st, holds) == holds * st.margin * st.turns
WouldPay(st, s) ==
  /\ Commissioned(st, s) /\ s.holds > HoldsNow(st) /\ s.holds <= Stock(st)
  /\ Earns(st, s.holds) - (s.cost + (s.holds - HoldsNow(st)) * FillPrice) * st.loopTurns * s.warp >= Earns(st, HoldsNow(st))
AdvicePays ==
  \A st \in Situations : AdviceKnown(st) =>
    IF Advice(st).verdict = "buy"
    THEN \E s \in ToSet(ForSale) : s.name = Advice(st).ship /\ WouldPay(st, s)
                                   /\ \A t \in ToSet(ForSale) : WouldPay(st, t) => ~Carries(t, s)
    ELSE \A s \in ToSet(ForSale) : ~WouldPay(st, s)

\* What O asks about is what the cockpit stars, and while a loop can be run
\* nothing but a gap in what is known comes before it.
OfferIsStarred ==
  \A st \in Situations : /\ Offer(st) = Starred(st)
                         /\ Executable(st) /\ Weight(st) = 0 => Offer(st) = "run_chain"

\* Fighters are advised only out of what the float and the next hold leave.
FightersLast ==
  \A st \in Situations : FightersAdvice(st) = "buy_fighters" =>
    /\ st.credits - quoted.fighter * Stack >= st.float
    /\ quoted.hold > 0 => st.credits - quoted.hold < st.float

\* A purchase that is asked about or under way takes no more than there was
\* room and cash for when it was asked about.
PurchaseCovered ==
  \A p \in {holdPlan, holdRun.plan} : p # NoPurchase => p.qty * p.price <= p.credits /\ p.qty <= p.empty

\* What the yard's prices are turned into.
OutfitSound == LatestListed /\ FileSound /\ AdvicePays /\ OfferIsStarred /\ FightersLast /\ PurchaseCovered
===============================================================================
