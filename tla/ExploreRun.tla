------------------------------ MODULE ExploreRun ------------------------------
(***************************************************************************)
(* One explore run (session/sector_explore.py) with its planner            *)
(* (explore.py) on a small galaxy of one- and two-way warps: the run       *)
(* settles, reads the screen, records the sector, surveys its port, asks   *)
(* the planner for one hop and sends it; what the hop brings up - a warp   *)
(* still in progress, a confirm, a sector to be avoided, fighters, a       *)
(* screen nothing may answer - is dealt with at the next look.  The game   *)
(* answers within the settle budget.  Sector 0 is no sector.               *)
(***************************************************************************)
EXTENDS Naturals, Sequences, FiniteSets, SequencesExt

CONSTANTS
  Galaxy,    \* the sectors of the galaxy
  Galaxies,   \* the sets of warps it may have: functions from sector to sectors
  Recorded,   \* what earlier runs may have recorded
  PortSectors,\* the sectors with a port
  StarDocks,      \* the sectors StarDock may be known in
  Intents,    \* the intents a caller may ask for
  Turns,      \* turn budgets
  HopTurns,   \* the turns a warp costs this ship
  Depth,      \* exhaust_depth of a chain hunt
  FightLimit  \* FIGHT_MAX_CHAIN_STEPS

ASSUME ExploreAssumption ==
  /\ Galaxy \subseteq Nat \ {0} /\ IsFiniteSet(Galaxy)
  /\ Galaxies \subseteq [Galaxy -> SUBSET Galaxy]
  /\ Recorded \subseteq SUBSET Galaxy
  /\ PortSectors \subseteq Galaxy /\ StarDocks \subseteq Galaxy
  /\ Intents \subseteq {"map_fill", "find_stardock", "chain_hunt"}
  /\ Turns \subseteq Nat /\ HopTurns \in Nat \ {0} /\ Depth \in Nat \ {0} /\ FightLimit \in Nat

VARIABLES
  warps,     \* the game: the galaxy's warps
  place,      \* the game: where the ship is
  view,    \* the game: what it shows
  spent,     \* the game: turns the run's hops and docks have cost
  known,     \* world model: sectors recorded with their warps
  surveyed,  \* world model: ports whose commodities are recorded
  docks,     \* world model: sectors with StarDock's landmark
  sail,      \* where the run is
  intent, minimum, dockNew, fightTolls,  \* what start() accepted
  asked, left, \* the turn budget of the order, and what is left of it
  distinct,  \* sectors this run stood in
  pending,   \* pending_hop_target, 0 without pending_intentional_hop
  denied,    \* denied_sectors
  fights,    \* fight_steps; the last fight's text is on screen again
  chain,     \* _chain_state
  posture,   \* posture_done and seeking_dealer: open, seeking, done
  reconnecting, \* the guardian's flag; one burst at most
  reason     \* of the report

galaxyVars == <<place, view, spent, known, surveyed>>
exploreOrderVars == <<warps, docks, intent, minimum, dockNew, fightTolls, asked>>
exploreRunVars == <<left, distinct, pending, denied, fights, chain, posture>>
exploreVars == <<warps, place, view, spent, known, surveyed, docks, sail, intent, minimum, dockNew,
                 fightTolls, asked, left, distinct, pending, denied, fights, chain, posture, reconnecting, reason>>

-------------------------------------------------------------------------------
\* The known graph: only recorded sectors have warps.  Ball(g)[n] is where a
\* path of at most n known warps leads to g.
Ball(g) ==
  LET B[n \in 0..Cardinality(Galaxy)] ==
        IF n = 0 THEN {g} \cap known
        ELSE B[n - 1] \cup {s \in known : warps[s] \cap B[n - 1] # {}}
  IN B
Reaches(s, g) == s = g \/ s \in Ball(g)[Cardinality(Galaxy)]
HopCount(s, g) == CHOOSE n \in 0..Cardinality(Galaxy) :
                    s \in Ball(g)[n] /\ \A m \in 0..(n - 1) : s \notin Ball(g)[m]

\* path_to_sector's second sector: a known neighbour one hop nearer.
Toward(s, g) ==
  IF s = g \/ ~Reaches(s, g) THEN {}
  ELSE {v \in warps[s] \cap known : Reaches(v, g) /\ HopCount(v, g) < HopCount(s, g)}

Unmapped(s) == IF s \in known THEN (warps[s] \ known) \ denied ELSE {}
Frontier(s) == {e \in known \X (Galaxy \ known) : Reaches(s, e[1]) /\ e[2] \in Unmapped(e[1])}

\* route_hazard_for_hop: a known one-way stops the run.
OneWay(s, v) == v \in known /\ s \notin warps[v]

\* A plan: the hop, or none and why; and the chain hunt's next state.
Plan(next, why, state) == [next |-> next, why |-> why, chain |-> state]
Hop(s, v, state) == IF OneWay(s, v) THEN Plan(0, "route_hazard", state) ELSE Plan(v, "hop", state)
NoChain == [anc |-> <<>>, anchor |-> 0, visiting |-> 0, back |-> 0]
Smallest(S) == {v \in S : \A w \in S : v <= w}

\* plan_exhausted_recovery: the nearest known StarDock, then the densest
\* sector within reach, the smallest of equals.
NearestDocks(s) ==
  LET near == {d \in docks : Reaches(s, d)}
  IN {d \in near : \A e \in near : HopCount(s, d) <= HopCount(s, e)}
Densest(s) ==
  LET near == {v \in known : Reaches(s, v)}
  IN CHOOSE v \in near : \A w \in near \ {v} :
       \/ Cardinality(warps[w]) < Cardinality(warps[v])
       \/ Cardinality(warps[w]) = Cardinality(warps[v]) /\ v < w
RecoveryHops(s) ==
  LET toDock == UNION {Toward(s, d) : d \in NearestDocks(s)}
  IN IF toDock # {} THEN toDock ELSE Toward(s, Densest(s))

\* map_fill_warp_target: toward any edge of the frontier - the random choice
\* may fall on each - and without one, the recovery.
EdgeHopsHere(s) == {e[2] : e \in {f \in Frontier(s) : f[1] = s}}
EdgeHops(s) == UNION {IF e[1] = s THEN {e[2]} ELSE Toward(s, e[1]) : e \in Frontier(s)}
MapFill(s, state) ==
  IF EdgeHops(s) # {} THEN {Hop(s, v, state) : v \in EdgeHops(s)}
  ELSE IF RecoveryHops(s) # {} THEN {Hop(s, v, state) : v \in RecoveryHops(s)}
  ELSE {Plan(0, "exhausted", state)}

\* plan_find_stardock: the shortest way to a known StarDock, else the hunt.
FindStarDock(s) ==
  IF s \in docks THEN {Plan(0, "arrived", chain)}
  ELSE IF NearestDocks(s) # {}
  THEN {Hop(s, v, chain) : v \in UNION {Toward(s, d) : d \in NearestDocks(s)}}
  ELSE IF docks = {} /\ EdgeHops(s) # {} THEN {Hop(s, v, chain) : v \in EdgeHops(s)}
  ELSE IF RecoveryHops(s) # {} THEN {Hop(s, v, chain) : v \in RecoveryHops(s)}
  ELSE {Plan(0, "exhausted", chain)}

LastResort(s, st) == IF st.anc # <<>> THEN {Plan(0, "ancestor_open", st)} ELSE MapFill(s, st)

\* _hop_toward_sector: also a first visit to a neighbour not yet recorded.
TowardNode(s, g) == IF g \notin known /\ s \in known /\ g \in warps[s] THEN {g} ELSE Toward(s, g)
Heads(s, g, st, lost) ==
  IF TowardNode(s, g) # {} THEN {Hop(s, v, st) : v \in TowardNode(s, g)} ELSE lost

\* The siblings of the anchor, then of its ancestors, the deepest first.
UpTo(st, i) == [anc |-> SubSeq(st.anc, 1, i - 1), anchor |-> st.anc[i], visiting |-> 0, back |-> 0]
AtAnchor(s, st) ==
  LET mine == Unmapped(st.anchor)
      open == {i \in 1..Len(st.anc) : Unmapped(st.anc[i]) # {}}
  IN IF mine # {}
     THEN {Hop(s, v, [st EXCEPT !.visiting = v, !.back = 0]) : v \in Smallest(mine)}
     ELSE IF open # {}
     THEN UNION {Heads(s, st.anc[i], UpTo(st, i), {Plan(0, "backtrack_unreachable", UpTo(st, i))}) :
                   i \in {i \in open : \A j \in open : j <= i}}
     ELSE LastResort(s, NoChain)

Anchored(s, st) ==
  IF s = st.anchor THEN AtAnchor(s, st)
  ELSE Heads(s, st.anchor, st,
             IF st.anc # <<>>
             THEN Heads(s, st.anc[Len(st.anc)], UpTo(st, Len(st.anc)), LastResort(s, st))
             ELSE LastResort(s, st))

\* The nearest port with siblings to visit becomes the first anchor.
SeekAnchor(s) ==
  LET seeds == {p \in known \cap PortSectors : Unmapped(p) # {} /\ Reaches(s, p)}
      near == {p \in seeds : \A q \in seeds : HopCount(s, p) <= HopCount(s, q)}
  IN IF s \in PortSectors THEN AtAnchor(s, [NoChain EXCEPT !.anchor = s])
     ELSE IF near = {} THEN LastResort(s, NoChain)
     ELSE UNION {Heads(s, p, [NoChain EXCEPT !.anchor = p], LastResort(s, NoChain)) : p \in Smallest(near)}

\* A sibling that is a port becomes the next anchor, down to max_depth.
Deeper(s, st) == s \in PortSectors /\ Len(st.anc) + 1 < Depth

\* plan_chain_hunt: a return first, then what a visited sibling turned out to
\* be, then the anchor.
ChainHunt(s) ==
  LET st == IF chain.back = s THEN [chain EXCEPT !.visiting = 0, !.back = 0] ELSE chain
      home == [st EXCEPT !.visiting = 0, !.back = st.anchor]
      deeper == [anc |-> Append(st.anc, st.anchor), anchor |-> s, visiting |-> 0, back |-> 0]
  IN IF st.back # 0 THEN Heads(s, st.back, st, {Plan(0, "return_unreachable", st)})
     ELSE IF st.anchor # 0 /\ st.visiting = s /\ s # st.anchor
     THEN IF Deeper(s, st)
          THEN Anchored(s, deeper)
          ELSE Heads(s, st.anchor, home, {Plan(0, "return_unreachable", home)})
     ELSE IF st.anchor = 0 THEN SeekAnchor(s)
     ELSE Anchored(s, st)
-------------------------------------------------------------------------------
ExploreInit ==
  /\ warps \in Galaxies /\ place = 0 /\ view = "main" /\ spent = 0
  /\ known = {} /\ surveyed = {} /\ docks = {} /\ sail = "idle"
  /\ intent = "map_fill" /\ minimum = 0 /\ dockNew = FALSE /\ fightTolls = FALSE
  /\ asked = 0 /\ left = 0 /\ distinct = {} /\ pending = 0 /\ denied = {}
  /\ fights = [steps |-> 0, same |-> FALSE] /\ chain = NoChain /\ posture = "done"
  /\ reconnecting = "never"
  /\ reason = "none"

\* start: the order, on whatever part of the galaxy earlier runs recorded.
ExploreStarts(kind, n) ==
  /\ sail = "idle"
  /\ place' \in Galaxy /\ known' \in Recorded /\ docks' \in SUBSET (StarDocks \cap known')
  /\ intent' = kind /\ asked' = n /\ left' = n 
  /\ minimum' \in (IF kind = "map_fill" THEN {0, 2} ELSE {0})
  /\ dockNew' \in BOOLEAN /\ fightTolls' = ~dockNew'
  /\ posture' = (IF kind = "map_fill" THEN "open" ELSE "done")
  /\ sail' = "look"
  /\ UNCHANGED <<warps, view, spent, surveyed, distinct, pending, denied, fights, chain, reconnecting, reason>>

Finishes(why) ==
  /\ sail' = "over" /\ reason' = why
  /\ UNCHANGED <<exploreOrderVars, exploreRunVars, reconnecting>>

\* What the game makes of a hop to v, and of a yes to its confirm.
Moves(v) == place' = v /\ spent' = spent + HopTurns /\ view' \in {"main", "display", "fighters"}
Stays == UNCHANGED <<place, spent>>

\* The loop's head with the stop event set, at whatever time, and an exception
\* anywhere: both are reported as a crash.
StopSeen == sail = "look" /\ Finishes("driver_error") /\ UNCHANGED galaxyVars
RunRaises == sail \in {"look", "plan"} /\ Finishes("driver_error") /\ UNCHANGED galaxyVars
SettleFails == sail = "look" /\ Finishes("settle_failed") /\ UNCHANGED galaxyVars

\* A confirm for a hop of this run: yes, or no to a sector to be avoided.
AnswersConfirm ==
  /\ sail = "look" /\ view \in {"confirm", "avoid"} /\ pending # 0
  /\ pending' = 0
  /\ IF view = "avoid" THEN Stays /\ view' = "main" ELSE Moves(pending)
  /\ \/ sail' = "over" /\ reason' = "confirm_failed" /\ UNCHANGED denied
     \/ /\ UNCHANGED <<sail, reason>>
        /\ denied' = IF view = "avoid" THEN denied \cup {pending} ELSE denied
  /\ UNCHANGED <<exploreOrderVars, known, surveyed, left, distinct, fights, chain, posture, reconnecting>>

\* encounter_steps, and whether the encounter's screen is the one before.
FoughtUncounted(same) == [steps |-> fights.steps, same |-> same]
Fought(same) == [steps |-> fights.steps + 1, same |-> same]

\* Fighters, with fight_tolls: one key of the policy's, unless the screen is
\* the one it was sent to or the encounter has gone on too long.
Fights ==
  /\ sail = "look" /\ view = "fighters" /\ fightTolls
  /\ \/ (fights.same \/ fights.steps >= FightLimit) /\ Finishes("fight_limit") /\ UNCHANGED galaxyVars
     \/ ~fights.same /\ fights.steps < FightLimit /\ Finishes("policy_stop") /\ UNCHANGED galaxyVars
     \/ /\ ~fights.same /\ fights.steps < FightLimit
        /\ place' \in {place} \cup {s \in known : place \in warps[s]}
        /\ view' \in {"fighters", "main", "other"}
        /\ \E same \in BOOLEAN : fights' = Fought(same)
        /\ \/ sail' = "over" /\ reason' = "confirm_failed"
           \/ UNCHANGED <<sail, reason>>
        /\ UNCHANGED <<exploreOrderVars, spent, known, surveyed, left, distinct, pending, denied, chain,
                       posture, reconnecting>>

\* Any other screen ends the run, unless the guardian is logging in again and
\* is done within the wait.
Undrivable ==
  /\ sail = "look"
  /\ \/ view = "other"
     \/ view = "fighters" /\ ~fightTolls
     \/ pending = 0 /\ view \in {"display", "confirm", "avoid"}
WaitsForLogin ==
  /\ Undrivable /\ reconnecting = "now"
  /\ reconnecting' = "past" /\ view' \in {"main", "other"} /\ place' \in known \cup {place}
  /\ UNCHANGED <<spent, known, surveyed, sail, exploreOrderVars, exploreRunVars, reason>>
Declares == Undrivable /\ Finishes("not_drivable") /\ UNCHANGED galaxyVars

\* A sector's own prompt: it is recorded with the warps on the screen.
Records ==
  /\ sail = "look" /\ view = "main"
  /\ \/ Finishes("sector_unreadable") /\ UNCHANGED galaxyVars
     \/ /\ known' = known \cup {place} /\ distinct' = distinct \cup {place}
        /\ fights' = [steps |-> 0, same |-> FALSE] /\ pending' = 0 /\ sail' = "plan"
        /\ UNCHANGED <<exploreOrderVars, place, view, spent, surveyed, left, denied, chain, posture, reconnecting, reason>>

\* A dock is charged to the budget once its second key is out.
DockFree(keys) == left
DockCharged(keys) == IF keys = 1 THEN left ELSE left - 1

\* _dock_and_ingest: P, T, the report, and zeros up to the prompt.  A port
\* that skips its menu docks at P, and the run halts on it.
NeedsDock == dockNew /\ left > 0 /\ place \in PortSectors \ surveyed
DocksPort ==
  /\ sail = "plan" /\ NeedsDock
  /\ \E keys \in 1..2, turn \in {0, 1} :
       /\ spent' = spent + turn
       /\ left' = DockCharged(keys)
       /\ keys > 1 => turn = 1
       /\ \/ sail' = "over" /\ reason' = "dock_halt" /\ view' \in {"main", "other"} /\ surveyed' \in {surveyed, surveyed \cup {place}}
          \/ keys > 1 /\ surveyed' = surveyed \cup {place} /\ UNCHANGED <<sail, reason, view>>
  /\ UNCHANGED <<exploreOrderVars, place, known, distinct, pending, denied, fights, chain, posture, reconnecting>>

\* The goal, the budget, and the detour to the dealer before a map fill.
Done == intent = "map_fill" /\ minimum > 0 /\ Cardinality(distinct) >= minimum
GoalMet == sail = "plan" /\ ~NeedsDock /\ Done /\ Finishes("completed") /\ UNCHANGED galaxyVars
BudgetSpent == sail = "plan" /\ ~NeedsDock /\ ~Done /\ left <= 0 /\ Finishes("turn_budget") /\ UNCHANGED galaxyVars
Planning == sail = "plan" /\ ~NeedsDock /\ ~Done /\ left > 0

\* decide_defensive_posture: seeking needs a dealer within the turns left.
DealerNear == \E d \in NearestDocks(place) : HopCount(place, d) <= left
DecidesPosture ==
  /\ Planning /\ posture = "open"
  /\ \/ posture' = "done" /\ UNCHANGED <<sail, reason>>
     \/ /\ DealerNear
        /\ IF place \in docks THEN sail' = "over" /\ reason' = "defensive_posture" /\ UNCHANGED posture
                             ELSE posture' = "seeking" /\ UNCHANGED <<sail, reason>>
  /\ UNCHANGED <<exploreOrderVars, galaxyVars, left, distinct, pending, denied, fights, chain, reconnecting>>

Plans ==
  IF posture = "seeking" \/ intent = "find_stardock" THEN FindStarDock(place)
  ELSE IF intent = "chain_hunt" THEN ChainHunt(place) ELSE MapFill(place, chain)

\* One tick of the planner: the goal, a dealer out of reach, a dead end.
Lands ==
  /\ Planning /\ posture # "open"
  /\ \E p \in Plans :
       /\ p.next = 0
       /\ IF posture = "seeking" /\ p.why # "arrived"
          THEN posture' = "done" /\ sail' = "look" /\ UNCHANGED <<reason, chain>>
          ELSE sail' = "over" /\ reason' = p.why /\ chain' = p.chain /\ UNCHANGED posture
  /\ UNCHANGED <<exploreOrderVars, galaxyVars, left, distinct, pending, denied, fights, reconnecting>>

\* The hop: counted, charged to the budget, and pending until it resolves;
\* the posture is asked again at the next sector.
Departs ==
  /\ Planning /\ posture # "open"
  /\ \E p \in Plans :
       /\ p.next # 0 /\ chain' = p.chain /\ pending' = p.next
       /\ \/ Moves(p.next)
          \/ Stays /\ view' \in {"confirm", "avoid", "main", "other"}
  /\ left' = left - 1 /\ sail' = "look"
  /\ posture' = (IF posture = "seeking" THEN "open" ELSE posture)
  /\ UNCHANGED <<exploreOrderVars, known, surveyed, distinct, denied, fights, reconnecting, reason>>

\* A warp in progress comes to its prompt, or to fighters.
WarpEnds ==
  /\ view = "display" /\ sail # "over" /\ view' \in {"main", "fighters"}
  /\ UNCHANGED <<place, spent, known, surveyed, sail, exploreOrderVars, exploreRunVars, reconnecting, reason>>

LoginBursts ==
  /\ sail \in {"look", "plan"} /\ view = "other" /\ reconnecting = "never" /\ reconnecting' = "now"
  /\ UNCHANGED <<galaxyVars, sail, exploreOrderVars, exploreRunVars, reason>>

ExploreStep ==
  \/ StopSeen \/ RunRaises \/ SettleFails \/ AnswersConfirm \/ Fights \/ WaitsForLogin \/ Declares
  \/ Records \/ DocksPort \/ GoalMet \/ BudgetSpent \/ DecidesPosture \/ Lands \/ Departs

ExploreNext ==
  \/ \E kind \in Intents, n \in Turns : ExploreStarts(kind, n)
  \/ ExploreStep \/ WarpEnds \/ LoginBursts

ExploreSpec == ExploreInit /\ [][ExploreNext]_exploreVars

ExploreFairness == WF_exploreVars(ExploreStep) /\ WF_exploreVars(WarpEnds)

-------------------------------------------------------------------------------
ExploreTypeOK ==
  /\ place \in Galaxy \cup {0} /\ known \subseteq Galaxy /\ surveyed \subseteq PortSectors
  /\ view \in {"main", "display", "confirm", "avoid", "fighters", "other"}
  /\ sail \in {"idle", "look", "plan", "over"}
  /\ left \in 0..asked /\ pending \in Galaxy \cup {0} /\ denied \subseteq Galaxy
  /\ fights.steps \in 0..FightLimit /\ posture \in {"open", "seeking", "done"}
  /\ chain.anchor \in Galaxy \cup {0} /\ chain.visiting \in Galaxy \cup {0}

\* An order of n turns sends the ship on n warps and docks together at most,
\* whatever confirms, refusals, declined hops and fights come between: it costs
\* n times the turns of one warp, and the n turns themselves only in a ship
\* that warps on one (turns in _run, which takes one off for either).
TurnsWithinBudget == spent <= asked * HopTurns

\* A map fill or chain hunt that says the galaxy is exhausted has recorded
\* every sector the ship can still get to, unless one was declined.  It is not
\* so of find_stardock: with a StarDock on record and no known way to it the
\* run gives up without a look at the frontier.
ExhaustedMeansMapped ==
  reason = "exhausted" /\ denied = {} /\ intent # "find_stardock" => \A s \in known : Reaches(place, s) => warps[s] \subseteq known

\* The chain hunt's anchors are known ports, each once, no deeper than asked;
\* a return leads to the anchor it left.
ChainWellFormed ==
  LET anchors == chain.anc \o (IF chain.anchor = 0 THEN <<>> ELSE <<chain.anchor>>)
  IN /\ Len(anchors) <= Depth
     /\ ToSet(anchors) \subseteq known \cap PortSectors
     /\ Cardinality(ToSet(anchors)) = Len(anchors)
     /\ chain.back \in {0, chain.anchor}

\* A run makes no more hops and docks than ordered, and keeps a chain that is
\* one.
ExploreSound == TurnsWithinBudget /\ ChainWellFormed

\* A run ends by itself, whatever the planner and the game come up with.
ExploreEnds == sail = "look" ~> sail = "over"
===============================================================================
