------------------------------ MODULE ChainSearch ------------------------------
(***************************************************************************)
(* Finding trade loops in the recorded world and starting one of them.     *)
(* trade_adapter.py turns port reports into priced, routable hops under    *)
(* two caps, chains.py searches them for closed profit cycles under a      *)
(* third, chain_search.py says what came of it; chain_detect.py pairs      *)
(* ports by class alone.  A chain the operator approves is searched for    *)
(* again by the daemon, in the world as it is then, and started only if it *)
(* is found unchanged (session/trade_chain.py, trade_chain_plan.py).       *)
(*                                                                         *)
(* A market is what the sector files hold: warps in their recorded order,  *)
(* per port a row per good, its class, the age of the reading, the sectors *)
(* with mines or fighters and those catalogued as sinks.  Goods are        *)
(* numbered in the order in which a port lists them.                       *)
(***************************************************************************)
EXTENDS Integers, FiniteSets, SequencesExt

CONSTANTS
  Goods,
  Days,      \* what is on record: a market for every day
  Caps,      \* [searches, hops, steps, longest]: route searches, hops, search steps, links
  FewestLinks,  \* MIN_CHAIN_LINKS_TO_EXECUTE
  FloorPrice, PriceCeiling, Spread, \* floor per good, its multiple at 0%, percent of the floor
  AmountFloor,
  ShipHolds,
  Ranks      \* the orders a caller may ask for

ASSUME ChainAssumption ==
  /\ Goods \subseteq Nat /\ FewestLinks \in Nat \ {0} /\ PriceCeiling \in Nat \ {0}
  /\ Spread \in Nat /\ AmountFloor \in Nat /\ ShipHolds \in Nat \ {0}
  /\ Ranks \subseteq {"hops", "yield", "longevity"}
  /\ \A c \in Caps : {c.searches, c.hops, c.steps, c.longest} \subseteq Nat
  /\ IsFiniteSet(Goods) /\ \A d \in DOMAIN Days : IsFiniteSet(DOMAIN Days[d].rows)

VARIABLES
  day, caps,
  purpose,      \* what the search is for: "none", "list", "start"
  tradeHops,    \* the hops found, and whether the adapter cut them short
  adapterNote,
  starts,       \* the sectors still to be searched from
  frames,       \* the stack: a sector and the next of its hops
  path,        \* the hops of the path
  found,        \* the cycles, in the order they were found first
  steps, searchNote,
  approved,     \* the chain the operator said yes to
  armedChain    \* the chain that was started

searchVars == <<tradeHops, adapterNote, starts, frames, path, found, steps, searchNote>>
chainVars == <<day, caps, purpose, searchVars, approved, armedChain>>

market == Days[day]
NoTrade == [sectors |-> <<>>, hops |-> <<>>]

-------------------------------------------------------------------------------
(* Hops                                                                    *)

Charted(w) == DOMAIN w.warps
Follows(w, s, v) == v \in Charted(w) /\ \E i \in DOMAIN w.warps[s] : w.warps[s][i] = v

\* _bfs_paths_from: the shortest known way, the first in the order of the warps.
Ways(w, n) == {p \in [1..n -> Charted(w)] : \A i \in 1..(n - 1) : Follows(w, p[i], p[i + 1])}
WaysBetween(w, a, b) ==
  LET of(n) == {p \in Ways(w, n) : p[1] = a /\ p[n] = b}
      lengths == {n \in 1..Cardinality(Charted(w)) : of(n) # {}}
  IN IF lengths = {} THEN {} ELSE of(CHOOSE n \in lengths : \A m \in lengths : n <= m)
ListedAt(w, s, v) == CHOOSE i \in DOMAIN w.warps[s] : w.warps[s][i] = v /\ \A j \in 1..(i - 1) : w.warps[s][j] # v
Route(w, a, b) ==
  CHOOSE p \in WaysBetween(w, a, b) : \A q \in WaysBetween(w, a, b) \ {p} :
    \E i \in 1..(Len(p) - 1) :
      SubSeq(p, 1, i) = SubSeq(q, 1, i) /\ ListedAt(w, p[i], p[i + 1]) < ListedAt(w, p[i], q[i + 1])

\* route_hazard_for_hop, over the whole way: a one-way warp, a sink, a threat.
Hazardous(w, p) ==
  \E i \in 1..(Len(p) - 1) : ~Follows(w, p[i + 1], p[i]) \/ p[i + 1] \in w.sinks \cup w.threats
Routable(w, a, b) == WaysBetween(w, a, b) # {} /\ ~Hazardous(w, Route(w, a, b))

\* _commodity_price in hundredths: the dearer the emptier, the port's spread on top.
PriceOf(g, row) ==
  FloorPrice[g] * (100 + (PriceCeiling - 1) * (100 - row.pct)
                   + (IF row.status = "selling" THEN -Spread ELSE Spread))
Priced(row) == row.pct >= 0
Stocked(row) == row.amount > AmountFloor

\* build_trade_hops: a port that sells to one that buys, both read within the
\* hour and with stock.
FreshPorts(w) == {s \in DOMAIN w.rows : w.age[s] = "hour"}
Pays(w, a, b, g) ==
  LET from == w.rows[a][g]
      into == w.rows[b][g]
  IN /\ a # b /\ from.status = "selling" /\ into.status = "buying"
     /\ \A row \in {from, into} : Stocked(row) /\ Priced(row)
Margin(w, l) == PriceOf(l.good, w.rows[l.to][l.good]) - PriceOf(l.good, w.rows[l.frm][l.good])
Legs(w) ==
  IF Cardinality(FreshPorts(w)) < 2 THEN {}
  ELSE {l \in [frm : FreshPorts(w), to : FreshPorts(w), good : Goods] : Pays(w, l.frm, l.to, l.good)}

\* Spent in the order of the margins, the first listed of equals.
Sooner(w, l, m) ==
  \/ Margin(w, l) > Margin(w, m)
  \/ /\ Margin(w, l) = Margin(w, m)
     /\ \/ l.frm < m.frm
        \/ l.frm = m.frm /\ l.to < m.to
        \/ l.frm = m.frm /\ l.to = m.to /\ l.good < m.good

\* One route search per source, for the sources of the best legs.
SourceBefore(w, s, t) ==
  \E l \in Legs(w) : l.frm = s /\ \A m \in Legs(w) : m.frm = t => Sooner(w, l, m)
LegSources(w) == {l.frm : l \in Legs(w)}
Searched(w, n) == {s \in LegSources(w) : Cardinality({t \in LegSources(w) : SourceBefore(w, t, s)}) < n}

TradeHop(w, l) ==
  [frm |-> l.frm, to |-> l.to, good |-> l.good, margin |-> Margin(w, l),
   turns |-> Len(Route(w, l.frm, l.to)) - 1]
RoutedLegs(w, n) == {l \in Legs(w) : l.frm \in Searched(w, n) /\ Routable(w, l.frm, l.to)}
HopsOf(w, legs) ==
  LET place(l) == Cardinality({m \in legs : m = l \/ Sooner(w, m, l)})
  IN [i \in 1..Cardinality(legs) |-> TradeHop(w, CHOOSE l \in legs : place(l) = i)]
Capped(w, c) == HopsOf(w, RoutedLegs(w, c.searches))
Upto(n, q) == SubSeq(q, 1, IF n < Len(q) THEN n ELSE Len(q))
CutShortSilently(w, c) == LegSources(w) # Searched(w, c.searches)
CutShort(w, c) == LegSources(w) # Searched(w, c.searches) \/ Len(Capped(w, c)) > c.hops

-------------------------------------------------------------------------------
(* Cycles                                                                  *)

Usable(hops) == SelectSeq(hops, LAMBDA h : h.margin > 0)
From(hops, s) == SelectSeq(Usable(hops), LAMBDA h : h.frm = s)
InDegree(hops, s) == Cardinality({i \in DOMAIN Usable(hops) : Usable(hops)[i].to = s})

\* Where a cycle may begin: sectors something is sold in, the narrow ones first.
Narrower(hops, s, t) ==
  LET out(x) == Len(From(hops, x))
  IN \/ out(s) < out(t)
     \/ out(s) = out(t) /\ InDegree(hops, s) > InDegree(hops, t)
     \/ out(s) = out(t) /\ InDegree(hops, s) = InDegree(hops, t) /\ s < t
StartsOf(hops) ==
  SetToSortSeq({s \in {Usable(hops)[i].frm : i \in DOMAIN Usable(hops)} : InDegree(hops, s) > 0},
               LAMBDA s, t : Narrower(hops, s, t))

\* record: turned so that the smallest sector comes first; of two ways to trade
\* one cycle the better paid per turn is kept.
Rotated(q, i) == SubSeq(q, i, Len(q)) \o SubSeq(q, 1, i - 1)
Profit(c) == FoldLeft(LAMBDA acc, h : acc + h.margin, 0, c.hops)
TurnsOf(c) == FoldLeft(LAMBDA acc, h : acc + h.turns, 0, c.hops)
PaysMore(c, d) == Profit(c) * TurnsOf(d) > Profit(d) * TurnsOf(c)
Cycle(hops) ==
  LET nodes == [i \in DOMAIN hops |-> hops[i].frm]
      first == CHOOSE i \in DOMAIN nodes : \A j \in DOMAIN nodes : nodes[i] <= nodes[j]
  IN [sectors |-> Append(Rotated(nodes, first), nodes[first]), hops |-> Rotated(hops, first)]
Keep(cycles, c) ==
  IF \E i \in DOMAIN cycles : cycles[i].sectors = c.sectors
  THEN [i \in DOMAIN cycles |-> IF cycles[i].sectors = c.sectors /\ PaysMore(c, cycles[i]) THEN c ELSE cycles[i]]
  ELSE Append(cycles, c)

ChainInit ==
  /\ day \in DOMAIN Days /\ caps \in Caps
  /\ purpose = "none" /\ tradeHops = <<>> /\ adapterNote = FALSE
  /\ starts = <<>> /\ frames = <<>> /\ path = <<>> /\ found = <<>> /\ steps = 0 /\ searchNote = FALSE
  /\ approved = NoTrade /\ armedChain = NoTrade

\* recompute: the hops are built from the files as they are now.  The daemon's
\* own search goes deeper than the cockpit's.
BeginsSearch(why) ==
  /\ purpose = "none" /\ armedChain = NoTrade
  /\ why = "start" <=> approved # NoTrade
  /\ purpose' = why
  /\ caps' \in (IF why = "list" THEN {caps} ELSE {c \in Caps : c.steps >= caps.steps})
  /\ tradeHops' = Upto(caps'.hops, Capped(market, caps'))
  /\ adapterNote' = CutShort(market, caps')
  /\ starts' = StartsOf(tradeHops')
  /\ frames' = <<>> /\ path' = <<>> /\ found' = <<>> /\ steps' = 0 /\ searchNote' = FALSE
  /\ UNCHANGED <<day, approved, armedChain>>

Searching == purpose # "none" /\ ~searchNote /\ (frames # <<>> \/ starts # <<>>)
SearchDone == purpose # "none" /\ ~Searching

StartsFrom ==
  /\ Searching /\ frames = <<>>
  /\ frames' = <<[node |-> Head(starts), next |-> 1]>> /\ starts' = Tail(starts)
  /\ UNCHANGED <<day, caps, purpose, tradeHops, adapterNote, path, found, steps, searchNote, approved, armedChain>>

\* One visit to the top frame: the hops that close the cycle are recorded up to
\* the first that leads on; without one the frame is left.
FrameHopsShort(node) == IF Len(path) + 1 >= caps.longest THEN <<>> ELSE From(tradeHops, node)
FrameHops(node) == IF Len(path) >= caps.longest THEN <<>> ELSE From(tradeHops, node)
Closes(h) == h.to = frames[1].node /\ Len(path) + 1 >= FewestLinks
LeadsOn(h) == ~Closes(h) /\ \A i \in DOMAIN frames : frames[i].node # h.to

VisitsFrame ==
  /\ Searching /\ frames # <<>>
  /\ steps' = steps + 1
  /\ IF steps + 1 > caps.steps
     THEN searchNote' = TRUE /\ UNCHANGED <<frames, path, found>>
     ELSE LET top == Last(frames)
              hops == FrameHops(top.node)
              on == {i \in top.next..Len(hops) : LeadsOn(hops[i])}
              next == IF on = {} THEN Len(hops) + 1 ELSE CHOOSE i \in on : \A j \in on : i <= j
              closing == SelectSeq(SubSeq(hops, top.next, next - 1), Closes)
          IN /\ found' = FoldLeft(LAMBDA acc, h : Keep(acc, Cycle(Append(path, h))), found, closing)
             /\ IF on # {}
                THEN /\ frames' = Append([frames EXCEPT ![Len(frames)].next = next + 1],
                                         [node |-> hops[next].to, next |-> 1])
                     /\ path' = Append(path, hops[next])
                ELSE frames' = Front(frames) /\ path' = IF path = <<>> THEN <<>> ELSE Front(path)
             /\ UNCHANGED searchNote
  /\ UNCHANGED <<day, caps, purpose, tradeHops, adapterNote, starts, approved, armedChain>>

-------------------------------------------------------------------------------
(* Ranks, approval, start                                                  *)

\* rank_chains, rank_chains_by_yield and rank_chains_by_longevity: what is
\* nearly sold out last; equals in the order they were found.
LegStocks(w, c) == {w.rows[h.frm][h.good].amount : h \in Range(c.hops)} \cup {w.rows[h.to][h.good].amount : h \in Range(c.hops)}
TradesStock(w, c) == CHOOSE n \in LegStocks(w, c) : \A m \in LegStocks(w, c) : n <= m
NearlyOut(w, c) == TradesStock(w, c) < ShipHolds
Longer(c, d) == Len(c.hops) > Len(d.hops) \/ (Len(c.hops) = Len(d.hops) /\ PaysMore(c, d))
BetterPaid(c, d) == PaysMore(c, d) \/ (~PaysMore(d, c) /\ Len(c.hops) > Len(d.hops))
LastsShort(w, c, d) == TradesStock(w, c) < TradesStock(w, d)
Lasts(w, c, d) ==
  \/ ~NearlyOut(w, c) /\ NearlyOut(w, d)
  \/ (NearlyOut(w, c) <=> NearlyOut(w, d)) /\ TradesStock(w, c) > TradesStock(w, d)
Ranked(w, cycles, rank) ==
  LET ahead(c, d) == CASE rank = "yield" -> BetterPaid(c, d)
                       [] rank = "longevity" -> Lasts(w, c, d) \/ (~Lasts(w, d, c) /\ Longer(c, d))
                       [] OTHER -> Longer(c, d)
      order == SetToSortSeq(DOMAIN cycles, LAMBDA i, j :
                 ahead(cycles[i], cycles[j]) \/ (~ahead(cycles[j], cycles[i]) /\ i < j))
  IN [i \in DOMAIN order |-> cycles[order[i]]]

\* The operator picks a row of the list and says yes to its plan.
Approves ==
  /\ SearchDone /\ purpose = "list"
  /\ \/ approved' \in Range(found)
     \/ approved' = NoTrade
  /\ purpose' = "none"
  /\ UNCHANGED <<day, caps, searchVars, armedChain>>

\* resolve_exact_chain: the one chain with the approved plan's fingerprint,
\* which is over its sectors, hops, margins and turns.
SameRoute(c) == c.sectors = approved.sectors
SamePlan(c) == c = approved

\* TradeChainRunner.start: refused when the search was cut short and found
\* nothing, when the chain is no longer the same, or when its first sector
\* cannot be reached from where the ship is.
StartsChain ==
  /\ SearchDone /\ purpose = "start"
  /\ \E here \in Charted(market) \cup {0} :
       LET same == {i \in DOMAIN found : SamePlan(found[i])}
       IN armedChain' =
            IF \/ (adapterNote \/ searchNote) /\ found = <<>>
               \/ Cardinality(same) # 1
               \/ here # 0 /\ here # approved.sectors[1] /\ WaysBetween(market, here, approved.sectors[1]) = {}
            THEN NoTrade ELSE found[CHOOSE i \in same : TRUE]
  /\ purpose' = "none" /\ approved' = (IF armedChain' = NoTrade THEN NoTrade ELSE approved)
  /\ UNCHANGED <<day, caps, searchVars>>

\* Another report is captured, or time passes: between two searches.
ReportsChange ==
  /\ purpose = "none" /\ armedChain = NoTrade /\ approved # NoTrade
  /\ day' \in DOMAIN Days \ {day}
  /\ UNCHANGED <<caps, purpose, searchVars, approved, armedChain>>

ChainNext ==
  \/ BeginsSearch("list") \/ BeginsSearch("start") \/ StartsFrom \/ VisitsFrame
  \/ Approves \/ StartsChain \/ ReportsChange

ChainSpec == ChainInit /\ [][ChainNext]_chainVars

-------------------------------------------------------------------------------
(* Pairs                                                                   *)

\* build_candidate_pairs: classes that complement each other both ways, read
\* within the month, and a way there and back.
ClassPorts(w) == {s \in DOMAIN w.class : \A g \in Goods : w.class[s][g] \in {"B", "S"}}
ClassFresh(w) == {s \in ClassPorts(w) : w.age[s] \in {"hour", "month"}}
SellsTo(w, a, b) == \E g \in Goods : w.class[a][g] = "S" /\ w.class[b][g] = "B"
Complementary(w) ==
  {p \in ClassFresh(w) \X ClassFresh(w) : p[1] < p[2] /\ SellsTo(w, p[1], p[2]) /\ SellsTo(w, p[2], p[1])}
Pairs(w) == {p \in Complementary(w) : Routable(w, p[1], p[2]) /\ Routable(w, p[2], p[1])}

\* chain_detect.recompute: why there is none.
PairReason(w) ==
  CASE Pairs(w) # {} -> "none"
    [] Pairs(w) = {} /\ Charted(w) = {} -> "no_world_model"
    [] Pairs(w) = {} /\ Charted(w) # {} /\ Cardinality(ClassPorts(w)) < 2 -> "fewer_than_two_ports"
    [] Cardinality(ClassPorts(w)) >= 2 /\ Cardinality(ClassFresh(w)) < 2 -> "all_stale"
    [] Cardinality(ClassFresh(w)) >= 2 /\ Complementary(w) = {} -> "no_compatible_pairs"
    [] OTHER -> "compatible_but_unrouted"

\* chain_search.recompute: and why there is no chain.
ChainReason ==
  CASE found # <<>> -> "none"
    [] found = <<>> /\ tradeHops = <<>> -> IF Charted(market) = {} THEN "no_world_model" ELSE "no_tradeable_hops"
    [] OTHER -> "no_closed_cycle"

-------------------------------------------------------------------------------
ChainTypeOK ==
  /\ day \in DOMAIN Days /\ caps \in Caps /\ purpose \in {"none", "list", "start"}
  /\ Len(path) = (IF frames = <<>> THEN 0 ELSE Len(frames) - 1)
  /\ Len(tradeHops) <= caps.hops /\ steps <= caps.steps + 1
  /\ adapterNote \in BOOLEAN /\ searchNote \in BOOLEAN

\* What there is to find: a ring of ports, each of which sells something the
\* next buys for more, over safe routes; the best good on every leg.
BestMargin(w, a, b) ==
  LET m == {Margin(w, l) : l \in {k \in Legs(w) : k.frm = a /\ k.to = b /\ Routable(w, a, b)}}
  IN IF m = {} THEN 0 ELSE CHOOSE x \in m : \A y \in m : x >= y
Rings(w, most) ==
  {r \in UNION {[1..n -> FreshPorts(w)] : n \in FewestLinks..most} :
     \A i \in DOMAIN r : /\ \A j \in DOMAIN r \ {i} : r[i] # r[j]
                         /\ r[1] <= r[i]
                         /\ BestMargin(w, r[i], r[(i % Len(r)) + 1]) > 0}
RingProfit(w, r) == FoldLeft(LAMBDA acc, i : acc + BestMargin(w, r[i], r[(i % Len(r)) + 1]), 0, [i \in DOMAIN r |-> i])
LongestRing(w) == IF caps.longest < Cardinality(FreshPorts(w)) THEN caps.longest ELSE Cardinality(FreshPorts(w))

\* chain_search.py: an empty result is a proof of absence exactly when neither
\* stage was cut short.  Without a note every ring is found, and with the goods
\* that pay best.
AllOrNoted ==
  SearchDone /\ ~adapterNote /\ ~searchNote =>
    /\ {c.sectors : c \in Range(found)} = {Append(r, r[1]) : r \in Rings(market, LongestRing(market))}
    /\ \A c \in Range(found) : Profit(c) = RingProfit(market, Front(c.sectors))

\* What is started is what was approved - route, goods, margins, turns - or
\* nothing, however the world changed and however deep the second search went.
StartedAsApproved == armedChain # NoTrade => armedChain = approved

\* A chain with less than one load left never outranks one with more
\* (chain_depletion.py), and no rank loses or doubles a chain.
LastingFirst ==
  SearchDone => \A rank \in Ranks :
    LET list == Ranked(market, found, rank)
    IN /\ Range(list) = Range(found) /\ Len(list) = Len(found)
       /\ rank = "longevity" =>
            \A i, j \in DOMAIN list : i < j => (NearlyOut(market, list[i]) => NearlyOut(market, list[j]))

\* The two finders agree: ports whose rows make a chain of two are a pair by
\* their classes as well, when both classes are on record.
PairsCoverChains ==
  SearchDone /\ purpose = "list" =>
    \A c \in Range(found) : Len(c.hops) = 2 /\ Range(c.sectors) \subseteq ClassPorts(market) =>
      <<c.sectors[1], c.sectors[2]>> \in Pairs(market)

\* The loops the cockpit lists, and the one it starts.
ChainsSound == AllOrNoted /\ StartedAsApproved /\ LastingFirst /\ PairsCoverChains
===============================================================================
