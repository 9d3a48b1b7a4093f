------------------------------- MODULE TradeRun -------------------------------
(***************************************************************************)
(* The trade driver (trade_driver.py) under its bounded repeat and its     *)
(* runner (session/trade_chain.py): a chain of Hops hops round a ring of   *)
(* sectors, at each hop a dock, a purchase under the cash floor, the warps *)
(* of the way to the next port, a dock and a sale.  The driver keeps a     *)
(* turn budget of its own, one turn for a warp whatever the ship, reads    *)
(* its credits from the screen or from the session's snapshot, and holds   *)
(* at the first thing it did not expect.                                   *)
(***************************************************************************)
EXTENDS Naturals

CONSTANTS
  Hops,     \* hops of the chain, two or more; hop i leads from port i to the next
  Longest,  \* bound of the warps between two ports
  PerWarp,  \* the turns a warp costs this ship
  Passes,   \* the numbers of passes a caller may ask for
  Floor,    \* caps.cash_floor
  Reserve,  \* caps.turn_reserve
  Tanks,    \* the turns a ship may have at the start
  Wealth,   \* bound of the credits
  Load,     \* bound of what a port offers to deal in at once
  Dear      \* bound of what it asks or gives for one

ASSUME TradeAssumption ==
  /\ Hops \in Nat /\ Hops >= 2 /\ Longest \in Nat \ {0} /\ PerWarp \in Nat \ {0} /\ Passes \subseteq Nat \ {0}
  /\ Floor \in Nat /\ Reserve \in Nat /\ Load \in Nat \ {0} /\ Dear \in Nat \ {0}
  /\ Wealth \in Nat /\ Wealth >= Floor /\ \A t \in Tanks : t \in Nat /\ t >= Reserve

VARIABLES
  deal,      \* where the driver is
  passes,    \* passes asked for; passes left
  hop, leg,  \* the hop, and whether it buys or sells
  budget,    \* turns_budget
  made,      \* warps sent since the last dock
  paid,      \* buy_total of this hop; 0 when it has none
  armed,     \* is_armed: the hold stands
  aborting,  \* should_abort: the stop event
  outcome,   \* why the run ended
  trader,      \* the game: the port the ship is at, or Between two
  credits,   \* the game: its credits
  turns,     \* the game: its turns
  counter,    \* the game: what it asks
  offer,     \* the game: the total in its offer
  snapCredits, \* the session: the credits last shown
  snapTurns, \* the session: the turns last shown
  mute,      \* the game has kept changed credits or turns to itself (history)
  strayed    \* a warp ended somewhere else, or a human played (history)

marketVars == <<trader, credits, turns, counter, offer>>
snapVars == <<snapCredits, snapTurns>>
hopVars == <<passes, hop, leg, budget, paid, made>>
tradeRunVars == <<armed, aborting, outcome>>
pastVars == <<mute, strayed>>
tradeVars == <<deal, hopVars, marketVars, snapVars, tradeRunVars, pastVars>>

Successor(s) == IF s = Hops THEN 1 ELSE s + 1
Between == 0
\* The port hop i means to dock at on this leg.
Meant == IF leg = "buy" THEN hop ELSE Successor(hop)

TradeInit ==
  /\ deal = "idle" /\ passes = 0 /\ hop = 1 /\ leg = "buy"
  /\ budget = 0 /\ paid = 0 /\ made = 0
  /\ armed = FALSE /\ aborting = FALSE /\ outcome = "none"
  /\ trader = 1 /\ credits = Floor /\ turns = 0 /\ counter = "command" /\ offer = 0
  /\ snapCredits = 0 /\ snapTurns = 0 /\ mute = FALSE /\ strayed = FALSE

\* start and _run: one read of the turns, then the anchor check of run_chain.
TradeStarts(n) ==
  /\ deal = "idle"
  /\ \E c \in Floor..Wealth, t \in Tanks :
       /\ credits' = c /\ turns' = t /\ snapCredits' = c /\ snapTurns' = t
  /\ deal' = "pass" /\ passes' = n /\ armed' = TRUE
  /\ UNCHANGED <<hop, leg, budget, paid, made, aborting, outcome, trader, counter, offer, pastVars>>

Holds(reason) ==
  /\ deal' = "over" /\ outcome' = reason /\ armed' = FALSE
  /\ UNCHANGED <<hopVars, aborting, marketVars, snapVars, pastVars>>

\* A pass: the turns are read again, the ship must stand at the anchor.
PassStarts ==
  /\ deal = "pass"
  /\ \/ (aborting \/ ~armed \/ trader # 1 \/ counter # "command") /\ Holds("held")
     \/ /\ ~aborting /\ armed /\ trader = 1 /\ counter = "command"
        /\ deal' = "hop" /\ hop' = 1 /\ leg' = "buy" /\ budget' = snapTurns
        /\ UNCHANGED <<passes, paid, made, marketVars, snapVars, tradeRunVars, pastVars>>

\* The upfront turn floor of a hop: the warps it had when the chain was found
\* (hop.turns) and two docks.
HopStarts ==
  /\ deal = "hop"
  /\ \E far \in 1..Longest :
     \/ (aborting \/ budget < Reserve + far + 2) /\ Holds("turn_floor")
     \/ /\ ~aborting /\ budget >= Reserve + far + 2
        /\ deal' = "dock" /\ leg' = "buy" /\ paid' = 0
        /\ UNCHANGED <<passes, hop, budget, made, marketVars, snapVars, tradeRunVars, pastVars>>

Sending == armed /\ ~aborting

\* The send that is refused, and the one whose answer does not come in time:
\* the game acts on it all the same.
Refused == deal \in {"dock", "cascade", "accept", "warp", "confirm", "crossing"}
           /\ ~Sending /\ Holds("aborted")
NotConfirmed(next) == \/ deal' = next /\ UNCHANGED <<armed, outcome>>
                      \/ deal' = "over" /\ outcome' = "unconfirmed" /\ armed' = FALSE

\* _reconcile_turns: the turns the report names replace the budget.
ReconciledDown(told, fuel) == budget - 1
Reconciled(told, fuel) == IF told THEN fuel ELSE budget - 1

\* P and T: a dock costs a turn, and the report may say how many are left; a
\* ship without one stays outside.
Docks ==
  /\ deal = "dock"
  /\ IF budget < Reserve + 1 \/ counter # "command" THEN Holds("turn_floor")
     ELSE /\ Sending /\ made' = 0
          /\ \E told \in BOOLEAN :
               /\ \/ turns > 0 /\ turns' = turns - 1 /\ counter' \in {"quantity", "command", "other"}
                  \/ turns = 0 /\ ~told /\ turns' = turns /\ counter' \in {"command", "other"}
               /\ budget' = Reconciled(told, turns')
               /\ snapTurns' = IF told THEN turns' ELSE snapTurns
               /\ mute' = (mute \/ ~told)
          /\ NotConfirmed("cascade")
          /\ UNCHANGED <<passes, hop, leg, paid, aborting, trader, credits, offer,
                         snapCredits, strayed>>

\* _visit_port's loop at a quantity prompt for the hop's commodity.  What the
\* driver means to deal is bounded by what the port names and by the credits
\* above the floor at the estimated price of one, less a tenth.
Affordable(c) == IF c > Floor THEN ((c - Floor) * 9) \div 10 ELSE 0
Least(a, b) == IF a <= b THEN a ELSE b
Quantity(live, c) ==
  IF leg = "buy" THEN Least(live, Affordable(c)) ELSE IF paid > 0 THEN live ELSE 0

Orders ==
  /\ deal = "cascade" /\ counter = "quantity" /\ Sending
  /\ \E live \in 1..Load :
       LET qty == Quantity(live, snapCredits)
       IN /\ qty > 0
          /\ \E total \in 1..(Dear * qty) : offer' = total
          /\ counter' \in {"offer", "other"}
  /\ NotConfirmed("offered")
  /\ UNCHANGED <<hopVars, aborting, trader, credits, turns, snapVars, pastVars>>

\* The commodity is declined.  The credits or the price unknown, nothing
\* affordable of what the port has, or nothing taken of what is held: the run
\* holds.  A port that has none to sell, or takes none of what is not held
\* either: the driver goes on, and holds after the sale without a margin.
Declines ==
  /\ deal = "cascade" /\ counter = "quantity" /\ Sending
  /\ \/ Holds("declined")
     \/ leg = "sell" /\ paid = 0 /\ Holds("realized_margin_unknown")
     \/ /\ leg = "buy" /\ deal' = "warp" /\ leg' = "sell" /\ counter' = "command"
        /\ UNCHANGED <<passes, hop, budget, paid, made, trader, credits, turns, offer, snapVars,
                       tradeRunVars, pastVars>>

\* No quantity prompt for the commodity: depleted, or a screen unheard of.
Depleted == deal = "cascade" /\ counter # "quantity" /\ Holds("depleted")

\* _trade_target's cap at the offer.
OverBudgetBare == leg = "buy" /\ snapCredits < offer
OverBudget == leg = "buy" /\ snapCredits < Floor + offer

\* _trade_target once more at the offer: the total against the floor.
Considers ==
  /\ deal = "offered"
  /\ \/ (counter # "offer" \/ OverBudget) /\ Holds("over_budget")
     \/ /\ counter = "offer" /\ ~OverBudget
        /\ deal' = "accept"
        /\ UNCHANGED <<hopVars, marketVars, snapVars, tradeRunVars, pastVars>>

\* The port at a hop's sector sells what the hop buys, the next one buys it.
PortSells == trader = hop

\* _accept_offer: the deal is struck, and the new credits may be shown.
Accepts ==
  /\ deal = "accept" /\ Sending
  /\ IF PortSells
     THEN credits >= offer /\ credits' = credits - offer
     ELSE credits' = Least(credits + offer, Wealth)
  /\ counter' = "command"
  /\ \/ snapCredits' = credits' /\ UNCHANGED mute
     \/ UNCHANGED snapCredits /\ mute' = TRUE
  /\ NotConfirmed("dealt")
  /\ UNCHANGED <<hopVars, aborting, trader, turns, offer, snapTurns, strayed>>

\* Between two passes of run_bounded_repeat: the last was the last, or the
\* credits are at the floor.
AfterPass ==
  IF passes = 1 THEN Holds("completed")
  ELSE \/ snapCredits <= Floor /\ Holds("cash_floor")
       \/ /\ snapCredits > Floor
          /\ deal' = "pass" /\ passes' = passes - 1
          /\ UNCHANGED <<hop, leg, budget, paid, made, marketVars, snapVars, tradeRunVars, pastVars>>

\* After the deal: its delta must be the total; on a sale, the margin.
Settles ==
  /\ deal = "dealt"
  /\ \/ Holds("credit_delta_anomaly")
     \/ /\ leg = "buy" /\ deal' = "warp" /\ leg' = "sell" /\ paid' = offer
        /\ UNCHANGED <<passes, hop, budget, made, marketVars, snapVars, tradeRunVars, pastVars>>
     \/ leg = "sell" /\ offer <= paid /\ Holds("realized_margin_below_floor")
     \/ leg = "sell" /\ Holds("profit_target_reached")
     \/ /\ leg = "sell" /\ offer > paid /\ hop < Hops
        /\ deal' = "hop" /\ hop' = hop + 1
        /\ UNCHANGED <<passes, leg, budget, paid, made, marketVars, snapVars, tradeRunVars, pastVars>>
     \/ leg = "sell" /\ offer > paid /\ hop = Hops /\ AfterPass

\* What a warp takes off the budget.
WarpFree == 0
WarpCost == 1

\* The game on a warp of the way, the last or one before: the ship's turns are
\* spent on it; without them, or without such a warp, it ends elsewhere.
GameWarps(last) ==
  \/ /\ turns >= PerWarp /\ turns' = turns - PerWarp
     /\ trader' = (IF last THEN Successor(hop) ELSE Between)
     /\ counter' = "command" /\ UNCHANGED strayed
  \/ UNCHANGED <<trader, turns>> /\ counter' \in {"command", "other"} /\ strayed' = TRUE

\* _navigate, one sector of the path: its number sent, one off the budget.
Warps ==
  /\ deal = "warp"
  /\ IF budget < Reserve + 1 \/ counter # "command" THEN Holds("turn_floor")
     ELSE /\ Sending
          /\ budget' = budget - WarpCost /\ made' = made + 1
          /\ \E last \in BOOLEAN :
               /\ last \/ made + 1 < Longest
               /\ \/ GameWarps(last)
                  \/ UNCHANGED <<trader, turns, strayed>> /\ counter' \in {"confirm", "avoid"}
               /\ NotConfirmed(IF last THEN "confirm" ELSE "crossing")
          /\ UNCHANGED <<passes, hop, leg, paid, aborting, credits, offer, snapVars, mute>>

\* The confirm a warp may bring up: yes, but no to a sector to be avoided.
WarpAnswered ==
  LET last == deal = "confirm"
      next == IF last THEN "dock" ELSE "warp"
  IN /\ deal \in {"confirm", "crossing"}
     /\ \/ /\ counter \notin {"confirm", "avoid"}
           /\ deal' = next /\ UNCHANGED <<hopVars, marketVars, snapVars, tradeRunVars, pastVars>>
        \/ /\ counter = "avoid" /\ Sending
           /\ deal' = "over" /\ outcome' = "avoid_declined" /\ armed' = FALSE /\ counter' = "command"
           /\ UNCHANGED <<hopVars, aborting, trader, credits, turns, offer, snapVars, pastVars>>
        \/ /\ counter = "confirm" /\ Sending /\ GameWarps(last) /\ NotConfirmed(next)
           /\ UNCHANGED <<hopVars, aborting, credits, offer, snapVars, mute>>

\* An exception out of the driver: the runner's finally releases the hold.
DriverRaises == deal \notin {"idle", "over"} /\ Holds("driver_error")

\* The operator, and a human who attaches and plays.
TradeStopped ==
  /\ deal \notin {"idle", "over"} /\ ~aborting /\ aborting' = TRUE
  /\ UNCHANGED <<deal, hopVars, armed, outcome, marketVars, snapVars, pastVars>>
TradePreempted ==
  /\ armed /\ armed' = FALSE
  /\ UNCHANGED <<deal, hopVars, aborting, outcome, marketVars, snapVars, pastVars>>
HumanPlays ==
  /\ ~armed /\ deal \notin {"idle", "over"}
  /\ trader' \in 0..Hops /\ counter' \in {"command", "other"} /\ strayed' = TRUE
  /\ UNCHANGED <<deal, hopVars, tradeRunVars, credits, turns, offer, snapVars, mute>>

DriverStep ==
  \/ PassStarts \/ HopStarts \/ Refused \/ Docks \/ Orders \/ Declines \/ Depleted
  \/ Considers \/ Accepts \/ Settles \/ Warps \/ WarpAnswered \/ DriverRaises

TradeNext ==
  \/ \E n \in Passes : TradeStarts(n)
  \/ DriverStep \/ TradeStopped \/ TradePreempted \/ HumanPlays
TradeSpec == TradeInit /\ [][TradeNext]_tradeVars

-------------------------------------------------------------------------------
TradeTypeOK ==
  /\ deal \in {"idle", "pass", "hop", "dock", "cascade", "offered", "accept",
               "dealt", "warp", "confirm", "crossing", "over"}
  /\ passes \in Nat /\ hop \in 1..Hops /\ leg \in {"buy", "sell"}
  /\ budget \in Nat /\ paid \in Nat /\ made \in 0..Longest /\ offer \in 0..(Dear * Load)
  /\ armed \in BOOLEAN /\ aborting \in BOOLEAN /\ mute \in BOOLEAN /\ strayed \in BOOLEAN
  /\ trader \in 0..Hops /\ credits \in 0..Wealth /\ turns \in Nat
  /\ counter \in {"command", "quantity", "offer", "confirm", "avoid", "other"}

\* The run never takes the player's credits below the floor, over any number
\* of passes: the quantity leaves room for a worse price than estimated and
\* the offer is weighed again (_trade_target).  When the game has kept changed
\* credits to itself, or a warp ended where the driver does not think it is,
\* that is not so: on a sell leg a prompt that sells is answered like one that
\* buys, and no floor is looked at.
CashFloorKept == ~mute /\ ~strayed => credits >= Floor

\* What the warps since the last dock have cost beyond the one turn each the
\* driver counts.
Uncounted == made * (PerWarp - 1)

\* The driver's budget promises no turns the ship has not got but for those
\* warps since the last dock cost beyond one each: a dock's report sets it
\* right, so that over hops and passes the ship is never further below the
\* reserve than the warps between two ports may have taken it, and not at all
\* where a warp costs one turn (_navigate, _visit_port, _reconcile_turns).
TurnReserveKept ==
  ~mute /\ ~strayed /\ deal # "idle" =>
    /\ turns + Longest * (PerWarp - 1) >= Reserve
    /\ deal \in {"hop", "dock", "warp"} => budget <= turns + Uncounted

\* A run leaves the money and, to one way between ports, the turns the operator
\* set aside.
RailsKept == CashFloorKept /\ TurnReserveKept

\* What the driver's module says of its turn budget: one turn a warp is a
\* conservative estimate, so the budget is never more than the ship's turns.
BudgetIsConservative == ~mute /\ ~strayed /\ deal \in {"hop", "dock", "warp"} => budget <= turns
===============================================================================
