------------------------------- MODULE MCParts -------------------------------
(***************************************************************************)
(* The parts that work alone, in one run: each behaviour is a behaviour of *)
(* one part, chosen at the start; the others keep their initial state.     *)
(***************************************************************************)
EXTENDS LockContract, LoopPlayer, Settle, WireLog, WatchHub, CredentialStore, Login, TradeRun,
        ExploreRun, WorldStore, MenuMap, TaughtStore, ChainSearch, ScreenReading, SharedSession, Outfitting, CockpitFrame,
        AttachKeys, TLC

CONSTANT Parts \* those of this run

VARIABLE part \* the part at work

partVars == <<part, contractVars, playerVars, settleVars, wireLogVars, watchVars, storeVars, loginVars, tradeVars,
              exploreVars, worldVars, menuVars, taughtVars, chainVars, readVars, sharedVars, outfitVars, frameVars,
              attachVars>>

-------------------------------------------------------------------------------
(* The instances                                                           *)

MCArmedSets == {{}, {"credits"}, {"turns"}, {"profit"}}

\* A galaxy with a row of ports and a one-way ring back from the last to where
\* StarDock may be.
MCGalaxies == {<<{2, 3}, {1, 4}, {1}, {3}>>}
MCRecorded == {{1}, {1, 2, 3}}
MCRecordedOne == {{1}}

Option(key, label, to) == [key |-> key, label |-> label, to |-> to]
Screen(state, options) == [state |-> state, options |-> options]
MCGame == <<Screen("menu", <<Option("a", "list", 2), Option("b", "buy", 4), Option("c", "view", 3)>>),
            Screen("menu", <<Option("a", "examine", 5), Option("b", "back", 1)>>),
            Screen("other", <<Option("c", "help", 1)>>),
            Screen("unsafe", <<Option("a", "unknown", 1)>>),
            Screen("menu", <<Option("a", "bare_enter", 1), Option("b", "list", 4)>>)>>
\* The same game with an option gone, and with two keys exchanged.
MCGames == {MCGame,
            [MCGame EXCEPT ![2] = Screen("menu", <<Option("a", "unknown", 4), Option("b", "back", 1)>>)],
            [MCGame EXCEPT ![1] = Screen("menu", <<Option("b", "list", 2), Option("a", "buy", 4), Option("c", "view", 3)>>)]}

\* Two names share a stem.
MCStem == ("n1" :> "s1") @@ ("n2" :> "s1") @@ ("n3" :> "s2")

\* Three ports of three goods that trade in pairs and in a ring; in turn one is
\* nearly sold out, behind a one-way warp, beside a minefield, read last week.
Selling(pct, amount) == [status |-> "selling", pct |-> pct, amount |-> amount]
Buying(pct, amount) == [status |-> "buying", pct |-> pct, amount |-> amount]
MCRows == <<<<Selling(90, 9), Buying(20, 9), Buying(10, 9)>>,
            <<Buying(20, 9), Selling(80, 9), Selling(90, 9)>>,
            <<Buying(10, 9), Buying(10, 9), Selling(80, 9)>>>>
MCClasses == <<<<"S", "B", "B">>, <<"B", "S", "S">>, <<"B", "B", "S">>>>
Ring == [warps |-> <<<<2, 3>>, <<1, 3>>, <<1, 2>>>>, rows |-> MCRows, class |-> MCClasses,
         age |-> <<"hour", "hour", "hour">>, threats |-> {}, sinks |-> {}]
MCDays == [ring |-> Ring,
           drained |-> [Ring EXCEPT !.rows[2][3].amount = 1, !.rows[2][1].amount = 4, !.rows[3][1].amount = 5],
           oneway |-> [Ring EXCEPT !.warps = <<<<2>>, <<1, 3>>, <<1>>>>, !.rows[1][3].pct = 60],
           mined |-> [Ring EXCEPT !.threats = {3}, !.rows[3][1].pct = -1],
           stale |-> [Ring EXCEPT !.age[2] = "month", !.class[3][1] = "?"],
           unknown |-> [Ring EXCEPT !.warps = <<>>, !.rows = <<>>, !.class = <<>>, !.age = <<>>]]
MCFloorPrice == <<20, 30, 40>>
Limits(searches, hops, visits, longest) == [searches |-> searches, hops |-> hops, steps |-> visits, longest |-> longest]
MCCaps == {Limits(3, 9, 30, 3), Limits(1, 9, 30, 3), Limits(3, 3, 30, 3), Limits(3, 9, 4, 3), Limits(3, 9, 30, 2)}

\* Two players of one server and one of another.
MCServerOf == [p \in Players |-> IF p = "p3" THEN "s2" ELSE "s1"]

\* A yard on two days, on the second with prices of holds and half a listing.
MCUnread == -1
Ware(is, ware, name, cost, holds, warp, req) ==
  [is |-> is, kind |-> ware, name |-> name, cost |-> cost, holds |-> holds, warp |-> warp, req |-> req]
Mark(is, ware) == Ware(is, ware, <<>>, 0, 0, 1, MCUnread)
Goodie(ware, name, cost) == Ware("row", ware, <<name>>, cost, 0, 1, MCUnread)
Freighter(cost) == Ware("row", "ships", <<"freighter">>, cost, 5, 1, 5)
Cruiser(cost) == Ware("row", "ships", <<"cruiser">>, cost, 6, 2, MCUnread)
MCYardScreens ==
  <<<<Mark("head", "ships"), Cruiser(40), Freighter(20), Mark("foot", "ships")>>,
    <<Mark("head", "ships"), Freighter(60), Mark("foot", "ships"), Ware("fighters", "none", <<>>, 2, 0, 1, MCUnread),
      Mark("head", "hold"), Goodie("hold", "hold", 2), Goodie("hold", "hold", 3), Mark("foot", "hold"),
      Mark("head", "item"), Goodie("item", "mine", 4)>>>>
Bare == [turns |-> MCUnread, credits |-> MCUnread, empty |-> MCUnread, dock |-> 0, links |-> 0, margin |-> 0,
         loopTurns |-> 1, sheet |-> MCUnread, type |-> <<>>, align |-> MCUnread, appetite |-> FALSE, float |-> 0]
Found == [Bare EXCEPT !.turns = 30, !.credits = 20, !.empty = 2, !.dock = 7, !.type = <<"merchant", "cruiser">>]
Looped == [Found EXCEPT !.links = 4, !.margin = 2, !.loopTurns = 2, !.sheet = 3, !.float = 9]
MCSituations == {Bare, Found, Looped,
                 [Looped EXCEPT !.turns = 8, !.align = 2],
                 [Looped EXCEPT !.links = 3, !.appetite = TRUE],
                 [Looped EXCEPT !.dock = 0, !.margin = 9, !.sheet = MCUnread, !.float = 14, !.align = 6],
                 [Looped EXCEPT !.credits = 8, !.align = 6]}

\* A cockpit on terminals about every threshold, with a quiet or a halted
\* status; with one composer that raises; with labels, toggles and hints of all
\* lengths; with lists that fit and lists that do not.
Quiet == [needs |-> FALSE, reasons |-> <<>>, mode |-> "app", tail |-> 2, holds |-> TRUE]
Halt == [Quiet EXCEPT !.needs = TRUE, !.mode = "", !.reasons = <<"lost", "none">>, !.tail = 0, !.holds = FALSE]
HumanHalt == [Halt EXCEPT !.reasons = <<>>, !.mode = "human"]
Loops == [open |-> FALSE, section |-> "taught", index |-> 0, found |-> 0, scroll |-> 0,
          taught |-> 0, discovered |-> 0, truncated |-> FALSE]
Calm == [size |-> <<40, 148>>, status |-> Quiet, seat |-> "armed", off |-> {}, hint |-> 0, text |-> FALSE,
         life |-> 8, raising |-> "none", gates |-> {}, list |-> Loops]
MCTerminals == {<<19, 200>>, <<20, 60>>, <<24, 83>>, <<26, 84>>, <<20, 130>>, <<36, 128>>, <<41, 148>>, <<44, 172>>, <<60, 300>>}
MCShrunk == {<<20, 70>>}
MCReports == {Halt}
MCComposers == {"status", "goals", "left_gutter", "center", "chain", "right_gutter", "decisions", "logs", "banner",
                "strip", "liveness", "meter", "chains", "arm", "genesis", "draft", "identity"}
MCScenes ==
  {Calm} \cup {[Calm EXCEPT !.size = z, !.status = s] : z \in MCTerminals, s \in {Quiet, HumanHalt}}
  \cup {[Calm EXCEPT !.raising = r, !.text = (r = "logs")] : r \in MCComposers}
  \cup {[Calm EXCEPT !.seat = s, !.hint = h, !.off = o, !.text = TRUE, !.size = z] :
           s \in {"attached", "spectating"}, h \in {0, 13, 90}, o \in {{"F"}}, z \in {<<20, 60>>, <<44, 200>>}}
  \cup {[Calm EXCEPT !.life = n, !.size = <<20, 60>>] : n \in {14, 21}}
  \cup {[Calm EXCEPT !.list.taught = n, !.list.discovered = m, !.list.truncated = x, !.size = <<22, 62>>] :
           n \in {0, 1, 4}, m \in {0, 7}, x \in BOOLEAN}

MCPressings == {<<"plain", "wide", "plain">>, <<"eight", "detach">>}

-------------------------------------------------------------------------------
\* A part at rest has one initial state.
PartsInit ==
  /\ part \in Parts
  /\ Init /\ PlayerInit /\ SettleInit /\ WireLogInit /\ WatchInit /\ StoreInit /\ LoginInit /\ TradeInit
  /\ ExploreInit /\ WorldInit /\ SharedInit /\ OutfitInit
  /\ MenuInit /\ (part # "menu" => game = MCGame)
  /\ TaughtInit /\ (part # "taught" => docKind = "rules")
  /\ ChainInit /\ (part # "chains" => day = "ring" /\ caps = Limits(3, 9, 30, 3))
  /\ ScreenInit /\ (part # "screen" => toPaint = GameList("plain") /\ spot = 1 /\ ship.clock)
  /\ FrameInit /\ (part # "frame" => cockpit = Calm)
  /\ AttachInit
  /\ part # "keys" => keyed.keys = <<"plain", "wide", "plain">> /\ keyed.how = "tty" /\ hosted.run = "none"

OthersRest ==
  /\ UNCHANGED part
  /\ part # "lock" => UNCHANGED contractVars
  /\ part # "player" => UNCHANGED playerVars
  /\ part # "settle" => UNCHANGED settleVars
  /\ part # "wire" => UNCHANGED wireLogVars
  /\ part # "watch" => UNCHANGED watchVars
  /\ part # "credentials" => UNCHANGED storeVars
  /\ part # "login" => UNCHANGED loginVars
  /\ part # "trade" => UNCHANGED tradeVars
  /\ part # "explore" => UNCHANGED exploreVars
  /\ part # "world" => UNCHANGED worldVars
  /\ part # "menu" => UNCHANGED menuVars
  /\ part # "taught" => UNCHANGED taughtVars
  /\ part # "chains" => UNCHANGED chainVars
  /\ part # "screen" => UNCHANGED readVars
  /\ part # "shared" => UNCHANGED sharedVars
  /\ part # "outfit" => UNCHANGED outfitVars
  /\ part # "frame" => UNCHANGED frameVars
  /\ part # "keys" => UNCHANGED attachVars

\* A part takes a step and the others rest.
PartsNext ==
  \/ part = "lock" /\ Next /\ OthersRest
  \/ part = "player" /\ PlayerNext /\ OthersRest
  \/ part = "settle" /\ SettleNext /\ OthersRest
  \/ part = "wire" /\ WireLogNext /\ OthersRest
  \/ part = "watch" /\ WatchNext /\ OthersRest
  \/ part = "credentials" /\ StoreNext /\ OthersRest
  \/ part = "login" /\ LoginNext /\ OthersRest
  \/ part = "trade" /\ TradeNext /\ OthersRest
  \/ part = "explore" /\ ExploreNext /\ OthersRest
  \/ part = "world" /\ WorldNext /\ OthersRest
  \/ part = "menu" /\ MenuNext /\ OthersRest
  \/ part = "taught" /\ TaughtNext /\ OthersRest
  \/ part = "chains" /\ ChainNext /\ OthersRest
  \/ part = "screen" /\ ScreenNext /\ OthersRest
  \/ part = "shared" /\ SharedNext /\ OthersRest
  \/ part = "outfit" /\ OutfitNext /\ OthersRest
  \/ part = "frame" /\ FrameNext /\ OthersRest
  \/ part = "keys" /\ AttachNext /\ OthersRest

PartsSpec == PartsInit /\ [][PartsNext]_partVars

-------------------------------------------------------------------------------
\* The fairness of the parts' own modules, or less of it: what a part's threads,
\* its game and its clock do next is done, and a timeout passes.
PartSteps ==
  \/ part = "player" /\ ThreadStep
  \/ part = "settle" /\ (CallerStep \/ ChunkArrives \/ DebouncePasses)
  \/ part = "watch" /\ (HubStep \/ DebounceEnds \/ \E s \in Subs : FeedReads(s) \/ SubscribeAdds(s))
  \/ part = "login" /\ LoginRound
  \/ part = "explore" /\ (ExploreStep \/ WarpEnds)
  \/ part = "menu" /\ CrawlStep
  \/ part = "shared" /\ \E w \in Windows : EnsureStep(w) \/ TimesOut(w)
  \/ part = "world" /\ \E w \in Recorders : WriterStep(w)
  \/ part = "keys" /\ \E a \in Attempts : HandlerStep(a)
ClockSteps == part = "settle" /\ TimeoutPasses

FairPartsSpec ==
  PartsSpec /\ WF_partVars(PartSteps /\ OthersRest) /\ WF_partVars(ClockSteps /\ OthersRest)

-------------------------------------------------------------------------------
\* Every variable of every part has its type, whichever part is at work.
PartsTypeOK ==
  /\ part \in Parts
  /\ part = "lock" => TypeOK
  /\ part = "player" => PlayerTypeOK
  /\ part = "settle" => SettleTypeOK
  /\ part = "wire" => WireLogTypeOK
  /\ part = "watch" => WatchTypeOK
  /\ part = "credentials" => StoreTypeOK
  /\ part = "login" => LoginTypeOK
  /\ part = "trade" => TradeTypeOK
  /\ part = "explore" => ExploreTypeOK
  /\ part = "world" => WorldTypeOK
  /\ part = "menu" => MenuTypeOK
  /\ part = "taught" => TaughtTypeOK
  /\ part = "chains" => ChainTypeOK
  /\ part = "screen" => ScreenTypeOK
  /\ part = "shared" => SharedTypeOK
  /\ part = "outfit" => OutfitTypeOK
  /\ part = "frame" => FrameTypeOK
  /\ part = "keys" => AttachTypeOK

\* What a store holds is not erased by a writer that knows less of it: a
\* landmark stays, and a rule goes to its own successor only.
NothingErased == [][LandmarksKept /\ NeighbourKept]_partVars

\* Nothing is sent on the strength of a screen that has gone: a confirmed prompt
\* is still there, the game letter goes to its menu, and a walk that went astray
\* presses no further.
NothingTypedBlind == [][ConfirmedStillMatches /\ LetterNotRepeated /\ WalkStopsAstray]_partVars

\* What is computed from what is on record is what a reader takes it for; asked
\* of the part at work, as a part at rest is as it was at its start.
DecisionsRight ==
  /\ part = "chains" => ChainsSound
  /\ part = "screen" => ReadingsSound
  /\ part = "outfit" => OutfitSound
  /\ part = "frame" => FrameSound
  /\ part = "keys" => AttachSound
  /\ part = "explore" => ExhaustedMeansMapped

\* Whatever is started ends: a replay, a confirmed send, a login, an explore
\* run, a crawl, an ensure; a recorder's wait for the store; an operator's seat.
PartsEnd ==
  /\ PlayerRunEnds /\ SendDecided /\ LoginEnds /\ ExploreEnds /\ CrawlEnds /\ EnsureEnds
  /\ WriterServed /\ SeatReturned
===============================================================================
