------------------------------- MODULE PartsProofs -------------------------------
(***************************************************************************)
(* What is proved of each part taken to the composition the runs check, in *)
(* which a part is at work and the others rest.                            *)
(***************************************************************************)
EXTENDS MCParts, ConsoleProofs, RunProofs, StoreProofs, TLAPS

-----------------------------------------------------------------------------
(* The parts, composed *)

\* A part at work takes a step of its own and the others rest: each moves by its
\* own next-state relation or not at all.
LEMMA PartMoves ==
  ASSUME [PartsNext]_partVars
  PROVE  /\ [Next]_contractVars
         /\ [PlayerNext]_playerVars
         /\ [SettleNext]_settleVars
         /\ [WireLogNext]_wireLogVars
         /\ [StoreNext]_storeVars
         /\ [LoginNext]_loginVars
         /\ [TradeNext]_tradeVars
         /\ [ExploreNext]_exploreVars
         /\ [WorldNext]_worldVars
         /\ [MenuNext]_menuVars
         /\ [TaughtNext]_taughtVars
         /\ [SharedNext]_sharedVars
         /\ [WatchNext]_watchVars
         /\ [ChainNext]_chainVars
         /\ [ScreenNext]_readVars
         /\ [OutfitNext]_outfitVars
         /\ [FrameNext]_frameVars
         /\ [AttachNext]_attachVars
<1>1. [Next]_contractVars
  BY DEF PartsNext, OthersRest, partVars
<1>2. [PlayerNext]_playerVars
  BY DEF PartsNext, OthersRest, partVars
<1>3. [SettleNext]_settleVars
  BY DEF PartsNext, OthersRest, partVars
<1>4. [WireLogNext]_wireLogVars
  BY DEF PartsNext, OthersRest, partVars
<1>5. [StoreNext]_storeVars
  BY DEF PartsNext, OthersRest, partVars
<1>6. [LoginNext]_loginVars
  BY DEF PartsNext, OthersRest, partVars
<1>7. [TradeNext]_tradeVars
  BY DEF PartsNext, OthersRest, partVars
<1>8. [ExploreNext]_exploreVars
  BY DEF PartsNext, OthersRest, partVars
<1>9. [WorldNext]_worldVars
  BY DEF PartsNext, OthersRest, partVars
<1>10. [MenuNext]_menuVars
  BY DEF PartsNext, OthersRest, partVars
<1>11. [TaughtNext]_taughtVars
  BY DEF PartsNext, OthersRest, partVars
<1>12. [SharedNext]_sharedVars
  BY DEF PartsNext, OthersRest, partVars
<1>13. [WatchNext]_watchVars
  BY DEF PartsNext, OthersRest, partVars
<1>14. [ChainNext]_chainVars
  BY DEF PartsNext, OthersRest, partVars
<1>15. [ScreenNext]_readVars
  BY DEF PartsNext, OthersRest, partVars
<1>16. [OutfitNext]_outfitVars
  BY DEF PartsNext, OthersRest, partVars
<1>17. [FrameNext]_frameVars
  BY DEF PartsNext, OthersRest, partVars
<1>18. [AttachNext]_attachVars
  BY DEF PartsNext, OthersRest, partVars
<1> QED
  BY <1>1, <1>2, <1>3, <1>4, <1>5, <1>6, <1>7, <1>8, <1>9, <1>10, <1>11, <1>12, <1>13, <1>14, <1>15, <1>16, <1>17, <1>18

\* Every behaviour of the composition is one of every part: what is proved of a
\* part by itself holds in the runs that check the parts together.
THEOREM PartsAreParts ==
  PartsSpec => /\ Spec /\ PlayerSpec /\ SettleSpec /\ WireLogSpec
               /\ StoreSpec /\ LoginSpec /\ TradeSpec /\ ExploreSpec
               /\ WorldSpec /\ MenuSpec /\ TaughtSpec /\ SharedSpec
               /\ WatchSpec /\ ChainSpec /\ ScreenSpec /\ OutfitSpec /\ FrameSpec /\ AttachSpec
<1>1. PartsInit => Init /\ PlayerInit /\ SettleInit /\ WireLogInit /\ StoreInit /\ LoginInit
                    /\ TradeInit /\ ExploreInit /\ WorldInit /\ MenuInit /\ TaughtInit /\ SharedInit
                    /\ WatchInit /\ ChainInit /\ ScreenInit /\ OutfitInit /\ FrameInit /\ AttachInit
  BY DEF PartsInit
<1> QED
  BY <1>1, PartMoves, PTL
  DEF PartsSpec, Spec, PlayerSpec, SettleSpec, WireLogSpec, StoreSpec, LoginSpec, TradeSpec, ExploreSpec, WorldSpec, MenuSpec, TaughtSpec, SharedSpec,
     WatchSpec, ChainSpec, ScreenSpec, OutfitSpec, FrameSpec, AttachSpec

\* What a store holds is not erased by a writer that knows less of it
\* (NothingErased): a landmark stays, and a rule goes to its own successor only.
THEOREM NothingIsErased == PartsSpec => NothingErased
<1>1. UNCHANGED worldVars => LandmarksKept
  BY DEF worldVars, LandmarksKept
<1>2. UNCHANGED taughtVars => NeighbourKept
  BY DEF taughtVars, NeighbourKept
<1>3. [LandmarksKept]_worldVars /\ [NeighbourKept]_taughtVars => [LandmarksKept /\ NeighbourKept]_partVars
  BY <1>1, <1>2
<1> QED
  BY <1>3, PartsAreParts, LandmarksStay, NeighboursKept, PTL DEF NothingErased

\* A part at rest has not begun to walk.
LEMMA NoWalkAtRest == PartsSpec => [](part = "menu" \/ job = "none")
<1>1. PartsInit => part = "menu" \/ job = "none"
  BY DEF PartsInit, MenuInit
<1>2. (part = "menu" \/ job = "none") /\ [PartsNext]_partVars => (part = "menu" \/ job = "none")'
  <2>1. [PartsNext]_partVars => part' = part /\ (part = "menu" \/ UNCHANGED menuVars)
    BY DEF PartsNext, OthersRest, partVars
  <2>2. UNCHANGED menuVars => job' = job
    BY DEF menuVars
  <2> QED
    BY <2>1, <2>2
<1> QED
  BY <1>1, <1>2, PTL DEF PartsSpec

\* Nothing is sent on the strength of a screen that has gone
\* (NothingTypedBlind): neither by a confirmed send, nor by a login at the game
\* menu, nor by a walk over a menu map.
THEOREM NothingIsTypedBlind == PartsSpec => NothingTypedBlind
<1>1. UNCHANGED settleVars => ConfirmedStillMatches
  BY DEF settleVars, ConfirmedStillMatches
<1>2. UNCHANGED loginVars => LetterNotRepeated
  <2>1. ASSUME UNCHANGED loginVars, Types PROVE input.kind # "letter"
    BY <2>1 DEF loginVars, Types, NoInput
  <2> QED
    BY <2>1 DEF LetterNotRepeated
<1>3. (part = "menu" \/ job = "none") /\ [PartsNext]_partVars => [WalkStopsAstray]_partVars
  <2>1. SUFFICES ASSUME part = "menu" \/ job = "none", PartsNext PROVE WalkStopsAstray
    OBVIOUS
  <2>2. CASE part = "menu"
    BY <2>1, <2>2, WalksCheck DEF PartsNext
  <2>3. CASE job = "none"
    BY <2>3 DEF WalkStopsAstray
  <2> QED
    BY <2>1, <2>2, <2>3
<1>4. [ConfirmedStillMatches]_settleVars /\ [LetterNotRepeated]_loginVars /\ [WalkStopsAstray]_partVars
        => [ConfirmedStillMatches /\ LetterNotRepeated /\ WalkStopsAstray]_partVars
  BY <1>1, <1>2
<1> QED
  BY <1>3, <1>4, PartsAreParts, NoWalkAtRest, MatchesStill, LetterOnce, PTL DEF PartsSpec, NothingTypedBlind

\* The part at work is one of this run's.
LEMMA PartStays == PartsSpec => [](part \in Parts)
<1>1. PartsInit => part \in Parts
  BY DEF PartsInit
<1>2. part \in Parts /\ [PartsNext]_partVars => (part \in Parts)'
  BY DEF PartsNext, OthersRest, partVars
<1> QED
  BY <1>1, <1>2, PTL DEF PartsSpec

\* The invariants of the three stores hold of their types.
LEMMA StoresTyped ==
  /\ StoreSpec => []StoreTypeOK
  /\ WorldSpec => []WorldTypeOK
  /\ TaughtSpec => []TaughtTypeOK
<1>1. StoreSpec => []StoreTypeOK
  <2>1. CredentialsInv => StoreTypeOK
    BY DEF CredentialsInv
  <2> QED
    BY <2>1, CredentialsInvariance, PTL
<1>2. WorldSpec => []WorldTypeOK
  <2>1. WorldInv => WorldTypeOK
    BY DEF WorldInv
  <2> QED
    BY <2>1, WorldInvariance, PTL
<1>3. TaughtSpec => []TaughtTypeOK
  <2>1. TaughtInv => TaughtTypeOK
    BY DEF TaughtInv
  <2> QED
    BY <2>1, InitTaught, NextTaught, PTL DEF TaughtSpec
<1> QED
  BY <1>1, <1>2, <1>3

\* Every variable of every part keeps its type (PartsTypeOK), for every value of
\* the parts' constants.
THEOREM PartsTyped == PartsSpec => []PartsTypeOK
<1>1. /\ part \in Parts /\ TypeOK /\ PlayerTypeOK /\ SettleTypeOK /\ WireLogTypeOK /\ WatchTypeOK /\ StoreTypeOK
      /\ LoginTypeOK /\ TradeTypeOK /\ ExploreTypeOK /\ WorldTypeOK /\ MenuTypeOK /\ TaughtTypeOK /\ ChainTypeOK
      /\ ScreenTypeOK /\ SharedTypeOK /\ OutfitTypeOK /\ FrameTypeOK /\ AttachTypeOK
      => PartsTypeOK
  BY DEF PartsTypeOK
<1> QED
  BY <1>1, PartsAreParts, PartStays, TypeCorrect, PlayerIsTyped, SettleTyped, WireLogIsTyped, WatchIsTyped, StoresTyped,
     LoginIsTyped, TradeIsTyped, ExploreIsTyped, MenuIsTyped, ChainIsTyped, ScreenIsTyped, SharedIsTyped, OutfitIsTyped,
     FrameIsTyped, KeysArrive, PTL

\* What of DecisionsRight does not need a search unrolled, whichever part is at
\* work: the advice and its offer, what the cockpit shows, the operator's keys,
\* the chain that is started, and what the session makes of its screen.
THEOREM DecisionsHold ==
  PartsSpec => [](OutfitSound /\ FrameSound /\ AttachSound /\ StartedAsApproved /\ HereOrNothing /\ HudLatest /\ StatusAnswers)
BY PartsAreParts, OutfitIsSound, FramesTell, KeysArrive, StartsTheApproved, SessionUpToDate, PTL
================================================================================
