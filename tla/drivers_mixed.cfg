SPECIFICATION Spec
CONSTANTS
  Attachers = {h1}
  Dispatchers = {d1}
  Runners = {"trade_chain", "sector_explore", "stardock_hold"}
  MaxGeneration = 2
  LateSendBound = 0
INVARIANTS QuietWire EveryRunStoppable
PROPERTIES CallersKeepContract
