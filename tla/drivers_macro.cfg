SPECIFICATION FairSpec
CONSTANTS
  Attachers = {h1}
  Dispatchers = {}
  Runners = {"autoloop", "trade_chain"}
  MaxGeneration = 2
  LateSendBound = 2
INVARIANTS TypeOK QuietWire MacroYields
PROPERTIES NobodyStuck
