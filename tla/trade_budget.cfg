SPECIFICATION TradeSpec
CONSTANTS
  Hops = 2
  Longest = 1
  PerWarp = 2
  Passes = {1}
  Floor = 1
  Reserve = 1
  Tanks = {8}
  Wealth = 3
  Load = 1
  Dear = 2
INVARIANT BudgetIsConservative
CHECK_DEADLOCK FALSE
