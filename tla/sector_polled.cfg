SPECIFICATION PartsSpec
CONSTANTS
  Sectors = {dock, s1}
  Dock = dock
  None = None
  Pollers = {p1}
  MaxEpoch = 4
  MaxInFlight = 2
  Parts = {"memory"}
  Armable = {"discovered"}
  Offers = {"p1"}
  NoPlan = "none"
  ScreenClasses = {"port", "command"}
  Facts = {"live"}
  Libraries <- MCLibraries
  Rails <- MCRails
  Asked = {1}
  PassCeiling = 1
  Unnamed = "nothing"
INVARIANTS LandmarkIsDock
