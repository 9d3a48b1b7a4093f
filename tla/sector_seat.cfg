SPECIFICATION PartsSpec
CONSTANTS
  Sectors = {dock, s1, s2}
  Dock = dock
  None = None
  Pollers = {p1}
  MaxEpoch = 5
  MaxInFlight = 2
  Parts = {"memory", "shell", "arming"}
  Armable = {"discovered", "taught"}
  Offers = {"p1", "p2"}
  NoPlan = "none"
  ScreenClasses = {"port", "command"}
  Facts = {"live"}
  Libraries <- MCLibraries
  Rails <- MCRails
  Asked = {1, 2}
  PassCeiling = 2
  Unnamed = "nothing"
SYMMETRY Symmetry
INVARIANTS   RunsAccountedFor ArmInv
PROPERTIES NothingUnapproved
