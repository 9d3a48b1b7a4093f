SPECIFICATION FairPartsSpec
CONSTANTS
  Parts = {"player", "settle", "watch", "login", "explore", "world", "menu", "shared", "keys"}
  MaxGeneration = 1
  Steps = 1
  Ceiling = 2
  Requests = {1, 3}
  ArmedSets <- MCArmedSets
  Top = 1
  MaxChunks = 2
  MaxStale = 1
  MaxTexts = 2
  MaxDue = 2
  Subs = {"s1"}
  Screens = {"blank", "a", "b", "c"}
  Blank = "blank"
  MaxPaints = 2
  Savers = {"l1", "l2"}
  Creators = {"c1", "c2"}
  Nobody = "nobody"
  MaxSteps = 1
  StagnantLimit = 1
  MaxRetries = 1
  Target = "main_command"
  Hops = 2
  Longest = 2
  PerWarp = 2
  Passes = {1, 2}
  Floor = 1
  Reserve = 3
  Tanks = {8}
  Wealth = 3
  Load = 1
  Dear = 3
  Galaxy = {1, 2, 3, 4}
  Galaxies <- MCGalaxies
  Recorded <- MCRecordedOne
  PortSectors = {1, 2}
  StarDocks = {3}
  Intents = {"map_fill", "chain_hunt"}
  Turns = {1}
  HopTurns = 2
  Depth = 2
  FightLimit = 1
  Recorders = {"r1", "r2"}
  Names = {"n1"}
  Unknown = "unknown"
  Menus = {1, 2, 3, 4, 5}
  Games <- MCGames
  Door = 1
  MaxNodes = 3
  Nowhere = 0
  Teachers = {"w1", "w2"}
  Titles = {"n1", "n2", "n3"}
  Stem <- MCStem
  OldStore = {"n2", "n3"}
  Untitled = "none"
  Goods = {1, 2, 3}
  Days <- MCDays
  Caps <- MCCaps
  FewestLinks = 2
  FloorPrice <- MCFloorPrice
  PriceCeiling = 3
  Spread = 10
  AmountFloor = 1
  ShipHolds = 5
  Ranks = {"hops", "yield", "longevity"}
  Height = 9
  Spots = {1, 2}
  PortSpots = {1}
  Doors = {"boxed", "banner", "square", "plain"}
  BannerSpan = 6
  MaxAnswers = 3
  Windows = {"w1", "w2"}
  Cockpits = {"w1", "w2"}
  Players = {"p1", "p3"}
  ServerOf <- MCServerOf
  MaxEnsures = 2
  Stranger = "stranger"
  Shells = {"w1", "w2"}
  YardScreens <- MCYardScreens
  Situations <- MCSituations
  Unread <- MCUnread
  LinksForShips = 4
  CashFloor = 10
  Stack = 5
  Scenes <- MCScenes
  Shrunk <- MCShrunk
  Reports <- MCReports
  Flippable = {"P"}
  Attempts = {1}
  Pressings <- MCPressings
  MaxMishaps = 1
PROPERTIES ClientConverges PartsEnd
CHECK_DEADLOCK FALSE
