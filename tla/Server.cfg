SPECIFICATION Spec
CONSTANTS
  Parts <- AllParts
  Databases = {0, 1}
  NoDatabase = NoDatabase
  Policies = {"always", "everysec", "no"}
  NoFsyncOnRewrite = FALSE
  MaxData = 3
  Chances <- ServerChances
  Fds = {1, 2, 3}
  StaticSize = 1
  ChunkSize = 2
  NodeSize = 0
  HardLimit = 4
  SoftLimit = 2
  SoftSeconds = 1
  MaxTime = 3
  MaxReplies = 6
  NetChances <- ServerNetChances
  Slots <- ThreeSlots
  StartKeys <- StartingKeys
  KeyValues = {"x", "y"}
  MaxClock = 3
  MaxKeys = 2
  EvictFrom = "allkeys"
  Ttls <- OneTtl
  KeyChances <- ServerKeyChances
  Scripts = {"s1", "s2"}
  Program <- TwoPrograms
  NoScript = "none"
  LuaSlaves = {s, t}
  CacheSize = 1
  LuaChances <- ServerLuaChances
INVARIANTS
  PersistenceIsExact
  ClientsGetTheirReplies
  ClientsAreTracked
  CopiesHaveDataset
  ScriptsAreWhole
CHECK_DEADLOCK FALSE
