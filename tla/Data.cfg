SPECIFICATION DataSpec
CONSTANTS
  Parts <- AllParts
  ListKeys = {x, y}
  NoKey = NoKey
  ListClients = {a, b, c}
  NoClient = NoClient
  MaxPushed = 2
  ListChances <- DataListChances
  k1 = k1
  k2 = k2
  k3 = k3
  k4 = k4
  Entries = {k1, k2, k3, k4}
  HashOf <- FourHashes
  WordBits = 3
  InitialSize = 1
  ForceRatio = 1
  MinFill = 40
  CronSteps = 1
  DictChances <- DataDictChances
  BigLen = 8
  ZipBits = 3
  ImmMax = 1
  LengthMax = 3
  MaxEntries = 5
  ZipBudget = 6
  ZipValues <- ShortAndLong
  Elements = {1, 2, 3}
  Scores <- ThreeScores
  Infinity = 2
  MaxLevel = 2
  MaxZiplist = 1
  LongElements = {3}
  Towers <- FourTowers
  Weights <- Negative
  Header = Header
  NilNode = NilNode
  RdbDbs = {0, 5}
  RdbWrites <- DataWrites
  NoExpire <- NoTime
  RdbLimits <- TwoLimits
  ByteBits = 4
  LzfMin = 6
  LastTime = 1
  Conversations <- SixConversations
  IobufLen = 4
  InlineMaxSize = 11
  BigArg = 4
  MaxQuerybufLen = 30
  MaxBulk = 7
  MaxBlocks = 2
  Options <- OptionTable
  Unset = Unset
  NotSaved = NotSaved
  Fatal = Fatal
  LaunchDir = "/"
  Directories <- TwoDirectories
  CommandNames = {"get", "config"}
  RefusedWords <- LongPassword
  BindMax = 2
  Included <- OtherFile
  ConfigFiles <- SomeFiles
  SettingsTried <- SomeSettings
  MaxChanges = 1
  Bytes = {7, 8}
  Sizes = {1, 2, 3}
  MaxChunk = 4
  MaxOffset = 6
  HllP = 3
  HashBits = 7
  HllBits = 3
  HllByte = 4
  ZeroMaxLen = 2
  ValMaxLen = 2
  ValMaxValue = 2
  HeaderSize = 2
  HllKeys = {x, y}
  ElementLists <- SomeElements
  SparseMaxBytes <- SixAndSeven
  HllChances <- DataHllChances
  HllLinkMax = 1
SYMMETRY DataSymmetry
INVARIANTS
  BlockingIsExact
  DictIsComplete
  ZiplistIsExact
  SortedSetIsExact
  RdbIsExact
  RequestsAreThoseSent
  ConfigIsExact
  LoopsAreExact
  HllIsExact
PROPERTY FirstBlockedFirstServed
CHECK_DEADLOCK FALSE
