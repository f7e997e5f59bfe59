SPECIFICATION Spec
CONSTANTS
  Sentinels = {s1, s2, s3}
  Witnesses = {s1, s2}
  Nobody = Nobody
  Quorum = 1
  Budgets <- SmallBudgets
  Watchers = {w1, w2}
  Instances = {r1, r2, r3}
  FirstMaster = r1
  NoOne = NoOne
  DownQuorum = 2
  ParallelSyncs = 1
  Priority <- OnePriority
  Limits <- SmallLimits
  MaxQueue = 3
  MaxRunning = 2
  MaxRetry = 2
  Pids = {p1, p2, p3}
  MaxScripts = 5
  ForkFailures = 1
  Parts <- AllParts
SYMMETRY Symmetry
INVARIANTS
  FailoverTypeOK
  OneVotePerEpoch
  ElectedByMajority
  EpochsAreUnique
  ScriptsAreCounted
PROPERTY AddressFollowsEpoch
CHECK_DEADLOCK FALSE
