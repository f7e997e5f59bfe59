SPECIFICATION Spec
CONSTANTS
  Slaves = {s1}
  DBs = {0, 1}
  Diskless = FALSE
  BacklogSizes = {2, 3}
  Budget <- CrashAndResize
INVARIANTS
  TypeOK
  SlavesHaveBacklog
  BacklogMatchesStream
  TrustedSlavesShowThePast
CHECK_DEADLOCK FALSE
