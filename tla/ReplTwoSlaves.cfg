SPECIFICATION Spec
CONSTANTS
  Slaves = {s1, s2}
  DBs = {0, 1}
  Diskless = FALSE
  BacklogSizes = {2}
  Budget <- TwoSlaves
INVARIANTS
  SlavesAreServed
PROPERTIES
  ReplicatesLog
SYMMETRY SlaveSymmetry
CHECK_DEADLOCK FALSE
