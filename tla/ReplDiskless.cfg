SPECIFICATION Spec
CONSTANTS
  Slaves = {s1, s2}
  DBs = {0, 1}
  Diskless = TRUE
  BacklogSizes = {2}
  Budget <- DisklessTwo
SYMMETRY SlaveSymmetry
INVARIANT SlavesAreServed
CHECK_DEADLOCK FALSE
