SPECIFICATION Spec
CONSTANTS
  Slaves = {s1}
  DBs = {0, 1}
  Diskless = FALSE
  BacklogSizes = {2}
  Budget <- ForkFails
INVARIANTS
  EndHasChild
