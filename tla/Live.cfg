SPECIFICATION LiveSpec
CONSTANTS
  Slaves = {s1}
  DBs = {0, 1}
  Diskless = FALSE
  BacklogSizes = {2}
  Budget <- Live
  Streamers = {"dy", "ff"}
  NoName = "home"
  Worlds <- TwoWorlds
  NoValue = "none"
  PageLimits <- SomePageLimits
INVARIANT FiltersAreThoseOfStreams
PROPERTIES
  EventuallyReplicated
  EventuallyShown
  SelectionSurvives
