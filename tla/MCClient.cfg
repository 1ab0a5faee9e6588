SPECIFICATION FairClientSpec
CONSTANTS
  Place = {"p", "q"}
  NoPlace = "nowhere"
  OutMax = 4
  PendMax = 2
  PerIp = 1
  LinkConfigured = TRUE
  Faults = 3
INVARIANTS
  PositionIsCurrent
  LinkAgrees
PROPERTIES
  Settles
CHECK_DEADLOCK FALSE
