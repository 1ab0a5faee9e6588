SPECIFICATION Spec
CONSTANTS
  Conn = {c1, c2, c3}
  Identity = {may, brendan}
  Who <- WhoIsWho
  c1 = c1
  c2 = c2
  c3 = c3
  may = may
  brendan = brendan
INVARIANTS FriendsConsented
PROPERTIES ToldWhatIsStored
CHECK_DEADLOCK FALSE
