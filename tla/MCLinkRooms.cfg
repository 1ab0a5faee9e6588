\* Two trainers and one room
SPECIFICATION FairSpec
CONSTANTS
  Conn = {a, b}
  Room = {r1}
  Core = {gpsp}
  NoConn = NoConn
  NoRoom = NoRoom
  NoCore = NoCore
  Requests <- Lines
  MaxQueue = 1
  PacketLimit = 1
CONSTRAINT OneStoreCall
INVARIANTS RoomsAgree ToldTheTruth PacketsWithinSession
PROPERTIES SessionSpec HostLossReachesGuest
CHECK_DEADLOCK FALSE
