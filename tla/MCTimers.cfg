SPECIFICATION FairSpec
CONSTANTS
  Conn = {a, b}
  IP = {ip1, ip2}
  Session = {}
  Identity = {i1}
  Cred = {k1}
  i1 = i1
  k1 = k1
  k2 = k2
  s1 = s1
  NoKey = NoKey
  NoMessage = NoMessage
  Owner <- OwnerIsFirst
  Requests <- ConsoleRequests
  maxConnections = 2
  maxConnectionsPerIp = 1
PROPERTIES  VanishedPeersFreeTheirSlot
CHECK_DEADLOCK FALSE
