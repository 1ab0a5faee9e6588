SPECIFICATION Spec
CONSTANTS
  Conn = {a, b}
  IP = {ip1}
  Session = {s1}
  Identity = {i1}
  Cred = {k1, k2}
  i1 = i1
  k1 = k1
  k2 = k2
  s1 = s1
  NoKey = NoKey
  NoMessage = NoMessage
  Owner <- OwnerIsFirst
  Requests <- DeviceRequests
  maxConnections = 2
  maxConnectionsPerIp = 2
SYMMETRY ConnSymmetry
INVARIANTS OneLivePerKey 
CHECK_DEADLOCK FALSE
