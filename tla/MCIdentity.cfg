SPECIFICATION Spec
CONSTANTS
  Call = {x1, x2, x3}
  Identity = {may, brendan}
  Credential = {k1, k2, k3}
  Session = {s1, s2, s3}
  Code = {p1, p2}
  Nobody = Nobody
  x1 = x1
  x2 = x2
  x3 = x3
  may = may
  brendan = brendan
  k1 = k1
  k2 = k2
  k3 = k3
  s1 = s1
  s2 = s2
  s3 = s3
  p1 = p1
  p2 = p2
SYMMETRY Fresh
INVARIANTS RecoveredOnce LockedOut PairedOnce
PROPERTIES DeadStaysDead
CHECK_DEADLOCK FALSE
