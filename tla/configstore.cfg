SPECIFICATION Spec
CONSTANTS
  u1 = u1
  u2 = u2
  s1 = s1
  a1 = a1
  a2 = a2
  k1 = k1
  d1 = d1
  e1 = e1
  x1 = x1
  t1 = t1
  t2 = t2
  j1 = j1
  j2 = j2
  Users = {u1, u2}
  Socks = {s1}
  Admins = {a1, a2}
  Tokens = {k1}
  Domains = {d1}
  Endpoints = {e1}
  Sites = {x1}
  Tunnels = {t1, t2}
  Jobs = {j1, j2}
  FixedPorts <- Fixed
  BandwidthPorts <- Bandwidth
  SocksPorts <- Asked
  AutoCap = 1
  FirstConfig <- First
  None = None
  Torn = Torn
  Raw = Raw
  MaxTime = 2
  MaxJobs = 2
  MaxFaults = 1
INVARIANTS
  TypeOK
  StoredLoads
  UndoKept
PROPERTIES
  AnsweredStored
SYMMETRY JobSymmetry
CHECK_DEADLOCK FALSE
