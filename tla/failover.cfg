SPECIFICATION FairSpec
CONSTANTS
  t1 = t1
  t2 = t2
  Tunnels <- TwoTunnels
  Proxy = Proxy
  Fallback = Fallback
  NoTag = NoTag
  NoIface = NoIface
  Confirmations = 2
  Cooldown = 2
  MaxFlaps = 1
  MaxRequests = 1
  MaxCrashes = 1
INVARIANTS
  TypeOK
PROPERTIES
  CooldownKept
  ConfirmationsKept
  SwitchHealthy
  SwitchEffective
  EventuallyDesired
  EventuallyApplied
