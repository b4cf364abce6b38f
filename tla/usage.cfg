SPECIFICATION FairSpec
CONSTANTS
  u1 = u1
  loop = loop
  click = click
  reset = reset
  roller = roller
  editor = editor
  enforcer = enforcer
  Users = {u1}
  Syncers = {loop}
  Resetters = {reset}
  Roller = roller
  Editor = editor
  Enforcer = enforcer
  Periods <- Weekly
  Length <- Lengths
  Quota = 2
  Cap <- DailyCap2
  FirstReset <- SecondHour
  MaxTraffic = 2
  MaxTime = 3
  MaxRestarts = 1
  MaxRequests = 1
  MaxFailures = 1
PROPERTIES
  EventuallyCounted
  EventuallyRolled
INVARIANTS
  TypeOK
  PeriodWithinTotal
  NeverOvercharged
  NothingLost
  DisabledForCause
