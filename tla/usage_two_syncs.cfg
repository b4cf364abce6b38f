SPECIFICATION Spec
CONSTANTS
  u1 = u1
  loop = loop
  click = click
  reset = reset
  roller = roller
  editor = editor
  enforcer = enforcer
  Users = {u1}
  Syncers = {loop, click}
  Resetters = {}
  Roller = roller
  Editor = editor
  Enforcer = enforcer
  Periods <- Daily
  Length <- Lengths
  Quota = 0
  Cap <- NoCaps
  FirstReset <- SecondHour
  MaxTraffic = 2
  MaxTime = 1
  MaxRestarts = 0
  MaxRequests = 0
  MaxFailures = 0
PROPERTIES
  BaselineIsFresh
