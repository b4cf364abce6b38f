SPECIFICATION ApplyFairSpec
CONSTANTS
  Callers = {c1}
  MaxSpawns = 3
  MaxCalls = 3
  BackoffCap = 1
  Configs = {A, B}
  Valid = {A, B}
  Missing = Missing
  Torn = Torn
  Names = {goapply}
PROPERTIES
  AppliedRuns
  RestartRespawns
CHECK_DEADLOCK FALSE
