SPECIFICATION ApplySpec
CONSTANTS
  Callers = {c1, c2}
  MaxSpawns = 2
  MaxCalls = 3
  BackoffCap = 1
  Configs = {A, B}
  Valid = {A, B}
  Missing = Missing
  Torn = Torn
  Names = {goapply}
SYMMETRY Symmetry
INVARIANTS
  ApplyTypeOK
  AppliedOrSignalled
  SkipsAccounted
PROPERTIES
  Supervises
CHECK_DEADLOCK FALSE
