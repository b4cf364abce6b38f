SPECIFICATION FairSpec
CONSTANTS
  h1 = h1
  h2 = h2
  Handlers = {h1, h2}
  Manager = Manager
  Run = Run
  MaxSpawns = 5
  MaxEdits = 1
  MaxRestarts = 1
  MaxCrashes = 1
INVARIANTS
  TypeOK
  NoStaleRelay
  ShutdownEnds
PROPERTIES
  Supervises
  EventuallySettled
CHECK_DEADLOCK FALSE
