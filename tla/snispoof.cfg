SPECIFICATION FairSpec
CONSTANTS
  h1 = h1
  h2 = h2
  m1 = m1
  m2 = m2
  Handlers = {h1}
  Manager = Manager
  Run = Run
  Marks = {m1, m2}
  NoMark = NoMark
  MaxEdits = 1
  MaxRestarts = 1
  MaxFaults = 2
INVARIANTS
  TypeOK
PROPERTIES
  Supervises
  EventuallySettled
CHECK_DEADLOCK FALSE
