SPECIFICATION FairSpec
CONSTANTS
  r1 = r1
  r2 = r2
  r3 = r3
  t1 = t1
  t2 = t2
  v1 = v1
  v2 = v2
  v3 = v3
  Requests = {r1, r2}
  Touchers = {t1}
  Versions = {v1, v2, v3}
  None = None
  Image = Image
  Found <- Two
  MaxCalls = 2
  MaxFaults = 1
INVARIANTS
  TypeOK
  Effective
PROPERTIES
  LiveWhole
  InstallerFree
