SPECIFICATION Spec
CONSTANTS
  apply = apply
  raw1 = raw1
  raw2 = raw2
  ensure = ensure
  tmpApply = tmpApply
  tmpRaw = tmpRaw
  tmpEnsure = tmpEnsure
  Writers = {raw1, raw2}
  TmpNames = {tmpRaw}
  TmpOf <- SharedTmp
  Values = {v1, v2}
  None = None
  Torn = Torn
  Inodes <- FourInodes
PROPERTIES
  InvalidNeverReplaces
