SPECIFICATION Spec
CONSTANTS
  apply = apply
  raw1 = raw1
  raw2 = raw2
  ensure = ensure
  tmpApply = tmpApply
  tmpRaw = tmpRaw
  tmpEnsure = tmpEnsure
  Writers = {apply, raw1, ensure}
  TmpNames = {tmpApply, tmpRaw, tmpEnsure}
  TmpOf <- DistinctTmp
  Values = {v1, v2}
  None = None
  Torn = Torn
  Inodes <- FourInodes
INVARIANTS
  TypeOK
  NeverTorn
PROPERTIES
  SavesAtomic
