CONSTANTS
  k1 = k1
  k2 = k2
  k3 = k3
  v1 = v1
  v2 = v2
  Keys <- MCKeys
  Values <- MCValues
  None = None
  TTL = 2
  MaxEntries = 2
  MaxTime = 5
SPECIFICATION Spec
INVARIANTS WorkingSetKept
PROPERTY IsLossyMap
