SPECIFICATION Spec
CONSTANTS
  k1 = k1
  k2 = k2
  k3 = k3
  Keys = {k1, k2, k3}
  Vals = {1, 2}
  HashFuns <- MCHashFuns
  InitBuckets = 1
  RemovesCurrent = FALSE
  MaxEntries = 3
  MaxDos = 2
INVARIANT SameEntries
PROPERTY Implements
