SPECIFICATION Spec
CONSTANTS
  Vals = {v1, v2}
  Funs = {f1}
INVARIANT SortedIfAccepted
