SPECIFICATION FairSpec
CONSTANTS
  Vals = {v1, v2}
  Funs = {f1}
INVARIANTS SortedOrReported NoFalseAlarm AllOnce SortedOffCycle
PROPERTY Terminates
