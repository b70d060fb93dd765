SPECIFICATION FairSpec
CONSTANTS
  Tests = 2
  MaxHomes = 3
  MaxDepth = 5
INVARIANT StatusTells
PROPERTIES CaughtAtHome HomeNotPassed UnwindingEnds Implements
