SPECIFICATION Spec
CONSTANT Programs <- SwapSample
INVARIANT MeaningKept
CHECK_DEADLOCK FALSE
