SPECIFICATION Spec
CONSTANT Programs <- LostBlockSample
INVARIANT BlocksHaveBodies
CHECK_DEADLOCK FALSE
