SPECIFICATION Spec
CONSTANT Programs <- UnmetSample
CONSTANT MaxValueParms = 4
INVARIANT InstancesNeverFail
CHECK_DEADLOCK FALSE
