SPECIFICATION MCSpec
CONSTANTS
  MaxValueParms = 4
  Programs <- AllSamples
  Modules <- AllModules
INVARIANTS
  MessagesNameTheDefinition MeansWhatIsWritten RefusalIsExplained ReadsTheGrammar RangesFindTheText
  TreesWellTyped  CallsAreCompiled InstancesFollowSource
  WellFormed LiftsEnd NoCallsLeft MeaningKept
PROPERTY CleanUpShrinks
CHECK_DEADLOCK FALSE
