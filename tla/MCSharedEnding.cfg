SPECIFICATION FairSpec
CONSTANTS
  k1 = k1
  v1 = v1
  v2 = v2
  Absent = Absent
  Keys <- MCKeys
  Vals <- MCVals
  InitialDoc <- MCInitialDoc
  MaxUndo = 1
  TailLimit = 1
  Scenarios <- EndingScenarios
INVARIANTS CheckpointIsLogPrefix
PROPERTIES TerminalIsFrozen ImplementsSettling Converges
CHECK_DEADLOCK FALSE
