SPECIFICATION Spec
CONSTANTS
  k1 = k1
  v1 = v1
  v2 = v2
  Absent = Absent
  Keys <- MCKeys
  Vals <- MCVals
  InitialDoc <- MCInitialDoc
  MaxUndo = 1
  TailLimit = 9
  Scenarios <- StaleUndoScenarios
INVARIANTS UndoNeverOverwritesForeign
CHECK_DEADLOCK FALSE
