SPECIFICATION Spec
CONSTANTS
  mine = mine
  other = other
  third = third
  Jobs <- MCJobs
  Own <- MCOwn
  Slots <- MCSlots
  Scenarios <- MCScenarios
  EntryCap = 2
  LogCap = 1
  PreviewBudget = 1
  PageLimit = 2
  MaxPages = 4
  MaxActive = 1
  MaxWire = 2
CHECK_DEADLOCK FALSE
INVARIANTS StoreIsBounded LogsAreTheNewest VerdictsAreTrue QuietMeansShown LogsAreComplete NoPassIsStuck
PROPERTIES LossIsCurrent
