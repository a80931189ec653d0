SPECIFICATION Spec
CONSTANTS
  HardOps = 2
  TimedOps = 1
  MaxAge = 3
  MaxJitter = 1
  MinInterval = 2
  MaxTime = 4
  MaxRevision = 3
  MaxDrops = 1
  MaxResyncs = 1
  MaxFailures = 1
  MaxRequired = 1
INVARIANTS SingleFlight NothingDueIsForgotten
PROPERTIES PublicationsAreSpaced
CHECK_DEADLOCK FALSE
