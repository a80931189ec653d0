SPECIFICATION FairSpec
CONSTANTS
  BackoffSteps = 2
  MaxSockets = 5
  MaxTimers = 3
  MaxPromises = 5
  MaxConnects = 2
INVARIANTS StaysDisconnected NoLeakedSocket
PROPERTIES ImplementsTransport
CHECK_DEADLOCK FALSE
