SPECIFICATION FairSpec
CONSTANTS
  a = a
  Cap = 2
  Calls <- MCCalls
  MaxFrames = 3
  MaxErrors = 1
  MaxAbsences = 1
  CanRevoke = TRUE
  CanDelete = TRUE
  CanClose = TRUE
INVARIANTS TransportIsOff EventsInOrder
PROPERTIES CallsEnd DeletionIsNoticed
CHECK_DEADLOCK FALSE
