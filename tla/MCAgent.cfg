SPECIFICATION FairSpec
CONSTANTS
  c1 = c1
  Calls <- MCCalls
  MaxAttempts = 2
  MaxEdits = 2
  MaxSyncs = 2
  MaxErrors = 1
  MaxAbsences = 1
  CanEnd = TRUE
INVARIANTS NothingLeaks DenialEndsTheSession
PROPERTIES SettledMeansAcknowledged EverythingEnds
CHECK_DEADLOCK FALSE
