SPECIFICATION FairSpec
CONSTANTS
  j1 = j1
  j2 = j2
  f1 = f1
  Jobs <- MCJobs
  Followers <- MCFollowers
  EventLimit = 2
  MaxEvents = 3
  MaxBatch = 2
  MaxVersions = 2
INVARIANTS NoEventMissed WaitsForNothingPresent
PROPERTIES PollsEnd
CHECK_DEADLOCK FALSE
