SPECIFICATION FairSpec
CONSTANTS
  w1 = w1
  w2 = w2
  NumJobs = 4
  Workers <- TwoWorkers
  Capacity = 3
  StuckJobs <- OneStuckJob
  MaxInterrupts = 1
INVARIANTS
  JobsAreAccounted
PROPERTIES
  KeepsStreamPromise
  FailureGetsOut
  ThreadsEnd
