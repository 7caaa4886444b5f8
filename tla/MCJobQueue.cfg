SPECIFICATION FairSpec
CONSTANTS
  a1 = a1
  s1 = s1
  w1 = w1
  w2 = w2
  host1 = host1
  host2 = host2
  Jobs <- MCJobs
  Kind <- MCKind
  MaxAttempts <- MCMaxAttempts
  Workers <- MCWorkers
  Ids <- MCIds
  IdOf <- OwnHostname
  NoOne = NoOne
  NoJob = NoJob
INVARIANTS
  LeaseExactlyWhileRunning
  AttemptsAndDeadLetters
  HolderIsCurrent
  EachAttemptEndsOnce
PROPERTIES
  EveryJobEnds
  RefinesLifecycle
  NoStaleReport
