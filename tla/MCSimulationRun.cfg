SPECIFICATION SimSpec
CONSTANTS
  s1 = s1
  w1 = w1
  w2 = w2
  host1 = host1
  host2 = host2
  Jobs <- MCJobs
  Kind <- MCKind
  MaxAttempts <- MCMaxAttempts
  Workers <- MCWorkers
  Ids <- MCIds
  IdOf <- MCIdOf
  NoOne = NoOne
  NoJob = NoJob
INVARIANTS
  StatisticsIffSucceeded
  JobDoneMeansRunDone
  CancelledOnlyOnRequest
PROPERTIES
  FinishedRunsKeepState
