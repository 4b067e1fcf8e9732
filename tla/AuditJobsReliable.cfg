SPECIFICATION LiveSpec
CONSTANTS
  j1 = j1
  j2 = j2
  w1 = w1
  w2 = w2
  NoJob = NoJob
  Jobs <- TwoJobs
  AuditRuns <- OneJob
  Workers <- TwoWorkers
  Deltas = {1}
  MaxTries = 2
  MaxCrashes = 2
  Faults <- ReliableFaults
CHECK_DEADLOCK FALSE
PROPERTIES
  LedgerSpec
  JobEnds
