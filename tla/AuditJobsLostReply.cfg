SPECIFICATION Spec
CONSTANTS
  j1 = j1
  j2 = j2
  w1 = w1
  w2 = w2
  NoJob = NoJob
  Jobs <- OneJob
  AuditRuns <- OneJob
  Workers <- OneWorker
  Deltas = {1}
  MaxTries = 1
  MaxCrashes = 0
  Faults <- OnlyLostReply
CHECK_DEADLOCK FALSE
PROPERTIES
  CompletedIsFinal
