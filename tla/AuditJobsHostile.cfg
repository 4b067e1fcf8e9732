SPECIFICATION Spec
CONSTANTS
  j1 = j1
  j2 = j2
  w1 = w1
  w2 = w2
  NoJob = NoJob
  Jobs <- OneJob
  AuditRuns <- OneJob
  Workers <- TwoWorkers
  Deltas = {0, 1}
  MaxTries = 3
  MaxCrashes = 1
  Faults <- AllFaults
CHECK_DEADLOCK FALSE
INVARIANTS
  TypeOK
  RowConsistent
  RefusedNeverRuns
  ProgressExact
  ProgressNotInvented
PROPERTIES
  UndisturbedIsFinal
