SPECIFICATION LiveSpec
CONSTANTS
  r1 = r1
  r2 = r2
  k = k
  s1 = s1
  s2 = s2
  NoSource = NoSource
  Subjects <- OneSubject
  Limit = 1
  Window = 2
  MaxTime = 2
  Producers <- AllProducers
  JobIds <- AllJobIds
  Uncounted <- AllCronJobs
  MaxDepth = 2
  MaxJobs = 1
  Sources <- TwoSources
  Requests <- OneRequest
  Uploads <- OneUpload
  SubjectOf <- OneKey
  MaxDay = 2
  Nights <- FirstNight
  ScanTries = 2
  MaxCrashes = 1
  Faults <- AllFaults
CHECK_DEADLOCK FALSE
INVARIANTS
  TypeOK
  WithinLimit
  DepthBounded
  ScanCovers
PROPERTIES
  RefusedAtLimit
  NightEnds

