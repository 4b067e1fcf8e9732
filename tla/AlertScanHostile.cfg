SPECIFICATION Spec
CONSTANTS
  a = a
  b = b
  c = c
  s1 = s1
  s2 = s2
  u1 = u1
  NoDoc = NoDoc
  NoScan = NoScan
  Docs = {1}
  Keys <- OneKey
  DocOf <- KeyDocs
  Rank <- KeyRanks
  Scans <- TwoScans
  Resolvers <- OneResolver
  MaxDrifts = 2
  MaxCrashes = 1
  Faults <- AllFaults
CHECK_DEADLOCK FALSE
SYMMETRY SameScans
INVARIANTS
  TypeOK
  AtMostOneOpen
  ScanIsExact
  ScoreUpToDate
  CreatedIsNotified
