SPECIFICATION LiveSpec
CONSTANTS
  a = a
  b = b
  c = c
  s1 = s1
  s2 = s2
  u1 = u1
  NoDoc = NoDoc
  NoScan = NoScan
  Docs = {1, 2}
  Keys <- ThreeKeys
  DocOf <- KeyDocs
  Rank <- KeyRanks
  Scans <- TwoScans
  Resolvers <- NoResolver
  MaxDrifts = 1
  MaxCrashes = 0
  Faults <- OnlyErrors
CHECK_DEADLOCK FALSE
INVARIANTS
  NoDeadlock
PROPERTIES
  ScanEnds
