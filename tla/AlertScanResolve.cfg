SPECIFICATION Spec
CONSTANTS
  a = a
  b = b
  c = c
  s1 = s1
  s2 = s2
  u1 = u1
  NoDoc = NoDoc
  NoScan = NoScan
  Docs = {1}
  Keys <- OneKey
  DocOf <- KeyDocs
  Rank <- KeyRanks
  Scans <- OneScan
  Resolvers <- OneResolver
  MaxDrifts = 0
  MaxCrashes = 0
  Faults <- OnlyDelete
CHECK_DEADLOCK FALSE
INVARIANTS
  ResolveAnswers
