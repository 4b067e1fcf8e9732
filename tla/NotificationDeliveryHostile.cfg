SPECIFICATION Spec
CONSTANTS
  r1 = r1
  r2 = r2
  s1 = s1
  s2 = s2
  a1 = a1
  a2 = a2
  NoKey = NoKey
  Runs <- TwoRuns
  Keys <- CompletionKeys
  Plan <- PlanCompletion
  Senders <- TwoSenders
  MaxAttempts = 2
  MaxTries = 3
  MaxCrashes = 1
  Faults <- AllFaults
CHECK_DEADLOCK FALSE
SYMMETRY SameRuns
INVARIANTS
  TypeOK
  AttemptsCoverSends
  DuplicatesNeedACrash
  DeliveredWasReceived
PROPERTIES
  DeliveredIsFinal
