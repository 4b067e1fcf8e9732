SPECIFICATION LiveSpec
CONSTANTS
  r1 = r1
  r2 = r2
  s1 = s1
  s2 = s2
  a1 = a1
  a2 = a2
  NoKey = NoKey
  Runs <- TwoRuns
  Keys <- AllKeys
  Plan <- PlanAll
  Senders <- OneSender
  MaxAttempts = 2
  MaxTries = 2
  MaxCrashes = 1
  Faults <- LosingFaults
CHECK_DEADLOCK FALSE
INVARIANTS
  SentAfterAllCreated
PROPERTIES
  DeliveryLedgerSpec
  DeliveryEnds
