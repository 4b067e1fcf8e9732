SPECIFICATION FairSpec
CONSTANTS
  x = x
  y = y
  g1 = g1
  g2 = g2
  NoContent = NoContent
  NoIngest = NoIngest
  NumPaths = 2
  Contents <- TwoContents
  Syncs <- TwoSyncs
  Uploads <- NoUploads
  Files <- SameFiles
  MaxPushes = 1
  MaxCrashes = 1
  Faults <- AllFaults
CHECK_DEADLOCK FALSE
INVARIANTS
  TypeOK
  NeverConflicts
  NoDeadlock
PROPERTIES
  CatalogSpec
  DeletionIsFinal
  IngestEnds
