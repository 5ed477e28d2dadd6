SPECIFICATION Spec
CONSTANTS
  Outputs <- AllOutputs
  Forks <- OneBranch
  MaxHeight = 3
  StartHeight = 1
  FinalityConfirmations = 1
  Chain <- ThreeBlocks
  Pays <- Payments
  Spends <- Inputs
  Watchable = {"a", "b"}
  Signers = {"s"}
  Scanner = "indexer"
  External = TRUE
  BatchSize = 1
  MaxAttempts = 2
  Calls = 2
  CacheSize = 1
  MaxRestarts = 1
  LateSigning = FALSE
  Faulty = TRUE
INVARIANTS TypeOK ReportsAreExact NothingStale NewOutputsTracked LossesHideSpendsOnly
PROPERTIES ScanEnds WatchGranted CatchesUp
CHECK_DEADLOCK FALSE
