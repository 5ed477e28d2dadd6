SPECIFICATION Spec
CONSTANTS
  Outputs <- AllOutputs
  Forks <- OneBranch
  MaxHeight = 3
  StartHeight = 1
  FinalityConfirmations = 1
  Chain <- ThreeBlocks
  Pays <- Payments
  Spends <- Inputs
  Watchable = {"a", "b"}
  Signers = {}
  Scanner = "indexer"
  External = TRUE
  BatchSize = 1
  MaxAttempts = 1
  Calls = 1
  CacheSize = 2
  MaxRestarts = 0
  LateSigning = FALSE
  Faulty = FALSE
INVARIANT SpendersListed
CHECK_DEADLOCK FALSE
