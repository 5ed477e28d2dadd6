CONSTANTS
  Outputs = {o1}
  Forks <- BranchTags
  MaxHeight = 4
  FinalityConfirmations = 3
  FirstTip = 2
  MaxReorgs = 0
  MaxReorgDepth = 0
  StartHeight = 2
  BatchLimit = 2
  Faults = {}
  MaxFaults = 0
  Together = TRUE
  Prompt = TRUE
  OutrunsWindow = FALSE
SPECIFICATION Spec
INVARIANT NothingBelowStart
