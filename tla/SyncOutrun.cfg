CONSTANTS
  Outputs = {o1}
  Forks <- BranchTags
  MaxHeight = 5
  FinalityConfirmations = 2
  FirstTip = 0
  MaxReorgs = 1
  MaxReorgDepth = 2
  StartHeight = 0
  BatchLimit = 2
  Faults = {}
  MaxFaults = 0
  Together = TRUE
  Prompt = TRUE
  OutrunsWindow = TRUE
SPECIFICATION Spec
INVARIANT FinalOnChain
