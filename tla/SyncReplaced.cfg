CONSTANTS
  Outputs = {o1}
  Forks <- BranchTags
  MaxHeight = 5
  FinalityConfirmations = 3
  FirstTip = 0
  MaxReorgs = 1
  MaxReorgDepth = 4
  StartHeight = 0
  BatchLimit = 2
  Faults = {"stop"}
  MaxFaults = 1
  Together = TRUE
  Prompt = TRUE
  OutrunsWindow = FALSE
SPECIFICATION Spec
INVARIANT HashesWitnessAnswers
