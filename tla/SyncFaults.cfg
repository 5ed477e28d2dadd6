CONSTANTS
  Outputs = {o1}
  Forks <- BranchTags
  MaxHeight = 3
  FinalityConfirmations = 2
  FirstTip = 0
  MaxReorgs = 1
  MaxReorgDepth = 2
  StartHeight = 0
  BatchLimit = 2
  Faults = {"rpc", "ack", "stop", "database", "restart"}
  MaxFaults = 1
  Together = TRUE
  Prompt = FALSE
  OutrunsWindow = TRUE
SPECIFICATION Spec
INVARIANTS AnswersFollowChain
PROPERTIES FollowsProtocol
