CONSTANTS
  Outputs = {o1}
  Forks <- BranchTags
  MaxHeight = 5
  FinalityConfirmations = 3
  FirstTip = 0
  MaxReorgs = 2
  MaxReorgDepth = 3
  StartHeight = 0
  BatchLimit = 2
  Faults = {"rpc", "ack", "stop", "restart"}
  MaxFaults = 2
  Together = FALSE
  Prompt = TRUE
  OutrunsWindow = FALSE
SPECIFICATION FairSpec
INVARIANTS TypeOK HashesWitnessAnswers FinalOnChain
PROPERTIES FinalStays Converges FollowsProtocol
