CONSTANTS
  Outputs = {o1}
  Forks <- OneBranch
  MaxHeight = 3
  FinalityConfirmations = 2
  StartHeight = 1
  InBlockSpends = TRUE
SPECIFICATION DatasourcesSpec
INVARIANT AnswersExact
