SPECIFICATION Spec
CONSTANTS
  Outputs <- OneOutput
  Addresses <- OneAddress
  Owner <- OwnedByOne
  Amount <- Two
  Requests = {r1, r2}
  Questions <- PreparesAndSign
  StartHeight = 1
  MaxHeight = 2
  MaxReorgs = 1
  MaxAsks = 4
  MaxRestarts = 1
  PageSize = 2
  Faulty = TRUE
INVARIANTS AnsweredForGood AnswersWereBuilt
SYMMETRY Symmetry
CHECK_DEADLOCK FALSE
