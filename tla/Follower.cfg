CONSTANTS
  Outputs = {o1}
  Forks <- OneBranch
  MaxHeight = 3
  FinalityConfirmations = 2
  StartHeight = 1
  InBlockSpends = FALSE
SPECIFICATION DatasourcesSpec
INVARIANTS TypeOK Inv AnswersExact CsvTypeOK CsvAnswersExact BlockCopiesTrail
PROPERTIES RollbackBounded ImplementsLedger CsvImplementsLedger
