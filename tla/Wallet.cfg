SPECIFICATION Spec
CONSTANTS
  Outputs <- ThreeOutputs
  Addresses <- TwoAddresses
  Owner <- OwnedByTwo
  Amount <- Values
  Requests = {r1, r2}
  Questions <- AllKinds
  StartHeight = 1
  MaxHeight = 2
  MaxReorgs = 1
  MaxAsks = 2
  MaxRestarts = 0
  PageSize = 1
  Faulty = FALSE
INVARIANTS TypeOK PaysWithoutExcess PreparesAgree SignedAreStored
PROPERTIES InputsSpendableTogether SelectedTogether FullPagesStay
SYMMETRY Symmetry
CHECK_DEADLOCK FALSE
