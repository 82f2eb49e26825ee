SPECIFICATION Spec
CONSTANTS
  WidthOf <- MCWidthOf
  MaxSteps = 200
  MaxRounds = 4
  Programs <- MCPrograms
  Environments <- MCEnvironments
CHECK_DEADLOCK FALSE
INVARIANTS AcceptedIsBuilt ComputesAsWritten VariablesAreReleased
