SPECIFICATION Spec
CONSTANTS
  Cases <- AllCases
  FaultsOf <- Caught
  MaxTries = 3
  MaxLost = 3
INVARIANTS ConformingClientPasses FaultyClientIsCaught UnassertedPasses ServerLeftActive
PROPERTY ClientCaseEnds
CHECK_DEADLOCK FALSE
