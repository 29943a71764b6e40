SPECIFICATION Spec
CONSTANTS
  Cases <- AllCases
  FaultsOf <- Caught
  Session = s1
  Garbled = Garbled
INVARIANTS BackendPasses FaultyKeysAreCaught
PROPERTY KeysCaseEnds
CHECK_DEADLOCK FALSE
