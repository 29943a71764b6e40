SPECIFICATION Spec
CONSTANTS
  TestCases <- MCTestCases
  Scopes <- MCScopes
  Tiers <- MCTiers
  Profile = {}
  Slots <- MCSlots
  MaxInvocations = 2
  MaxLoose = 1
INVARIANTS PassIsEarned FailureHasCause TornDown
PROPERTY EveryInvocationEnds
CHECK_DEADLOCK FALSE
