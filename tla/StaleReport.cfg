SPECIFICATION Spec
CONSTANTS
  TestCases <- MCTestCases
  Scopes <- MCScopes
  Tiers <- MCTiers
  Profile = {}
  Slots <- ShippedSlots
  MaxInvocations = 2
  MaxLoose = 0
INVARIANT NewestIsThisRuns
CHECK_DEADLOCK FALSE
