SPECIFICATION Spec
CONSTANTS
  Sessions = {s1, s2}
  KeyIds <- MCKeyIds
  LengthModulus = 2
  MaxEntries = 2
  MaxCalls = 5
  Garbled = Garbled
INVARIANTS TypeOK UsableWasSupplied HeldIsReported BatchIsCompleted
CHECK_DEADLOCK FALSE
