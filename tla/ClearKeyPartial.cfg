SPECIFICATION Spec
CONSTANTS
  Sessions = {s1, s2}
  KeyIds <- MCKeyIds
  LengthModulus = 2
  MaxEntries = 2
  MaxCalls = 5
  Garbled = Garbled
INVARIANT StoredIsAnnounced
CHECK_DEADLOCK FALSE
