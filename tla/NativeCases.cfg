SPECIFICATION CaseSpec
CONSTANTS
  Sources = {audio}
  StreamLength = 3
  FrameCounts = {1}
  Oversupplies = {2}
  RequestIds = {1, 2, 3}
  MaxOps = 8
  None = None
  Cases <- AllCases
  FaultsOf <- Caught
INVARIANTS ConformingServerPasses FaultIsCaught UnassertedPasses
PROPERTY CaseEnds
CHECK_DEADLOCK FALSE
