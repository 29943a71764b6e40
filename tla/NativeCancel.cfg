SPECIFICATION CaseSpec
CONSTANTS
  Sources = {audio}
  StreamLength = 3
  FrameCounts = {1}
  Oversupplies = {2}
  RequestIds = {1, 2, 3}
  MaxOps = 8
  None = None
  Cases = {"CancelledNeedDataIsNotAnError"}
  FaultsOf <- NoFaults
INVARIANT CarriesOnOnceAnswering
CHECK_DEADLOCK FALSE
