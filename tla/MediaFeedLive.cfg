SPECIFICATION FairSpec
CONSTANTS
  Sources = {audio}
  StreamLength = 3
  FrameCounts = {1}
  Oversupplies = {2}
  RequestIds = {1, 2, 3, 4}
  MaxOps = 3
  None = None
PROPERTIES StreamEnds NoSpaceIsResent
CHECK_DEADLOCK FALSE
