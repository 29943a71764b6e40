SPECIFICATION Spec
CONSTANTS
  Sources = {audio, video}
  StreamLength = 3
  FrameCounts = {1}
  Oversupplies = {0, 2}
  RequestIds = {1, 2, 3}
  MaxOps = 2
  None = None
INVARIANTS TypeOK FedInOrder RetainedNotSkipped OverlapExplained PendingExplained
PROPERTY FeedIsContract
CHECK_DEADLOCK FALSE
