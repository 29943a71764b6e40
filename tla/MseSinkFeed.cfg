SPECIFICATION Spec
CONSTANTS
  Cases <- AllCases
  FaultsOf <- Caught
  NumFrames = 5
  MaxFrames = 11
  Place <- DecodeOrder
  None = None
INVARIANTS TimestampsIncrease ReplaysAreLater ConformingSinkPasses FaultySinkIsCaught
PROPERTY SinkCaseEnds
CHECK_DEADLOCK FALSE
