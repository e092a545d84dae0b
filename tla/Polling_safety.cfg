SPECIFICATION FairSpec
CONSTANTS
  Keys = {1, 2, 3}
  Under <- MCUnder
  TargetsAt <- MCTargetsAt
  PageSize = 1
  Capacity = 2
  MinSizeObservations = 8
  ChannelCapacity = 1
  MaxTime = 2
  MaxPuts = 3
CHECK_DEADLOCK FALSE
INVARIANT RetainedIsNewest
PROPERTIES ChangesAreTheDifference CancelledRunEnds
