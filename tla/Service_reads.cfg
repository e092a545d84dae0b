SPECIFICATION Spec
CONSTANTS
  Keys = {1, 2, 3, 4}
  Sizes = {0, 1, 9}
  Cadences = {1}
  Failures <- MCFailures
  Capacity = 4
  MinSizeObservations = 3
  MaxTime = 2
  MaxHistoryLimit = 4
  MaxResponseObjects = 3
CHECK_DEADLOCK FALSE
INVARIANTS ReadsAgree TotalsAgree StatisticsAgree EpisodeKeepsItsBeginning
