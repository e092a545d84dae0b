SPECIFICATION FairSpec
CONSTANTS
  Starts = {r1}
  Cancellable = {r1}
  Stops = {q1, q2}
  Ids = {a}
  Limit = 1
  FailureKinds = {"permanent"}
  NoSession = NoSession
PROPERTIES CancelledStartEnds StopEnds ErrorEventuallyShown
