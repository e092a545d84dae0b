SPECIFICATION Spec
CONSTANTS
  Starts = {r1, r2}
  Cancellable = {r1, r2}
  Stops = {q1, q2}
  Ids = {a}
  Limit = 1
  FailureKinds = {}
  NoSession = NoSession
SYMMETRY Symmetry
INVARIANTS LiveWatcherRegistered FailedStartLeavesNoStray
PROPERTY EntryLeavesOnlyWhenCancelled
