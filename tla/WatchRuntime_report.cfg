SPECIFICATION Spec
CONSTANTS
  Starts = {r1, r2}
  Cancellable = {}
  Stops = {q1}
  Ids = {a, b}
  Limit = 1
  FailureKinds = {"permanent"}
  NoSession = NoSession
SYMMETRY Symmetry
INVARIANTS ReportConsistent StoppedShownOnlyWhenCancelled
PROPERTY ImplementsRegistry
