SPECIFICATION FairSpec
CONSTANTS
  Downloads = {d1, d2}
  Overwrite = {d2}
  Length = 2
  Declared = {d1}
  Capacity = 1
  RenameReplaces = {TRUE, FALSE}
  None = None
INVARIANTS DestinationComplete OutcomeIsTrue
PROPERTIES NoClobber ProgressMonotone CancelledEnds
