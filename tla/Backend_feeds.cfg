SPECIFICATION Spec
CONSTANTS
  Feeds = {f, g}
  Restorers = {r1}
  MaxFaults = 1
  AutoRestart = {TRUE, FALSE}
  Offered = {"start", "stop", "edit", "remove"}
  Slow = {}
  Reports = {"error"}
  Nobody = Nobody
SYMMETRY Symmetry
CHECK_DEADLOCK FALSE
INVARIANTS NoFeedSilentlyDead StoppedIsStopped
