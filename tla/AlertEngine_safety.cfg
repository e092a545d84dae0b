SPECIFICATION Spec
CONSTANTS
  Feeds = {f1}
  Sizes = {"normal", "empty"}
  Confirm = 2
  Cooldown = 1
  LateAfter = 0
  Policies <- NoLate
  MaxTime = 3
  None = None
INVARIANTS LateAlertsOnce LateIsTold RollUpIsCurrent
