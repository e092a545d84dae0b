SPECIFICATION Spec
CONSTANTS
  Feeds = {f1}
  Sizes = {"normal"}
  Confirm = 2
  Cooldown = 2
  LateAfter = 3
  Policies <- AllKinds
  MaxTime = 3
  None = None
INVARIANT ErrorIsTold
