SPECIFICATION FairSpec
CONSTANTS
  Feeds = {f}
  Restorers = {r1, r2}
  MaxFaults = 2
  AutoRestart = {TRUE, FALSE}
  Offered = {"start", "stop"}
  Slow = {f, r1, r2}
  Reports = {"error"}
  Nobody = Nobody
CHECK_DEADLOCK FALSE
INVARIANT NoStrayServer
PROPERTIES CommandsEnd ActiveFeedsRestored DisposedEndsServers
