CONSTANTS
  b1 = b1
  b2 = b2
  None = None
  Off = Off
  launch = launch
  maneuver = maneuver
  Clients <- OneClient
  Scripts <- TwoScripts
  QueueDepth = 1
  EventDepth = 1
  FeedDepth = 2
  MaxClick = 2
  MaxUt = 1
  MaxCut = 1
  MaxClose = 1
  MaxDeath = 2
CHECK_DEADLOCK FALSE
SPECIFICATION FairSpec
INVARIANTS TypeOK StatusReaches
PROPERTIES PendingResolves ViewConverges
