CONSTANTS
  b1 = b1
  b2 = b2
  None = None
  Off = Off
  launch = launch
  maneuver = maneuver
  Clients <- OneClient
  Scripts <- OneScript
  QueueDepth = 3
  EventDepth = 2
  FeedDepth = 2
  MaxClick = 2
  MaxUt = 0
  MaxCut = 0
  MaxClose = 0
  MaxDeath = 0
CHECK_DEADLOCK FALSE
SPECIFICATION Spec
INVARIANTS PendingCovers

