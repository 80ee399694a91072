CONSTANTS
  launch = launch
  unknown = unknown
  c1 = c1
  c2 = c2
  None = None
  Cpus <- OneCpu
  Paths <- WithUnknown
  Scripts <- MCScripts
  UT <- MCUT
  Deadline = 2
  MaxGap = 1
  PingCap = 1
  MaxBacklog = 2
  MaxDispatch = 2
  MaxBoot = 2
  MaxSwitch = 0
  MaxDeath = 0
  MaxLoad = 1
  MaxCut = 0
SPECIFICATION Spec
INVARIANTS TypeOK RunningIsTrue
PROPERTIES OwnRunWatched
