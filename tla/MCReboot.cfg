CONSTANTS
  launch = launch
  unknown = unknown
  c1 = c1
  c2 = c2
  None = None
  Cpus <- TwoCpus
  Paths <- OnlyLaunch
  Scripts <- MCScripts
  UT <- MCUT
  Deadline = 3
  MaxGap = 1
  PingCap = 1
  MaxBacklog = 2
  MaxDispatch = 1
  MaxBoot = 3
  MaxSwitch = 1
  MaxDeath = 1
  MaxLoad = 0
  MaxCut = 1
SPECIFICATION FairSpec
CONSTRAINT SwitchApart
PROPERTIES DeadSessionSettles LinkConverges OwnRunWatched
