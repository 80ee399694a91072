CONSTANTS
  c1 = c1
  c2 = c2
  c3 = c3
  v1 = v1
  v2 = v2
  Cpus <- MCCpus
  Vessels <- MCVessels
  MaxDie = 1
  MaxDock = 1
  MaxUndock = 1
  MaxSend = 1
CHECK_DEADLOCK FALSE
SPECIFICATION FairSpec
INVARIANTS SharedOnlyByRace
PROPERTIES HolderAppears SoleHolderServes
