CONSTANTS
  Designs <- MCDesigns
  Missions <- MCMissions
  MaxDv = 4
  MaxOldNodes = 1
CHECK_DEADLOCK FALSE
SPECIFICATION FairSpec
INVARIANTS TypeOK Liftoff PayloadKept ApoapsisHeld OnlyCircFlown QuietRelease
PROPERTIES UnspentKept AscentEnds
