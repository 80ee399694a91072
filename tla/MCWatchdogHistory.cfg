CONSTANTS
  launch = launch
  maneuver = maneuver
  b1 = b1
  b2 = b2
  None = None
  Paths <- MCPaths
  Boots <- MCBoots
  UT <- MCUT
  Deadline = 2
  MaxGap = 2
  MaxDispatch = 2
SPECIFICATION HSpec
SYMMETRY Symmetry
INVARIANTS AccountedOnce LinkCoherent SilenceExact LinkExact
PROPERTIES OnlyQuietDie ImplementsTracking
