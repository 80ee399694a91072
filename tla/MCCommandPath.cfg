CONSTANTS
  Altitudes <- MCAltitudes
  Curves <- MCCurves
  Depths <- MCDepths
  Targets <- MCTargets
  Heights <- MCHeights
  Margin = 1
  Iters = 4
  Commands <- MCCommands
  BootId = "1/2"
CHECK_DEADLOCK FALSE
SPECIFICATION MCSpec
INVARIANTS SplitBracketed EntryPlaced BracketNarrow
  KeysDefined LaunchAsAsked ButtonAnswered HeardAsSaid
