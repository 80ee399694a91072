CONSTANTS
  Interval = 2
  Timeout = 15
  InitialBackoff = 1
  MaxBackoff = 30
  Off = Off
  MaxTurns = 9
  MaxLag = 26
SPECIFICATION FairSpec
INVARIANTS HangNoticed ReachableSoon PausesDouble
PROPERTIES Reconnects
