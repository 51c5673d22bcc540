SPECIFICATION ServiceFairSpec
CONSTANTS
  first = first
  second = second
  Main = main
  NoThread = NoThread
  Captures <- TwoCaptures
  EveryN = 2
  FirstN = 1
  BuildWindow = 2
  BufferCap = 3
  MapSeeded = FALSE
  Manual = TRUE
  MaxShots = 4
  MaxStarts = 2
INVARIANTS SingleFlight
PROPERTIES QuietAfterStop StopTerminates
CHECK_DEADLOCK FALSE
