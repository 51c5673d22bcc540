SPECIFICATION FairSpec
CONSTANTS
  Capture = capture
  worker = worker
  manual = manual
  NoOne = NoOne
  Builders <- OneBuilder
  Cap = 2
  Window = 2
  MaxFrames = 5
  MaxCrashes = 1
  MaxFaults = 1
INVARIANTS NamedFramesReadable
PROPERTIES PinProtectsWindow SlidesForward BacklogEvicted
CHECK_DEADLOCK FALSE
