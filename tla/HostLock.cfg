SPECIFICATION HostSpec
CONSTANTS
  host = host
  guest = guest
  stranger = stranger
  People <- Party
  Host = host
  Face <- FaceSims
  Attire <- AttireSims
  Places <- Spots
  Boxes <- AllBoxes
  NoBox = NoBox
  Floor = 50
  ReacquireFloor = 55
  IdMargin = 5
  VisibleMargin = 6
  ReacquireMargin = 10
  ProximityWeight = 15
  NonHostBelow = 35
  GateRadius = 1
  ConfirmTicks = 2
  MissTolerance = 2
  FaceEvery = 2
INVARIANTS LockIsFresh EnrolledNotFollowed FacedNotMatched
PROPERTIES RelockIsEarned
CHECK_DEADLOCK FALSE
