SPECIFICATION Spec
CONSTANTS
  Main = main
  worker = worker
  manual = manual
  NoOne = NoOne
  table = table
  shelf = shelf
  hall = hall
  kitchen = kitchen
  NoRoom = NoRoom
  NoEmb = NoEmb
  Builders <- TwoBuilders
  Batches <- Mixed
  MapObjects <- TwoObjects
  Surveys <- Resurveyed
  Classes <- TwoClasses
  RoomOf <- TwoRooms
  LastPlace = 4
  MergeDist = 1
  NearDist = 1
  Cap = 2
  MaxBuilds = 3
  MaxCrashes = 2
  MaxFaults = 1
INVARIANTS LedgerBalanced EdgesFollowNodes MapObjectsKept
PROPERTIES StalestPruned
CHECK_DEADLOCK FALSE
