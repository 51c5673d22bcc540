SPECIFICATION LoopSpec
CONSTANTS
  Commands <- ThreeCommands
  Rooms = {kitchen, office}
  NoRoom = NoRoom
  MaxSteps = 2
  MaxLeaving = 2
INVARIANTS StepOrderKept DetoursBounded
CHECK_DEADLOCK FALSE
