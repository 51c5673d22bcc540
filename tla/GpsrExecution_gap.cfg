SPECIFICATION Spec
CONSTANTS
  kitchen = kitchen
  office = office
  table = table
  Commands <- OneCommand
  Rooms = {kitchen, office}
  NoRoom = NoRoom
  Places = {kitchen, office, table}
  NoPlace = NoPlace
  Between = between
  Unknown = unknown
  RoomOf <- Rooming2
  Surveyed = {kitchen, office}
  Posed = {kitchen, office, table}
  Alike <- NoneAlike
  Seeded = {office}
  Reacquire = FALSE
  Batches <- Garages
  Attempts = 2
  Manips = {TRUE}
  IssueModes = {FALSE}
  MaxRephrasings = 1
  MaxCustom = 1
  Start = office
  MaxSolve = 3
INVARIANTS UnknownPlaceIsAGap
CHECK_DEADLOCK FALSE
