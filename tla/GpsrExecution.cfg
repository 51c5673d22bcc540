SPECIFICATION FairSpec
CONSTANTS
  kitchen = kitchen
  office = office
  table = table
  Commands <- TwoCommands
  Rooms = {kitchen, office}
  NoRoom = NoRoom
  Places = {kitchen, office, table}
  NoPlace = NoPlace
  Between = between
  Unknown = unknown
  RoomOf <- Rooming2
  Surveyed = {kitchen, office}
  Posed = {kitchen, office, table}
  Alike <- NoneAlike
  Seeded = {office}
  Reacquire = FALSE
  Batches <- Pairs
  Attempts = 2
  Manips = {TRUE, FALSE}
  IssueModes = {TRUE, FALSE}
  MaxRephrasings = 1
  MaxCustom = 1
  Start = office
  MaxSolve = 1
INVARIANTS StepsInOrder StatusTellsTruth ScoreIsEarned CacheHonestUnlessAstray
PROPERTIES EveryRunEnds
CHECK_DEADLOCK FALSE
