SPECIFICATION FairSpec
CONSTANTS
  ann = ann
  bob = bob
  Customers <- Pair
  NoOne = NoOne
  NoFix = NoFix
  Seat <- FarApart
  Biases <- Short
  HandledRadius = 1
  ReacquireRadius = 3
  ServeRadius = 1
  Target = 2
  ExtraAttempts = 1
  MaxFails = 2
  BatchSize = 2
  Tries = 2
  MaxSteps = 1
  Modes <- AllModes
  Sizes <- TwoItems
  MaxUnits <- Sheet
  RaiseBound <- AfterAnOrder
INVARIANTS OneOrderEachIfSure PatienceBounded ServedIsConfirmed
PROPERTIES TaskEnds
CHECK_DEADLOCK FALSE
