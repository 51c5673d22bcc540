SPECIFICATION Spec
CONSTANTS
    People = {"host", "guest-1", "guest-2", "past"}
    Ids = {"host", "guest-1", "guest-2"}
    Alike <- MCAlike
    MinScore = 50
    FaceWeight = 75
    BoxMargin = 6
    BagEnabled = TRUE
    MaxFaults = 1
INVARIANTS RecordsHaveCause LabelsHaveCause
PROPERTIES TaskEnds
CHECK_DEADLOCK FALSE
