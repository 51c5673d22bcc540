SPECIFICATION TaskSpec
CONSTANTS
    Objects = {"cup", "can"}
    Places <- MCPlaces
    ApproachAttempts = 3
    GraspAttempts = 3
    Far = 3
    MaxFaults = 1
    DoorAttempts = 2
    SpokenRounds = 3
    MaxWait = 2
    ConfirmReads = 2
    Jobs = {"sink", "tidy", "breakfast", "laundry", "final", "inspection"}
    Retries = 1
    AgentCalls = 1
INVARIANTS RecordHasCause ArmsLeftSafe CountIsLoaded
PROPERTIES TasksEnd
CHECK_DEADLOCK FALSE
