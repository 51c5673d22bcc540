\* One run of the step and a second after an exception.
CONSTANTS
    Attempts = 2
    FollowTimeout = 1
    RecordTimeout = 1
    JoinMargin = 1
    MaxLost = 2
    CmdVel = {TRUE}
    MaxClips = 1
    MaxWords = 1
SPECIFICATION FairSpec
INVARIANTS StoppedByHost OneStream BaseIsStill
PROPERTIES WindsDown
