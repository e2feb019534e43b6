SPECIFICATION FairSpec
CONSTANTS
    c1 = c1
    e1 = e1
    Client <- OneClient
    Evidence <- OneFinding
    MaxJobs = 8
    MaxWaves = 2
    MaxParallel = 6
    CommitteeParallel = 3
    MaxWaveCounter = 2
    Calls <- DirectorCalls
    MayCrash = FALSE
    MaxOutages = 0
    MaxStrays = 0
CHECK_DEADLOCK FALSE
CONSTRAINTS
    OneVerdict
PROPERTIES
    GateReached
