SPECIFICATION FairSpec
CONSTANTS
    c1 = c1
    e1 = e1
    Client <- OneClient
    Evidence <- OneFinding
    MaxJobs = 12
    MaxWaves = 2
    MaxParallel = 6
    CommitteeParallel = 3
    MaxWaveCounter = 2
    Calls <- DirectorCalls
    MayCrash = TRUE
    MaxOutages = 1
    MaxStrays = 1
CHECK_DEADLOCK FALSE
CONSTRAINTS
    OneVerdict
INVARIANTS
    LoopTypeOK
    StagesAgree
    
PROPERTIES
    SessionEnds
