SPECIFICATION Spec
CONSTANTS
    c1 = c1
    c2 = c2
    e1 = e1
    e2 = e2
    Client <- TwoClients
    Evidence <- OneFinding
    MaxJobs = 1
    MaxWaves = 1
    MaxParallel = 3
    CommitteeParallel = 3
    MaxWaveCounter = 2
    Calls <- ReviveCalls
    MayCrash = FALSE
CHECK_DEADLOCK FALSE
SYMMETRY Symmetry
PROPERTIES
    TerminalJobsStay
