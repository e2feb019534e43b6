SPECIFICATION Spec
CONSTANTS
    c1 = c1
    c2 = c2
    e1 = e1
    e2 = e2
    Client <- OneClient
    Evidence <- OneFinding
    MaxJobs = 4
    MaxWaves = 1
    MaxParallel = 3
    CommitteeParallel = 3
    MaxWaveCounter = 2
    Calls <- OneWaveCalls
    MayCrash = TRUE
CHECK_DEADLOCK FALSE
SYMMETRY Symmetry
CONSTRAINT TwoUnfinished
INVARIANTS
    SnapshotsGrounded
PROPERTIES
    TerminalJobsStay
    ImplementsLifecycle
    CompletedWhole
