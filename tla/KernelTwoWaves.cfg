SPECIFICATION Spec
CONSTANTS
    c1 = c1
    c2 = c2
    e1 = e1
    e2 = e2
    Client <- OneClient
    Evidence <- TwoFindings
    MaxJobs = 8
    MaxWaves = 2
    MaxParallel = 3
    CommitteeParallel = 3
    MaxWaveCounter = 2
    Calls <- TwoWaveCalls
    MayCrash = FALSE
CHECK_DEADLOCK FALSE
SYMMETRY Symmetry
CONSTRAINT OneSourcePerWave
INVARIANTS
    FreezeCoversWave
    NoPartialTrio
    AnalysesFiled
PROPERTIES
    CompletedWhole
