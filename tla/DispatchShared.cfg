SPECIFICATION Spec
CONSTANTS
    w1 = w1
    w2 = w2
    j1 = j1
    a1 = a1
    a2 = a2
    Worker <- TwoWorkers
    Job <- OneJob
    JobOf <- SharedJob
    Action <- TwoActions
    Budget = 2
    MaxCalls = 3
    MaxEvidence = 1
CHECK_DEADLOCK FALSE
SYMMETRY Symmetry
CONSTRAINT FewDispatches
INVARIANTS
    TypeOK
    RefusalsAreRepeats
    NoSlotTaken
    SessionNotOvercharged
