SPECIFICATION Spec
CONSTANTS
    w1 = w1
    w2 = w2
    p1 = p1
    p2 = p2
    Worker <- TwoWorkers
    Process <- TwoProcesses
    ProcessOf <- Apart
    MaxEmits = 3
INVARIANTS
    TypeOK
    JournalReadable
    LostOnlyToAnother
PROPERTIES
    ImplementsLog
