SPECIFICATION Spec
CONSTANTS
    w1 = w1
    w2 = w2
    p2 = p2
    p1 = p1
    Worker <- TwoWorkers
    Process <- OneProcess
    ProcessOf <- Together
    MaxEmits = 2
INVARIANT
    JournalReadable
