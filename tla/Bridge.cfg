SPECIFICATION FairSpec
CONSTANTS
    t1 = t1
    t2 = t2
    t3 = t3
    note = note
    Tool <- ThreeTools
    Note <- OneNote
    Permits = 2
    MaxSpawns = 2
    MaxLosses = 1
    MaxFaults = 1
CHECK_DEADLOCK FALSE
CONSTRAINTS InOrder LateNote
INVARIANTS
    TypeOK
    PoolNotOversubscribed
    PermitsConserved
    CompletedRunQuiet
    AcceptedCallHasSession
PROPERTIES
    TerminalRowStays
    EndedRunClosed
    CallsReturn
