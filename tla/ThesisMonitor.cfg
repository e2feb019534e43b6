SPECIFICATION FairSpec
CONSTANTS
    w1 = w1
    s1 = s1
    e1 = e1
    e2 = e2
    r1 = r1
    r2 = r2
    Ticker <- OneTicker
    Source <- OneSource
    Event <- TwoEvents
    SourceOf <- FromOne
    Invalidating <- NoEvents
    RunId <- TwoRuns
    Reviews = FALSE
    Limit = 1
    ReviewDays = 2
    MaxDay = 2
    MaxWraps = 0
    MaxCrashes = 1
    Statuses <- CloseOnly
CHECK_DEADLOCK FALSE
CONSTRAINT InOrder
INVARIANTS
    TypeOK
    NoEventLost
    AckedByItsRun
PROPERTIES
    ImplementsInbox
    EventsProcessed
