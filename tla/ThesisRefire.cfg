SPECIFICATION Spec
CONSTANTS
    w1 = w1
    s1 = s1
    e1 = e1
    e2 = e2
    r1 = r1
    r2 = r2
    Ticker <- OneTicker
    Source <- OneSource
    Event <- OneEvent
    SourceOf <- FromOne
    Invalidating <- OneEvent
    RunId <- TwoRuns
    Reviews = FALSE
    Limit = 1
    ReviewDays = 2
    MaxDay = 2
    MaxWraps = 2
    MaxCrashes = 0
    Statuses <- AllStatuses
CHECK_DEADLOCK FALSE
INVARIANT
    InvalidatorFiresOnce
