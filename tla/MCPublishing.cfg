CONSTANTS
    bhp = bhp
    cba = cba
    q1 = q1
    q2 = q2
    Tickers <- MCTickers
    Requests <- MCRequests
    None = None
    DailyCap = 2
    Day = 2
    Week = 3
    Friday = 0
    MaxTime = 3
    MaxPosts = 4
    MaxMishaps = 1

SPECIFICATION Spec

SYMMETRY Symmetry

INVARIANTS
    TypeOK
    ExcessIsBounded
    CooldownHolds
    DigestOncePerWeek

\* Time is bounded.
CHECK_DEADLOCK FALSE
