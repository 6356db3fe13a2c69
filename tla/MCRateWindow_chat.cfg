CONSTANTS
    w1 = w1
    w2 = w2
    ana = ana
    session = session
    address = address
    Worker <- TwoWorkers
    Caller <- OneCaller
    Key <- ChatKey
    Route <- ChatRoute
    Limit <- ChatLimit
    Window <- ChatWindow
    Slack <- ChatSlack
    TicksPerSecond = 2
    MaxStall = 1
    MaxTime = 5
SYMMETRY Interchangeable
SPECIFICATION Spec
INVARIANTS
    TypeOK
    ExpiryLosesNothing
    AdmittedWithinLimit
    DenialHasCause
    WaitIsBounded
CHECK_DEADLOCK FALSE
