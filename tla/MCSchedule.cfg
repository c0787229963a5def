SPECIFICATION Spec
CONSTANTS
    r = r  o = o  c = c  p1 = p1  p2 = p2
    MinuteMs = 1
    DayMinutes = 3
    OffsetMinutes = 1
    FinalizeMargin = 1
    DeadlineMargin = 2
    MaxSpan = 100
    Forever = forever
    Void = void
    None = none
    Rejected = rejected
    Ids = {r, o}
    Demo = {r}
    Direct = direct
    Procs = {p1, p2}
    Schedules <- MCSchedules
    DemoGrid = 4
    DemoDuration = 1
    Retention = 1
    PurgeLimit = 1
    Subsidies = 2
    Epoch = 7
    MaxTime = 12
    LastDirect = 8
    MaxFailures = 0
    RuleOf <- MCRules
    Authority <- MCAuthority
    Endpoint <- MCEndpoint
    Simulated <- MCSimulated
    Feeds = {"simulated"}
    Arrivals <- MCArrivals
    Sample <- MCSample
    BatchSize = 1
INVARIANTS
    OpensInHours HorizonBounded ReplaysNeverVoid
PROPERTIES
    ImplementsLifecycle
CHECK_DEADLOCK FALSE
