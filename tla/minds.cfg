SPECIFICATION SuiteSpec
CONSTANTS
    t1 = t1
    t2 = t2
    p1 = p1
    p2 = p2
    p3 = p3
    None = None
    Torn = Torn
    Garbage = Garbage
    Url <- MCUrl
    Allowlists <- MCAllowlists
    Maxima = {1, 2, 3}
    Window = 4
    Request = {t1}
    Options <- MCOptions
    MaxRetries = 2
    Caller = {t1, t2}
    Strategies <- BoundaryStrategies
    MaxAttempts = 2
    Threshold = 3
    MaxBusErrors = 1
    MaxCalls = 3
    Logger = {t1, t2}
    MaxSize = 1
    MaxFiles = 2
    Integrity = TRUE
    MaxTime = 6
    MaxChecks = 5
    MaxLines = 4
    MaxCrashes = 1
    MaxForced = 1
INVARIANTS ReadsAreLimited RetriesAreBounded MemoryIsKept SessionIsInOrder
PROPERTIES ChainsAreKept
\* The inputs of a behaviour are bounded.
CHECK_DEADLOCK FALSE
