SPECIFICATION FairSpec
CONSTANTS
    p1 = p1
    p2 = p2
    c1 = c1
    c2 = c2
    c3 = c3
    None = None
    Process <- TwoProcesses
    Call <- ThreeCalls
    ProcessOf <- ProcessOf3
    Kind <- Kind3
    LockTimeout = 2
    SlowHolders = FALSE
    IOFails = TRUE
    MaxCrashes = 1
INVARIANTS MutualExclusion NothingLeftBehind
PROPERTIES CallsReturn
