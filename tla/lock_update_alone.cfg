SPECIFICATION FairSpec
CONSTANTS
    p1 = p1
    p2 = p2
    c1 = c1
    c2 = c2
    c3 = c3
    None = None
    Process <- OneProcess
    Call <- OneCall
    ProcessOf <- ProcessOf1
    Kind <- Update1
    LockTimeout = 2
    SlowHolders = TRUE
    IOFails = FALSE
    MaxCrashes = 0
PROPERTIES UpdateSucceeds
