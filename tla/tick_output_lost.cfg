\* At the real size: a plan of three steps emits twelve signals, and OUTPUT_READY is the last.
SPECIFICATION FairSpec
CONSTANTS
    Tick = {t1, t2}
    Content = {a, b}
    Steps = {3}
    FaultChoices = {FALSE}
    MaxSignalsOut = 10
    ReadLimit = 100
    None = None
PROPERTY OutputReachesCaller
