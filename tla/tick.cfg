\* Two ticks of one session that overlap at every await, with and without slow
\* loops and a failing disk. Scaled down: three signals may leave a loop; a plan
\* without steps has three, a plan of one step six. Then the other families.
SPECIFICATION SuiteSpec
CONSTANTS
    Tick = {t1, t2}
    Content = {a}
    Steps = {0, 1}
    FaultChoices = {TRUE, FALSE}
    MaxSignalsOut = 3
    ReadLimit = 4
    None = None
    Torn = Torn
    a1 = a1
    a2 = a2
    old = old
    contrary = contrary
    other = other
INVARIANTS
    TypeOK
    OfferedBelowCursor
    RunsAreOnRecord
    PublishedOnce
PROPERTIES
    InputIsAnswered
