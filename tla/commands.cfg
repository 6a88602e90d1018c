SPECIFICATION SuiteSpec
CONSTANTS
    p1 = p1
    p2 = p2
    p3 = p3
    s1 = s1
    s2 = s2
    Torn = Torn
    None = None
    Process = {p1, p2}
    Session = {s1, s2}
    Bucket <- TwoBuckets
    Controlled = {s1, s2}
    PolicyPercent = 35
    Windows <- ThreeGates
    GateStages = {"A", "B"}
    RequiredPasses = 1
    ReleaseGuard = FALSE
    DefaultV2 = FALSE
    MaxCommands = 4
    MaxOverlapping = 3
    Unreadable = Unreadable
    OpsProcess = {p1, p2}
    NumGoals = 2
    MaxRetries <- OneRetry
    Preapproved = {2}
    Score <- TwoScores
    Budget = 2
    FallbackBudget = 3
    MaxOpsCommands = 4
    MaxDisturbed = 3
    MaxCrashes = 1
    Nothing = Nothing
    Unusable = Unusable
    AgentSession = {s1, s2}
    Defaults <- ThreeAgents
    Contents <- FourFiles
    Missing = Missing
    Watcher <- TwoLoops
    Tasks <- FourTasks
    Timeout = 2
    MaxFragments = 1
    MaxClock = 3
    MaxChanges = 2
    MaxRoutes = 2
    Absent = Absent
    Broken = Broken
    Request = {s1}
    OpSession = {s1, s2}
    Command = {p1, p2, p3}
    Operator = {"o1", "o2"}
    Tenant <- OwnTenants
    Admin = {"o2"}
    AutoExpire = {1, 2}
    MaxIdle = 1
    MaxTotal = 2
    MaxTime = 4
    MaxCuts = 1
    MaxPolicies = 2
INVARIANTS ReportsAreKept RolloutIsConsistent AgentsAreRouted DeadlinesHold
PROPERTIES CommandsEnd PromotionIsStepwise
\* The commands of a behaviour are bounded.
CHECK_DEADLOCK FALSE
