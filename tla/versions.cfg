SPECIFICATION SuiteSpec
CONSTANTS
    c1 = c1
    c2 = c2
    Torn = Torn
    None = None
    Client = {c1}
    MaxVersion = 6
    MaxVersions = 3
    ExplicitVersions = FALSE
    ExplicitTargets = TRUE
    Deletes = TRUE
    MaxCrashes = 2
    Caller = {c1, c2}
    Resource <- MCResource
    Gap <- MCGap
    SkillName <- MCSkill
    MinSamples = 1
    KeptResults = 2
    MaxProposals = 3
    MaxRollbacks = 2
    MaxTime = 2
    MaxStops = 1
INVARIANTS VersionsAgree LearningIsGoverned KnowledgeIsKept KnowledgeIsSound
\* The inputs of a behaviour are bounded.
CHECK_DEADLOCK FALSE
