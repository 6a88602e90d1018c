\* Every plan and configuration of MCRuntime; the model may answer,
\* reject, answer late or never. Then the other families.
SPECIFICATION SuiteSpec
CONSTANTS
    Plans <- MCPlans
    Configs <- MCConfigs
    MaxActions <- MCMaxActions
    MaxExternal <- MCMaxExternal
    MaxIrreversible <- MCMaxIrreversible
    None = None
    Torn = Torn
    a1 = a1
    a2 = a2
INVARIANTS
    DependenciesComeFirst
    FailureStopsDependents
    CallsAreGoverned
    EvaluationIsHonest
    AutonomyIsKept
PROPERTIES
    StepsAreFinal
    PipelineEnds
\* A run ends.
CHECK_DEADLOCK FALSE
