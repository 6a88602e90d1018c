SPECIFICATION Spec
CONSTANTS
    NumTasks = 2
    MaxConcurrentTasks = 1
    Priority <- Priority2
    MaxRetries <- Retries2
    Recurring <- Recurring2
    MaxRuns <- Runs2
    MaxCrashes = 1
    MaxSaves = 2
    Persistence = TRUE
    Reentrant = FALSE
INVARIANTS RunBudget FinishedStaysFinished StopAbortsAll
