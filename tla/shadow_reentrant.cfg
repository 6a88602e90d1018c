SPECIFICATION Spec
CONSTANTS
    NumTasks = 3
    MaxConcurrentTasks = 2
    Priority <- Priority3
    MaxRetries <- Retries3
    Recurring <- Recurring3
    MaxRuns <- Runs3
    MaxCrashes = 0
    MaxSaves = 2
    Persistence = FALSE
    Reentrant = TRUE
INVARIANTS TypeOK ConcurrencyLimit SlotAccounting
PROPERTIES ImplementsSlotPool CancelIsFinal
