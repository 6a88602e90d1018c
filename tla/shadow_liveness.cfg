SPECIFICATION FairSpec
CONSTANTS
    NumTasks = 3
    MaxConcurrentTasks = 1
    Priority <- PriorityC
    MaxRetries <- RetriesC
    Recurring <- RecurringC
    MaxRuns <- RunsC
    MaxCrashes = 0
    MaxSaves = 2
    Persistence = FALSE
    Reentrant = FALSE
PROPERTIES NoStarvation SlotsAreFreed
