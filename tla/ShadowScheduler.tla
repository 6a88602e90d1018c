--------------------------- MODULE ShadowScheduler ---------------------------
(***************************************************************************)
(* The shadow scheduler (src/src/shadow-scheduler): a Map of tasks, an     *)
(* interval timer that picks due tasks by priority and starts them in a    *)
(* bounded number of slots, handlers that race a timeout, retries,         *)
(* recurring tasks, cancellation, and a state file written by the          *)
(* persistence layer and read back when the process boots.                 *)
(*                                                                         *)
(* The program is one JavaScript thread: an action is what runs between    *)
(* two returns to the event loop, except that a processTasks pass is cut   *)
(* at each executeTask it performs, because listeners and handlers called  *)
(* by executeTask may synchronously call the scheduler's own methods.      *)
(* CONSTANT Reentrant says whether they do.                                *)
(*                                                                         *)
(* Time is abstracted: "due" holds the tasks whose nextRunAt has passed.   *)
(***************************************************************************)
EXTENDS Integers, Sequences, SequencesExt, FiniteSets

CONSTANTS
    NumTasks,            \* how many times schedule() is called (bound)
    MaxConcurrentTasks,  \* SchedulerConfig.maxConcurrentTasks
    Priority,            \* Priority[t]: 1 (low) .. 4 (critical)
    MaxRetries,          \* MaxRetries[t]: ScheduleOptions.maxRetries
    Recurring,           \* the tasks with an intervalMs (recurring and cron)
    MaxRuns,             \* MaxRuns[t]: ScheduleOptions.maxRuns, 0 if undefined
    MaxCrashes,          \* how many times the process ends and is restarted (bound)
    MaxSaves,            \* how many saves may be in flight at once (bound)
    Persistence,         \* is there a SchedulerPersistence (enablePersistence)?
    Reentrant            \* do handlers and listeners call the scheduler back?

\* generateId never repeats an id and the Map lists its keys in insertion
\* order, which save and restore keep; ids are numbers in that order.
Task == 1..NumTasks

ASSUME ConstantsAssumption ==
    /\ NumTasks \in Nat
    /\ MaxConcurrentTasks \in Nat
    /\ Priority \in [Task -> 1..4]
    /\ MaxRetries \in [Task -> Nat]
    /\ Recurring \subseteq Task
    /\ MaxRuns \in [Task -> Nat]
    /\ MaxCrashes \in Nat
    /\ MaxSaves \in Nat
    /\ Persistence \in BOOLEAN
    /\ Reentrant \in BOOLEAN

VARIABLES
    up,            \* the process is alive
    started,       \* checkInterval # null
    issued,        \* ids handed out so far, in every life of the process
    tasks,         \* keys of this.tasks
    status,        \* status[t] of the task object, "none" if there is none
    retryCount,
    runCount,
    due,           \* tasks whose nextRunAt is in the past
    runningTasks,  \* keys of this.runningTasks
    aborted,       \* running tasks whose AbortController was aborted
    batch,         \* rest of tasksToRun of the processTasks pass in progress
    zombies,       \* tasks with a handler call that timed out and still runs
    saving,        \* images of the save()s in flight, in the order they were begun
    mixed,         \* the saves in flight have shared the file with another one
    disk,          \* content of the state file
    crashes,
    overtaken,     \* history: in this life a save ended before an older one
    settled        \* history: the tasks a complete file has held as finished

memory == <<tasks, status, retryCount, runCount, due>>
slots  == <<runningTasks, aborted, batch, zombies>>
files  == <<saving, mixed, disk>>
life   == <<up, started, issued, crashes>>
past   == <<overtaken, settled>>
vars   == <<memory, slots, files, life, past>>

-----------------------------------------------------------------------------
\* Status in memory and in the state file; "none": no such object or entry.
Status == {"none", "pending", "running", "completed", "failed", "cancelled"}

\* What the state file can hold: nothing, a file truncated by an unfinished
\* writeFile, or the serialised tasks.
Image == [kind : {"absent", "partial", "saved"},
          status : [Task -> Status], runCount : [Task -> Nat]]

EmptyImage(k) == [kind |-> k, status |-> [t \in Task |-> "none"],
                  runCount |-> [t \in Task |-> 0]]
NoImage == EmptyImage("absent")

Finished == {"completed", "failed"}

\* serializeTask: a running task has no entry; retryCount is not written.
Serialized == {t \in tasks : status[t] # "running"}
Snapshot == [kind |-> "saved",
             status |-> [t \in Task |-> IF t \in Serialized THEN status[t] ELSE "none"],
             runCount |-> [t \in Task |-> IF t \in Serialized THEN runCount[t] ELSE 0]]

\* Mutation: a restart gives failed tasks another chance.
RestoredStatusRetriesFailed(image, t) ==
    IF image.status[t] \in {"running", "failed"} THEN "pending" ELSE image.status[t]

\* restoreTasks resets a running entry to pending.
RestoredStatus(image, t) ==
    IF image.status[t] = "running" THEN "pending" ELSE image.status[t]

\* runCount is read by the scheduler only through maxRuns; it is not counted
\* for a recurring task without maxRuns, where nothing depends on it.
Counted(t) == t \notin Recurring \/ MaxRuns[t] > 0

\* Public methods are called from the event loop, or, if Reentrant, by code
\* that executeTask calls during a pass. Timers and settled promises wait
\* until the pass is over.
EventLoop == up /\ batch = {}
CallerRuns == up /\ (batch = {} \/ Reentrant)

-----------------------------------------------------------------------------
Init ==
    /\ up = TRUE
    /\ started = FALSE
    /\ issued = 0
    /\ tasks = {}
    /\ status = [t \in Task |-> "none"]
    /\ retryCount = [t \in Task |-> 0]
    /\ runCount = [t \in Task |-> 0]
    /\ due = {}
    /\ runningTasks = {}
    /\ aborted = {}
    /\ batch = {}
    /\ zombies = {}
    /\ saving = <<>>
    /\ mixed = FALSE
    /\ disk = NoImage
    /\ crashes = 0
    /\ overtaken = FALSE
    /\ settled = {}

Start ==
    /\ CallerRuns
    /\ ~started
    /\ started' = TRUE
    /\ UNCHANGED <<memory, slots, files, up, issued, crashes, past>>

\* Mutation: stop() clears the timer only.
StopWithoutAbort ==
    /\ CallerRuns
    /\ started
    /\ started' = FALSE
    /\ UNCHANGED <<memory, slots, files, up, issued, crashes, past>>

\* stop() clears the timer and aborts every controller; statuses stay.
Stop ==
    /\ CallerRuns
    /\ started
    /\ started' = FALSE
    /\ aborted' = aborted \cup runningTasks
    /\ UNCHANGED <<memory, runningTasks, batch, zombies, files, up, issued, crashes, past>>

\* schedule(): scheduledAt is now (or omitted), or in the future.
Schedule ==
    /\ CallerRuns
    /\ issued < NumTasks
    /\ issued' = issued + 1
    /\ LET t == issued + 1 IN
         /\ tasks' = tasks \cup {t}
         /\ status' = [status EXCEPT ![t] = "pending"]
         /\ due' \in {due, due \cup {t}}
    /\ UNCHANGED <<retryCount, runCount, slots, files, up, started, crashes, past>>

\* cancelTask, as cancelTask and removeTask use it: a running task's
\* controller is aborted, but its slot and its handler stay.
MarkCancelled(t) ==
    /\ status' = [status EXCEPT ![t] = "cancelled"]
    /\ aborted' = IF status[t] = "running"
                  THEN aborted \cup ({t} \cap runningTasks) ELSE aborted

CancelTask(t) ==
    /\ CallerRuns
    /\ t \in tasks
    /\ MarkCancelled(t)
    /\ UNCHANGED <<tasks, retryCount, runCount, due, runningTasks, batch, zombies, files, life, past>>

RemoveTask(t) ==
    /\ CallerRuns
    /\ t \in tasks
    /\ IF status[t] = "running" THEN MarkCancelled(t) ELSE UNCHANGED <<status, aborted>>
    /\ tasks' = tasks \ {t}
    /\ UNCHANGED <<retryCount, runCount, due, runningTasks, batch, zombies, files, life, past>>

\* The clock reaches a pending task's nextRunAt.
BecomeDue(t) ==
    /\ up
    /\ t \in tasks \ due
    /\ status[t] = "pending"
    /\ due' = due \cup {t}
    /\ UNCHANGED <<tasks, status, retryCount, runCount, slots, files, life, past>>

-----------------------------------------------------------------------------
\* Mutation: the filter forgets the status.
DueIgnoringStatus == {t \in tasks : status[t] # "running" /\ t \in due}

\* The filter and the stable sort of processTasks.
Due == {t \in tasks : status[t] = "pending" /\ t \in due}
Before(t, u) == \/ Priority[t] > Priority[u]
                \/ Priority[t] = Priority[u] /\ t < u
First(S, t) == t \in S /\ \A u \in S \ {t} : Before(t, u)

\* Mutations: the slots in use are not subtracted; one too many is started;
\* the sort is ascending.
TasksToRunIgnoringBusy(S) ==
    /\ S \subseteq Due
    /\ Cardinality(S) <= MaxConcurrentTasks
    /\ \A t \in S, u \in Due \ S : Before(t, u)
TasksToRunOneTooMany(S) ==
    /\ S \subseteq Due
    /\ Cardinality(S) <= MaxConcurrentTasks - Cardinality(runningTasks) + 1
    /\ \A t \in S, u \in Due \ S : Before(t, u)
TasksToRunLowestFirst(S) ==
    /\ S \subseteq Due
    /\ Cardinality(S) <= MaxConcurrentTasks - Cardinality(runningTasks)
    /\ S # Due => Cardinality(S) = MaxConcurrentTasks - Cardinality(runningTasks)
    /\ \A t \in S, u \in Due \ S : Before(u, t)

\* pendingTasks.slice(0, availableSlots)
TasksToRun(S) ==
    /\ S \subseteq Due
    /\ Cardinality(S) <= MaxConcurrentTasks - Cardinality(runningTasks)
    /\ S # Due => Cardinality(S) = MaxConcurrentTasks - Cardinality(runningTasks)
    /\ \A t \in S, u \in Due \ S : Before(t, u)

\* executeTask up to its await.
ExecuteTask(t) ==
    IF t \in runningTasks
    THEN UNCHANGED <<runningTasks, status, runCount>>
    ELSE /\ runningTasks' = runningTasks \cup {t}
         /\ status' = [status EXCEPT ![t] = "running"]
         /\ runCount' = IF Counted(t) THEN [runCount EXCEPT ![t] = @ + 1] ELSE runCount

\* The interval timer fires: the pass picks its tasks and starts the first.
ProcessTasks ==
    /\ EventLoop
    /\ started
    /\ \E S \in SUBSET Due, t \in Due :
         /\ TasksToRun(S)
         /\ First(S, t)
         /\ ExecuteTask(t)
         /\ batch' = S \ {t}
    /\ UNCHANGED <<tasks, retryCount, due, aborted, zombies, files, life, past>>

\* The for loop of the pass goes on with the list it has already made.
ExecuteNext ==
    /\ up
    /\ \E t \in batch :
         /\ First(batch, t)
         /\ ExecuteTask(t)
         /\ batch' = batch \ {t}
    /\ UNCHANGED <<tasks, retryCount, due, aborted, zombies, files, life, past>>

-----------------------------------------------------------------------------
\* Mutation: maxRuns is compared with > instead of >=.
RunsAgainOnceTooOften(t, outcome) ==
    /\ outcome \in {"completed", "cancelled"}
    /\ ~(MaxRuns[t] > 0 /\ runCount[t] > MaxRuns[t])
    /\ t \in Recurring

\* scheduleNextRun's three early returns.
RunsAgain(t, outcome) ==
    /\ outcome \in {"completed", "cancelled"}
    /\ ~(MaxRuns[t] > 0 /\ runCount[t] >= MaxRuns[t])
    /\ t \in Recurring

\* Mutation: the controller is not dropped with the slot.
FinallyKeepsController(t, outcome, retries) ==
    /\ runningTasks' = runningTasks \ {t}
    /\ due' = due \ {t}
    /\ status' = [status EXCEPT ![t] = IF RunsAgain(t, outcome) THEN "pending" ELSE outcome]
    /\ retryCount' = [retryCount EXCEPT ![t] = IF RunsAgain(t, outcome) THEN 0 ELSE retries]
    /\ UNCHANGED <<tasks, runCount, aborted, batch, files, life, past>>

\* The finally block of executeTask, the task being left in "outcome".
Finally(t, outcome, retries) ==
    /\ runningTasks' = runningTasks \ {t}
    /\ aborted' = aborted \ {t}
    /\ due' = due \ {t}
    /\ status' = [status EXCEPT ![t] = IF RunsAgain(t, outcome) THEN "pending" ELSE outcome]
    /\ retryCount' = [retryCount EXCEPT ![t] = IF RunsAgain(t, outcome) THEN 0 ELSE retries]
    /\ UNCHANGED <<tasks, runCount, batch, files, life, past>>

\* A listener of taskCompleted or taskFailed runs before the finally block
\* and may cancel the task it is told of.
AfterListeners(t, outcome) ==
    {outcome} \cup (IF Reentrant /\ t \in tasks THEN {"cancelled"} ELSE {})

\* Mutation: a retry does not go back to pending.
FailureOutcomesWithoutReset(t) ==
    IF retryCount[t] + 1 <= MaxRetries[t] THEN {"running"} ELSE AfterListeners(t, "failed")

\* The catch block: retry or give up.
FailureOutcomes(t) ==
    IF retryCount[t] + 1 <= MaxRetries[t] THEN {"pending"} ELSE AfterListeners(t, "failed")

HandlerSucceeds(t) ==
    /\ EventLoop
    /\ t \in runningTasks
    /\ \E outcome \in AfterListeners(t, "completed") : Finally(t, outcome, retryCount[t])
    /\ UNCHANGED zombies

\* The handler throws, rejects or reports a failure, or a listener of
\* taskCompleted throws.
HandlerFails(t) ==
    /\ EventLoop
    /\ t \in runningTasks
    /\ \E outcome \in FailureOutcomes(t) : Finally(t, outcome, retryCount[t] + 1)
    /\ UNCHANGED zombies

\* Mutation: aborting a task clears its timeout.
TimesOutUnlessAborted(t) ==
    /\ EventLoop
    /\ t \in runningTasks \ aborted
    /\ \E outcome \in FailureOutcomes(t) : Finally(t, outcome, retryCount[t] + 1)
    /\ zombies' = zombies \cup {t}

\* The timeout wins the race; nobody stops the handler.
TimesOut(t) ==
    /\ EventLoop
    /\ t \in runningTasks
    /\ \E outcome \in FailureOutcomes(t) : Finally(t, outcome, retryCount[t] + 1)
    /\ zombies' = zombies \cup {t}

\* The last timed-out call of t's handler settles; the race ignores it.
ZombieEnds(t) ==
    /\ up
    /\ t \in zombies
    /\ zombies' = zombies \ {t}
    /\ UNCHANGED <<memory, runningTasks, aborted, batch, files, life, past>>

-----------------------------------------------------------------------------
\* save() looks for no other save: saveState(), the auto-save and its next
\* tick may all be writing. It serialises, then writeFile truncates the file ...
BeginSave ==
    /\ Persistence
    /\ CallerRuns
    /\ Len(saving) < MaxSaves
    /\ saving' = Append(saving, Snapshot)
    /\ mixed' = (saving # <<>>)
    /\ disk' = EmptyImage("partial")
    /\ UNCHANGED <<memory, slots, life, past>>

\* ... and one of the writes is done. The last to be done decides what the
\* file holds, or has left a mixture that does not parse.
EndSave ==
    /\ up
    /\ \E k \in 1..Len(saving) :
         /\ saving' = RemoveAt(saving, k)
         /\ overtaken' = (overtaken \/ k > 1)
         /\ \/ /\ disk' = saving[k]
               /\ settled' = settled \cup {t \in Task : saving[k].status[t] \in Finished}
            \/ /\ mixed
               /\ disk' = EmptyImage("partial")
               /\ UNCHANGED settled
    /\ UNCHANGED <<memory, slots, mixed, life>>

\* The process ends, orderly or not. Only the state file survives; what an
\* overtaken save has put back to waiting is not settled any more.
Crash ==
    /\ up
    /\ crashes < MaxCrashes
    /\ crashes' = crashes + 1
    /\ up' = FALSE
    /\ started' = FALSE
    /\ tasks' = {}
    /\ status' = [t \in Task |-> "none"]
    /\ retryCount' = [t \in Task |-> 0]
    /\ runCount' = [t \in Task |-> 0]
    /\ due' = {}
    /\ runningTasks' = {}
    /\ aborted' = {}
    /\ batch' = {}
    /\ zombies' = {}
    /\ saving' = <<>>
    /\ mixed' = FALSE
    /\ overtaken' = FALSE
    /\ settled' = {t \in settled : ~overtaken \/ disk.status[t] # "pending"}
    /\ UNCHANGED <<disk, issued>>

\* Boot: handlers are registered, load() and restoreTasks() run. A file that
\* does not exist or does not parse restores nothing.
Boot ==
    /\ ~up
    /\ up' = TRUE
    /\ tasks' = {t \in Task : disk.status[t] # "none"}
    /\ status' = [t \in Task |-> RestoredStatus(disk, t)]
    /\ runCount' = disk.runCount
    /\ UNCHANGED <<retryCount, due, slots, files, started, issued, crashes, past>>

-----------------------------------------------------------------------------
Next ==
    \/ Start \/ Stop \/ Schedule
    \/ ProcessTasks \/ ExecuteNext
    \/ BeginSave \/ EndSave \/ Crash \/ Boot
    \/ \E t \in Task :
         \/ CancelTask(t) \/ RemoveTask(t) \/ BecomeDue(t)
         \/ HandlerSucceeds(t) \/ HandlerFails(t) \/ TimesOut(t) \/ ZombieEnds(t)

Spec == Init /\ [][Next]_vars

\* The timer of setInterval fires again and again, a started pass runs to its
\* end, the clock advances, and the timeout of a race fires. Handlers need
\* not settle, and nobody need call the public methods.
Fairness ==
    /\ WF_vars(ProcessTasks)
    /\ WF_vars(ExecuteNext)
    /\ \A t \in Task : WF_vars(BecomeDue(t)) /\ WF_vars(TimesOut(t))

FairSpec == Spec /\ Fairness

-----------------------------------------------------------------------------
(***************************************************************************)
(* Properties.                                                             *)
(***************************************************************************)

\* Every variable stays in its type.
TypeOK ==
    /\ up \in BOOLEAN
    /\ started \in BOOLEAN
    /\ issued \in 0..NumTasks
    /\ tasks \subseteq Task
    /\ status \in [Task -> Status]
    /\ retryCount \in [Task -> Nat]
    /\ runCount \in [Task -> Nat]
    /\ due \subseteq Task
    /\ runningTasks \subseteq Task
    /\ aborted \subseteq runningTasks
    /\ batch \subseteq Task
    /\ zombies \subseteq Task
    /\ saving \in Seq(Image)
    /\ mixed \in BOOLEAN
    /\ disk \in Image
    /\ crashes \in 0..MaxCrashes
    /\ overtaken \in BOOLEAN
    /\ settled \subseteq Task

\* processTasks sizes its list once and starts it task by task, with callbacks
\* in between: the slots in use never exceed maxConcurrentTasks.
ConcurrencyLimit == Cardinality(runningTasks) <= MaxConcurrentTasks

\* The status of a task and the slot it holds agree across cancellation,
\* removal, retries and restarts: no task is left "running" without a slot
\* (nothing would ever move it on) and a slot's task is running, unless it
\* was cancelled meanwhile.
SlotAccounting ==
    /\ \A t \in Task : status[t] = "running" => t \in runningTasks
    /\ \A t \in runningTasks : status[t] \in {"running", "cancelled"}
    /\ batch \cap runningTasks = {}

\* How many successful runs a task is asked for: scheduleNextRun refuses
\* another one at maxRuns, and without an interval there is only one.
Runs(t) == IF t \in Recurring THEN MaxRuns[t] ELSE 1

\* Retries are not checked against maxRuns, cancelling does not stop them and
\* a restart forgets retryCount: the attempts charged to a task in its
\* persisted runCount are still bounded by its runs, plus maxRetries in the
\* present life of the process, plus maxRetries for each restart.
RetriesForgiven(t) == crashes * MaxRetries[t]
RunBudget ==
    \A t \in Task :
        Counted(t) => runCount[t] <= Runs(t) + MaxRetries[t] + RetriesForgiven(t)

\* The images that are being written.
InFlight == {saving[k] : k \in 1..Len(saving)}

\* Once a complete state file has held a task as completed or failed, the
\* task neither waits nor runs again, in this life of the process or a later
\* one. The exception is part of the claim: a save that is overtaken by a
\* younger one leaves its older image behind, and if the process ends then, a
\* task that image holds as waiting comes back. While the file, or a save in
\* flight, holds a task as finished, it does not wait or run in any case.
FinishedStaysFinished ==
    \A t \in Task :
        \/ t \in settled
        \/ \E image \in {disk} \cup InFlight : image.status[t] \in Finished
        => t \notin runningTasks \cup batch /\ status[t] # "pending"

\* Cancelling a task is final while the process lives: no pass, retry or
\* rescheduling wakes it (cancelTask, processTasks, scheduleNextRun), though
\* listeners and handlers cancel, remove and schedule in the middle of a pass.
\* The exceptions are a task that holds a slot, whose end decides its status,
\* and one that the pass has picked and not yet started when a callback
\* cancels it: executeTask looks at the slot only and starts it.
CancelIsFinal ==
    [][\A t \in Task :
          /\ up /\ up'
          /\ status[t] = "cancelled"
          /\ t \notin runningTasks \cup batch
          => status'[t] = "cancelled"]_vars

\* While the scheduler is stopped, every handler that holds a slot has had
\* its abort signal: none was started, or missed, by stop().
StopAbortsAll == ~started => runningTasks \subseteq aborted

\* A hung handler, a cancelled or removed task, or a stopped scheduler never
\* keeps a slot for ever, because the timeout of the race fires.
SlotsAreFreed == \A t \in Task : (t \in runningTasks) ~> (t \notin runningTasks)

\* No starvation: if the timer is left running, a waiting task is eventually
\* started (or cancelled or removed), provided every task that recurs for
\* ever ranks behind it in the sort of processTasks.
NoStarvation ==
    \A t \in Task :
        (\A u \in Task \ {t} : Counted(u) \/ Before(t, u)) =>
            (<>[]started =>
                ((t \in tasks /\ status[t] = "pending")
                    ~> (t \notin tasks \/ status[t] # "pending")))

-----------------------------------------------------------------------------
\* The abstraction: a pending task of the Map waits, and so does a task that
\* a pass has picked; a slot is an entry of runningTasks.
Waiting == {t \in tasks : status[t] = "pending"} \cup batch
Pool == INSTANCE SlotPool WITH
            Work <- Task, NumSlots <- MaxConcurrentTasks,
            waiting <- Waiting, active <- runningTasks

\* The scheduler implements the slot pool: it gives slots to waiting work only,
\* never more than there are, returns each slot once, and wakes no work that
\* nobody submitted.
ImplementsSlotPool == Pool!Spec
=============================================================================
