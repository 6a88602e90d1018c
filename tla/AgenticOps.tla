----------------------------- MODULE AgenticOps -----------------------------
(***************************************************************************)
(* src/src/ops/agentic-ops.ts and the command "synth ops"                  *)
(* (src/src/cli/commands/ops.ts): a queue of goals and a state file with   *)
(* the daily budget and the flags stopped and autopause. Every command is  *)
(* a process of its own that loads a file, changes it and saves it, with   *)
(* other processes at work between the awaits; writeFile truncates before  *)
(* it writes, so a reader may find nothing, and a process may end anywhere.*)
(***************************************************************************)
EXTENDS Integers, Sequences, SequencesExt, FiniteSets, FiniteSetsExt

CONSTANTS
    OpsProcess,     \* processes that may run a command at the same time
    NumGoals,       \* goals that are ever enqueued (bound)
    MaxRetries,     \* MaxRetries[g]: AutonomousGoalItem.maxRetries
    Preapproved,    \* the goals whose approvalScope is "preapproved"
    Score,          \* Score[g]: the totalScore of scoreGoalPortfolio
    Budget,         \* SYNTH_OPS_DAILY_BUDGET, the default init() is given
    FallbackBudget, \* the default of loadState() in every other place (10)
    Unreadable,     \* a file that cannot be read: none, or truncated and not yet written
    MaxOpsCommands, \* commands that are ever started (bound),
    MaxDisturbed,   \* and as long as some have overlapped or been cut short (bound)
    MaxCrashes      \* processes that end in the middle of a command (bound)

Goal == 1..NumGoals
GoalStatus == {"queued", "running", "completed", "failed", "escalated", "autopaused"}
GoalItem == [id : Goal, retries : Nat, status : GoalStatus]

OpsState == [budget : Nat, consumed : Nat, autopause : BOOLEAN, stopped : BOOLEAN]
DefaultState(budget) ==
    [budget |-> budget, consumed |-> 0, autopause |-> FALSE, stopped |-> FALSE]

ASSUME OpsAssumption ==
    /\ NumGoals \in Nat /\ Budget \in Nat /\ FallbackBudget \in Nat /\ MaxRetries \in [Goal -> Nat]
    /\ Unreadable \notin OpsState /\ Unreadable \notin Seq(GoalItem)

VARIABLES
    stateFile,   \* ops/state.json
    queueFile,   \* ops/queue.json
    doing,       \* doing[p]: the command of p and the await it is at
    mem,         \* mem[p]: the state and the queue that p has loaded
    approved,    \* approved[p]: the goals given by --approved=
    enqueued,    \* goals that exist
    executed,    \* history: the goals that were executed, one after the other
    commands,    \* commands started
    crashes,
    disturbed    \* history: commands overlapped, or one was cut short

opsFiles == <<stateFile, queueFile>>
opsVars == <<opsFiles, doing, mem, approved, enqueued, executed, commands, crashes, disturbed>>

NoCommand == [name |-> "none", at |-> 0]
Empty == [state |-> DefaultState(0), queue |-> <<>>]

OpsInit ==
    /\ stateFile = Unreadable /\ queueFile = Unreadable   \* no file yet: readFile throws as well
    /\ doing = [p \in OpsProcess |-> NoCommand]
    /\ mem = [p \in OpsProcess |-> Empty]
    /\ approved = [p \in OpsProcess |-> {}]
    /\ enqueued = 0 /\ executed = <<>>
    /\ commands = 0 /\ crashes = 0 /\ disturbed = FALSE

Busy(p) == doing[p] # NoCommand
OthersBusy(p) == \E q \in OpsProcess \ {p} : Busy(q)

\* Every command begins with init(), which saves both files again.
Initialise == <<"init state", "truncate state", "write state",
                "load queue", "truncate queue", "write queue">>

\* What each command does then, one entry per await. A run comes back to "select".
Work ==
    [inspect   |-> <<>>,
     enqueue   |-> <<"enqueue", "truncate queue", "write queue">>,
     stop      |-> <<"stop", "truncate state", "write state">>,
     autopause |-> <<"autopause", "truncate state", "write state">>,
     resume    |-> <<"resume", "truncate state", "write state",
                     "end autopause", "truncate state", "write state">>,
     run       |-> <<"load state", "load queue", "select", "execute",
                     "truncate state", "write state", "truncate queue", "write queue">>]
Program(command) == Initialise \o Work[command]

\* Processes that have yet to push their goal.
Pending == {p \in OpsProcess : doing[p].name = "enqueue" /\ doing[p].at <= Len(Initialise) + 1}

BeginOps(p, command) ==
    /\ ~Busy(p) /\ commands < IF disturbed \/ OthersBusy(p) THEN MaxDisturbed ELSE MaxOpsCommands
    /\ command = "enqueue" => enqueued + Cardinality(Pending) < NumGoals
    /\ doing' = [doing EXCEPT ![p] = [name |-> command, at |-> 1]]
    /\ \E goals \in IF command = "run" THEN {{}, 1..enqueued} ELSE {{}} :
          approved' = [approved EXCEPT ![p] = goals]
    /\ commands' = commands + 1
    /\ disturbed' = (disturbed \/ OthersBusy(p))
    /\ UNCHANGED <<opsFiles, mem, enqueued, executed, crashes>>

Awaits(p, step) == Busy(p) /\ Program(doing[p].name)[doing[p].at] = step
AtLast(p) == doing[p].at = Len(Program(doing[p].name))
Move(p, n) == doing' = [doing EXCEPT ![p].at = @ + n]
Leave(p) == doing' = [doing EXCEPT ![p] = NoCommand]
Advance(p) == IF AtLast(p) THEN Leave(p) ELSE Move(p, 1)
\* A process that has ended has no memory.
Forget(p) == mem' = [mem EXCEPT ![p] = Empty]
Unhistorical == UNCHANGED <<approved, commands, crashes, disturbed>>

\* loadState(): a file that cannot be read gives the default state.
LoadedState(budget) == IF stateFile = Unreadable THEN DefaultState(budget) ELSE stateFile
LoadedQueue == IF queueFile = Unreadable THEN <<>> ELSE queueFile

\* What a command changes in the state it has loaded, before it saves it.
EditState(step, s) ==
    CASE step = "stop"          -> [s EXCEPT !.stopped = TRUE]
      [] step = "resume"        -> [s EXCEPT !.stopped = FALSE]
      [] step = "autopause"     -> [s EXCEPT !.autopause = TRUE]
      [] step = "end autopause" -> [s EXCEPT !.autopause = FALSE]
      [] OTHER                  -> s

LoadState(p) ==
    /\ \E step \in {"init state", "load state", "stop", "resume", "autopause", "end autopause"} :
        /\ Awaits(p, step)
        /\ mem' = [mem EXCEPT ![p].state =
                     EditState(step, LoadedState(IF step = "init state" THEN Budget
                                                 ELSE FallbackBudget))]
    /\ Advance(p)
    /\ UNCHANGED <<opsFiles, enqueued, executed>> /\ Unhistorical

LoadQueue(p) ==
    /\ Awaits(p, "load queue")
    /\ mem' = [mem EXCEPT ![p].queue = LoadedQueue]
    /\ Advance(p)
    /\ UNCHANGED <<opsFiles, enqueued, executed>> /\ Unhistorical

\* enqueueGoal() pushes a new goal on the queue it has just loaded.
Enqueue(p) ==
    /\ Awaits(p, "enqueue")
    /\ enqueued' = enqueued + 1
    /\ mem' = [mem EXCEPT ![p].queue =
                 Append(LoadedQueue, [id |-> enqueued + 1, retries |-> 0, status |-> "queued"])]
    /\ Advance(p)
    /\ UNCHANGED <<opsFiles, executed>> /\ Unhistorical

Truncate(p) ==
    /\ \/ Awaits(p, "truncate state") /\ stateFile' = Unreadable /\ UNCHANGED queueFile
       \/ Awaits(p, "truncate queue") /\ queueFile' = Unreadable /\ UNCHANGED stateFile
    /\ Advance(p)
    /\ UNCHANGED <<mem, enqueued, executed>> /\ Unhistorical

Write(p) ==
    /\ \/ Awaits(p, "write state") /\ stateFile' = mem[p].state /\ UNCHANGED queueFile
       \/ Awaits(p, "write queue") /\ queueFile' = mem[p].queue /\ UNCHANGED stateFile
    /\ Advance(p)
    /\ IF AtLast(p) THEN Forget(p) ELSE UNCHANGED mem
    /\ UNCHANGED <<enqueued, executed>> /\ Unhistorical

-----------------------------------------------------------------------------
\* runScheduledGoals(), after its two loads.

\* rankGoalPortfolio(): the best score first, the older goal on a tie.
Eligible(queue) == {i \in DOMAIN queue : queue[i].status \in {"queued", "failed"}}
Best(queue) ==
    {i \in Eligible(queue) : \A j \in Eligible(queue) :
        \/ Score[queue[i].id] > Score[queue[j].id]
        \/ Score[queue[i].id] = Score[queue[j].id] /\ i <= j}

ReplaceItem(p, i, item) == mem' = [mem EXCEPT ![p].queue[i] = item]

Paused(p) == mem[p].state.stopped \/ mem[p].state.autopause
Spent(p) == mem[p].state.consumed >= mem[p].state.budget

\* Mutation: a goal that waits for its approval stays eligible.
AwaitApprovalQueued(item) == item

AwaitApproval(item) == [item EXCEPT !.status = "escalated"]

\* The beginning of an iteration up to the call of executeGoal(). The audit
\* records it appends are awaits, but what it changes is in memory.
Select(p) ==
    /\ Awaits(p, "select")
    /\ \/ Paused(p) /\ Leave(p) /\ Forget(p)
       \/ /\ ~Paused(p) /\ Eligible(mem[p].queue) = {}
          /\ Move(p, 2) /\ UNCHANGED mem
       \/ /\ ~Paused(p)
          /\ \E i \in Best(mem[p].queue) :
                LET item == mem[p].queue[i]
                IN \/ /\ Spent(p)
                      /\ ReplaceItem(p, i, [item EXCEPT !.status = "autopaused"]) /\ Move(p, 2)
                   \/ /\ ~Spent(p) /\ item.id \notin Preapproved \cup approved[p]
                      /\ ReplaceItem(p, i, AwaitApproval(item)) /\ UNCHANGED doing
                   \/ /\ ~Spent(p) /\ item.id \in Preapproved \cup approved[p]
                      /\ ReplaceItem(p, i, [item EXCEPT !.status = "running"]) /\ Move(p, 1)
    /\ UNCHANGED <<opsFiles, enqueued, executed>> /\ Unhistorical

\* Mutation: the last retry is taken for one too many, and another is granted.
AfterFailureOnceMore(item) ==
    IF item.retries > MaxRetries[item.id] THEN [item EXCEPT !.retries = @ + 1, !.status = "escalated"]
    ELSE [item EXCEPT !.retries = @ + 1, !.status = "failed"]

AfterFailure(item) ==
    IF item.retries + 1 > MaxRetries[item.id] THEN [item EXCEPT !.retries = @ + 1, !.status = "escalated"]
    ELSE [item EXCEPT !.retries = @ + 1, !.status = "failed"]

\* executeGoal() has answered: the goal is charged to the budget either way.
Executed(p) ==
    /\ Awaits(p, "execute")
    /\ \E i \in DOMAIN mem[p].queue, success \in BOOLEAN :
        LET item == mem[p].queue[i]
        IN /\ item.status = "running"
           /\ mem' = [mem EXCEPT ![p].state.consumed = @ + 1,
                        ![p].queue[i] = IF success THEN [item EXCEPT !.status = "completed"]
                                        ELSE AfterFailure(item)]
           /\ executed' = Append(executed, item.id)
    /\ Move(p, -1)
    /\ UNCHANGED <<opsFiles, enqueued>> /\ Unhistorical

-----------------------------------------------------------------------------
Crash(p) ==
    /\ Busy(p) /\ crashes < MaxCrashes
    /\ crashes' = crashes + 1
    /\ disturbed' = TRUE
    /\ Leave(p) /\ Forget(p)
    /\ UNCHANGED <<opsFiles, approved, enqueued, executed, commands>>

OpsStep(p) ==
    \/ LoadState(p) \/ LoadQueue(p) \/ Enqueue(p) \/ Truncate(p) \/ Write(p)
    \/ Select(p) \/ Executed(p)

OpsNext ==
    \E p \in OpsProcess :
        \/ BeginOps(p, "enqueue") \/ BeginOps(p, "run") \/ BeginOps(p, "inspect")
        \/ BeginOps(p, "stop") \/ BeginOps(p, "autopause") \/ BeginOps(p, "resume")
        \/ OpsStep(p) \/ Crash(p)

\* A process that runs goes on; executeGoal() answers, because processInput()
\* has a timeout.
Fairness == \A p \in OpsProcess : WF_opsVars(OpsStep(p))

OpsSpec == OpsInit /\ [][OpsNext]_opsVars /\ Fairness

-----------------------------------------------------------------------------
OpsTypes ==
    /\ stateFile \in OpsState \cup {Unreadable}
    /\ queueFile # Unreadable => queueFile \in Seq(GoalItem)
    /\ \A p \in OpsProcess : mem[p].state \in OpsState /\ mem[p].queue \in Seq(GoalItem)
    /\ executed \in Seq(Goal)

Runs(g) == Cardinality({i \in DOMAIN executed : executed[i] = g})

\* As long as commands do not overlap and none is cut short, all runs together
\* execute no more goals than the daily budget, and no goal more often than its
\* retries allow; retries and budget come back from the files between runs.
BudgetIsKept ==
    ~disturbed =>
        /\ Len(executed) <= Budget
        /\ \A g \in Goal : Runs(g) <= MaxRetries[g] + 1

\* What a run has executed stays charged to the budget and to the goal.
ReportsAreKept == OpsTypes /\ BudgetIsKept

\* Every command ends, whatever others write meanwhile: each iteration of
\* runScheduledGoals() leaves one goal less to run, or one retry less.
CommandsEnd == \A p \in OpsProcess : Busy(p) ~> ~Busy(p)
=============================================================================
