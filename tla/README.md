# Verification of Synthium Systema

TLA+ models of the parts of Synthium Systema (`src/src/`, TypeScript) whose
correctness depends on the order in which things happen, the TLC runs that check
them on small instances, and TLAPS proofs for the parts where the result matters
for every size. Source paths below are relative to `src/src/` unless they begin
with `src/`.

Contents: 1 how to run, 2 the system, 3 modules and code, 4 suites, runs and
bounds, 5 fairness, 6 proofs, 7 where code and documents disagree, 8 further
observations, 9 what is not modelled, 10 plan.

## 1. How to run

    tlasany  ShadowScheduler.tla             # parse
    tlc -workers 2 -config tick.cfg MCCalls  # one run
    tlapm TickScheduler_proofs.tla           # the proofs of a module

`PROJECT.json` lists the runs with their configuration files, a mutation of the
code for every checked property, the source lines of every definition, the
hazards of the code and the theorems. A definition called a mutation, or
introduced as the wrong way round, is used by no specification: it states a
plausible mistake in the definition that follows it, and the property named
beside it in `PROJECT.json` fails with it.

## 2. The system

Everything runs on the JavaScript event loop: a piece of code runs until its next
`await` (or until a listener calls back synchronously), so what is hard is what
interleaves at awaits and timers, several processes on the same files, and the
end of a process between two writes. Two habits recur all over the code and are
the source of most hazards: *read a file, compute, write all of it back* with
awaits in between and no lock, and *`writeFile` on the file itself*, which
truncates first, so that a crash or an overlapping read sees a torn file.

| Component | State it keeps | Operations | What is hard | Module |
|---|---|---|---|---|
| Runtime facade (`synth-runtime.ts`) | sessions, memories, world states, manifests, governor | processInput, heartbeat | one call over a dozen awaits; two in one millisecond | RuntimeFacade, RuntimeGovernor |
| LLM provider (`llm/`) | embedding cache, degradations | generate, embed, batch | late answers after a timeout; cache at its limit | LanguageModel |
| Signal bus and tick scheduler (`runtime/signal-bus.ts`, `scheduler.ts`) | queue, dedupe window, cursor, ready loops | append, executeTick | ticks of a session overlap; budgets cut loops off | TickScheduler |
| Loops (`loops/`) | published outputs, chains, plans | tick | deltas of an older state; a loop hears itself | TickScheduler, CognitiveLoops |
| Tool pipeline (`runtime/v1-pipeline-adapter.ts`, `tool-executor.ts`) | nodes, results, steps of one run | runPipeline, executeToolDag | levels run concurrently; timeouts do not cancel; four authorities decide in turn | ToolPipeline |
| Policy gate (`policy/gate.ts`) | counters of one run | evaluate | counts before it looks at limits | ToolPipeline |
| Shadow scheduler (`shadow-scheduler/`) | tasks, slots, timer, state file | schedule, cancel, remove, passes, save, load | reentrancy, timeouts, retries, crash during save | ShadowScheduler, SlotPool |
| Atomic file (`utils/atomic-file.ts`) | map of held locks, lock file | write, append, delete, update | stale locks, crashes, not reentrant | AtomicFile |
| Error boundary (`utils/error-boundary.ts`) | breaker per component | execute | calls share a breaker; the report may fail | ErrorBoundary |
| Versioned storage (`learning/versioned-storage.ts`) | data, history, symlink | save, rollback, delete | three writes per operation | VersionedStorage |
| Learning (`learning/`) | proposals, approvals, experiences, knowledge, skills, policies | propose, approve, rollback; train, consolidate, query; induce, select | overlapping saves; merges on stale copies | LearningCategories, ContinualLearning, LearningSubstrate |
| NeuronWaves v2 knowledge (`neuronwaves-v2/transfer-learning`, `world-model`, `abstractions`, `cold-start`) | traces, skills, beliefs, predictions, registries | create, distil, approve; add, persist; register, check | index and file, cache and file disagree | TransferLearning, WorldModel, Abstractions |
| NeuronWaves v2 runtime, shadow, replay | signals, cursor, states, tick records | submit, tick, clear | clearing during ticks; the chain of records | NeuronWavesV2 |
| Canary rollout (`neuronwaves-v2/canary`, `cli/commands/run.ts`) | rollout state, gate report, artifact | gate, promote, rollback, run | several commands on one file | CanaryRollout |
| Agentic operations (`ops/agentic-ops.ts`) | queue and state file | enqueue, stop, resume, autopause, run | read at the start, written at the end of a long run | AgenticOps |
| Multi-agent (`multi-agent/`) | profiles, sessions, timers | create, access, end, route, reload | timers against ends; routing while reloading | MultiAgent |
| Approvals, operator sessions, tenants (`approvals/`, `session/`, `tenant/`, `cli/commands/approve.ts`) | requests, sessions, boundaries, approvals file | decide, expire, touch, approve, deny | decision against expiry | Governance |
| Memory (`memory/`) | layers in files, links; facts and index | add, search, maintain; consolidate, recall | moves between files with a crash in between | CoreMemories, SemanticMemory |
| External read (`external-read/`) | token buckets, audit files | check, fetch, log, rotate | clock arithmetic; rotation while logging | ExternalRead |
| Autonomy (`autonomy/`, `attention/`, ...) | goals, gaps, focus, objectives, knowledge | generate, select, pursue; attend; learn, review | heartbeats overlap; merges on stale copies | GoalAutonomy, Attention, LearningLoop |
| Perception and motivation (`intrinsic-motivation`, `sensorimotor`, `social`, `meta-learning`) | drives, affordances, models of agents, modifications | update, cycle, observe, modify | first calls race the load; cycles overlap | IntrinsicDrive, SensorimotorLoop, SocialModel, SelfModifier |
| Vector store (`vector/`) | vectors, file and temporary file | add, search, persist | timer against changes; torn file | VectorStore |

How they interact: `processInput()` appends to the bus, the heartbeat ticks the
scheduler, the cortex loop runs the pipeline, which asks the gate, the governor and
the model; the answer comes back over the bus, and the facade writes memories,
world state, vectors and manifests. The heartbeat of the runtime also selects and
pursues goals. The CLI commands share files with it and with each other. Most of
the learning, social, sensorimotor and meta-learning classes are wired together by
`IntegratedAutonomousSystem` or used by tests only; they are modelled by themselves.

What makes the components correct, in short: no signal is passed over and no input
is worked on twice; a plan runs in order, within permissions and limits, and its
evaluation says what happened; slots are bounded and given back, and attempts are
bounded over retries and restarts; the lock excludes; what a file names exists; what
was decided, learnt or reported survives overlapping saves and restarts unless a
named hazard took it; every command and every run ends. Section 3 names the property
of each module.

## 3. Modules and how they correspond to the code

Conventions. A variable is a field of a class or a file; an action is a method or
the piece of it between two awaits; a file that `writeFile` is writing is `Torn`
where a crash or another reader may see it so. History variables, introduced as such
beside the declaration, record what happened for a property; nothing the code does
depends on them.
Several modules have a flag such as `mixed`, `disturbed` or `overlapped`, set when two calls of
the same object overlapped in a way the code leaves unprotected. Their properties are
stated in full without the flag's case and say what still holds in it: the loss itself is
listed in section 8.

**Scheduling and files**

- *ShadowScheduler*, with *SlotPool* as its abstract specification. `due` abstracts time.
  A pass of `processTasks` is cut at every `executeTask` (`batch` is the rest of its
  list), because listeners and handlers run inside it and may call back
  (`Reentrant`). After a timeout the handler is a `zombie` without a slot. `saving` has the
  images that are being written, which may be done in any order. `Crash` and `Boot` end and
  restart the process. The refinement mapping is `waiting <- Waiting`,
  `active <- runningTasks`.
- *AtomicFile*: one path, several processes, each with its map of locks (with the age
  of the entry) and calls that interleave at every await. `SlowHolders = FALSE`
  restricts time: work under the lock ends before its entry may be called stale.
  `UpdatesAlone` says that no `update()` has another call of its process beside it.
- *VersionedStorage*: `data`, `history` and `link` of one resource; `job[c]` is a client
  between two awaits with the history it has read.
- *ErrorBoundary*: a call with its strategies, attempts and the shared breaker; a report
  on the bus may fail.

**The way of an input**

- *TickScheduler*: one session: the queue of the bus, the cursor, the ready loops and
  any number of ticks at different awaits. InputLoop, CortexLoop and OutputLoop with
  what they emit; a loop over its budget goes on (`late`). `ProcessInput`, `CallerSees`
  and `CallerGivesUp` are the facade's wait.
- *ToolPipeline* (the policy gate included): one run. The plan is cut and validated, levels begin
  with every node whose dependencies have a result, callbacks of a level begin one after
  the other (`toStart`), then their calls interleave: answers, rejections, timeouts with
  a retry, late answers. The decision on a step is that of the gate, of the policy
  artifact, of the governor's mode and of the tool envelope, in this order.
- *RuntimeFacade* (extends *RuntimeGovernor*): `processInput()` from session to manifest:
  the signals of its session, the ranking of the context, the world state from the
  steps, the memories and the two manifests, await by await. `atWork` has the runs of the
  cortex on the input of a session, several if ticks overlap, each with the signals it has
  still to append.
- *LanguageModel* (extends *RuntimeGovernor*): the reliable provider: truncation,
  timeout, fallback, late answers, the cache of embeddings.
- *VectorStore*: add, remove, search, the persist timer, the two writes, a restart.
- *CognitiveLoops*: executive, critic and monitor loops; ticks overlap and apply their
  deltas to the working state at their end.
- *NeuronWavesV2*: submissions, ticks, `clearSession()`, the loops of the second version,
  the bridge loop and the records with their chain of hashes.

**Knowledge**

- *LearningCategories* (proposals, approval, deployment, rollback, degradation, reset),
  *ContinualLearning* (experiences, training, consolidation, decay, queries),
  *LearningSubstrate* (policies, episodes, skills in four files).
- *TransferLearning* (traces with index, skills with drafts, approval and cache),
  *WorldModel* (belief graph with versions and its writer, contradictions, predictions
  and outcomes), *Abstractions* (three registries, matching, invariants of a plan,
  reconnaissance).
- *CoreMemories* (flash, warm, recent and archive with maintenance), *SemanticMemory*
  (facts from the steps of a run, their index, eviction and restart).

**Autonomy**

- *GoalAutonomy* (goals, gaps, activation, heartbeats, the cycle of the autonomous
  system), *Attention* (focus, queue, conflicts, decay, strategies), *LearningLoop*
  (objectives, the model's answers, reviews).
- *IntrinsicDrive*, *SensorimotorLoop*, *SocialModel*, *SelfModifier*. Each loads its file in
  its first calls, several at once if they come together: `ReadState` takes what the file
  holds, and `ApplyState` (`Initialized`) puts it in place of what is known when the read ends.

**Operation**

- *AgenticOps* (every `synth ops` command), *CanaryRollout* (gate, promote, rollback, run),
  *MultiAgent* (registry with the loops that watch its file, router, sessions), *Governance*
  (requests, operator sessions, tenants, approve and deny), *ExternalRead* (policy with its bucket,
  fetch, audit log).

Properties stand at the end of each module, each with the sentence it formalises.

## 4. Suites, runs, and why the bounds are enough

Components that share no state are checked together: a *suite* (MCLearning, MCRuntime,
MCCalls, MCCommands, MCMinds) puts several modules together, the variable `family` says which of
them a behaviour is about, and it never changes. A suite extends the module whose theorems its
properties repeat (VersionedStorage and LearningCategories, ToolPipeline, TickScheduler, the four modules
of MCCommands, ExternalRead), so that TLC evaluates the assumptions and the definitions the proofs use,
and instantiates the others. A family may be an instance of a
module with other constants (`"mind"` and `"overlapping minds"`), which is how a case that
needs much room in one direction is kept small in the others. A property of a suite is the
conjunction of the properties of its modules, named in its definition.

| Run | Module | What it shows |
|---|---|---|
| `shadow_reentrant` | MCShadowScheduler | 3 tasks, 2 slots, a recurring task with a retry, callbacks that reenter: slots are bounded and agree with the statuses, SlotPool is implemented, cancelling is final unless the pass has picked the task |
| `shadow_restart` | MCShadowScheduler | 2 tasks with retries, 2 saves in flight, a crash: attempts bounded, finished stays finished unless an older save overtakes, stop reaches all |
| `shadow_liveness` | MCShadowScheduler | 1 slot, an endless task ranked last: slots are freed, nobody above it starves |
| `lock` | MCAtomicFile | 2 processes, 3 calls, a crash: mutual exclusion, nothing left behind, every call returns |
| `lock_update_alone` | MCAtomicFile | a single `update()` never writes (violation) |
| `versions` | MCLearning | versions, proposals, degradation, reset, knowledge, substrate, transfers, beliefs, predictions, registries (14 families, 1.9 million states) |
| `pipeline` | MCRuntime | 341 plans under every configuration; goals of runtime and system; attention, outcomes; learn, review (7 families, 1.6 million states) |
| `tick` | MCCalls | two overlapping ticks; governor, model, one call, one input with two runs, two calls in one millisecond, vectors (7 families) |
| `tick_output_lost` | TickScheduler | the output of a plan of three steps is cut off (violation) |
| `commands` | MCCommands | ops, canary, agents, sessions, requests, operators, decisions (7 families) |
| `minds` | MCMinds | rate, policy, fetch, audit; loops, memory layers, facts, boundary, drive, motor, social, modifier, second runtime (18 families, 3.2 million states) |
| `monitor_reliability` | MCMinds | the second tick with outcomes makes the monitor loop throw (violation) |

What the properties of the suites contain:

- `VersionsAgree`: history, data and link name each other correctly (VersionedStorage).
- `LearningIsGoverned`: what is deployed was decided, a rollback is on record, everything
  decided is saved (LearningCategories).
- `KnowledgeIsKept`: what was learnt stays known over merges, decay and restarts; skills,
  policies and episodes agree (ContinualLearning, LearningSubstrate).
- `KnowledgeIsSound`: a skill that can be activated was approved and not deprecated, traces
  are on record, contradictions are linked, the belief file is the graph of its version,
  predictions report what did not match, registries and invariants (TransferLearning,
  WorldModel, Abstractions).
- `CallsAreGoverned`, `DependenciesComeFirst`, `FailureStopsDependents`,
  `EvaluationIsHonest`, `StepsAreFinal`, `PipelineEnds`: one run of the pipeline.
- `ReadsAreLimited`: between any two checks of a host no more than its limit and the refill,
  whoever waits `retryAfter` passes, and retries are justified and counted (ExternalRead).
- `AutonomyIsKept`: goals agree with their list, gaps and achievements; the focus is what was
  asked for in order; what was learnt stays unless forgotten (GoalAutonomy, Attention,
  LearningLoop).
- `RunsAreOnRecord`: no echo is worked on again; answers belong to the session's input, and
  governor, model, memories, world states, manifests and vectors agree with what its runs did
  (TickScheduler, RuntimeGovernor, LanguageModel, RuntimeFacade, VectorStore).
- `ReportsAreKept`, `CommandsEnd`: the daily budget and the retries of a goal over
  several runs, and the end of every command (AgenticOps).
- `RolloutIsConsistent`, `PromotionIsStepwise`: stage, percentage and the counts of each cohort
  agree, and the percentage moves in steps (CanaryRollout).
- `AgentsAreRouted`: the best registered agent for a task, a registry that is current once the last
  change has been read, changes that a loop was told of and will read, and sessions that have a
  timer while they are open (MultiAgent).
- `DeadlinesHold`: no decision after a request has expired, no validation after a session
  has, no tenant entered by a stranger, and decisions that stay in their file (Governance).
- `RetriesAreBounded`: an operation runs no more often than its strategies allow, and a breaker
  agrees with the failures it has counted (ErrorBoundary).
- `ChainsAreKept`, `SessionIsInOrder`: plans and the goal stack over ticks, the signals and
  records of the second runtime, and the replans of both (CognitiveLoops, NeuronWavesV2).
- `MemoryIsKept`: no audit entry is lost but the oldest file's and the torn line's (ExternalRead);
  no memory is lost between layers, facts are found by their words unless as many others that are no
  weaker share one, and what drives, senses, models of others and modifications have made is sound
  and in its file (CoreMemories, SemanticMemory, IntrinsicDrive, SensorimotorLoop, SocialModel,
  SelfModifier).

Why the bounds are enough:

- *Shadow scheduler.* Two slots and three tasks let a pass start one task while another is
  picked and a third waits; one retry and two runs let both counters reach their limit; a
  crash allows a restart from a file that another life wrote, whole, torn, or by the older of
  two saves; three saves in flight would add no order that two do not have.
- *Files.* The races are between two calls of one process and between two processes; three
  calls have both at once, and a timeout of two ticks has entries fresh, about to be stale and
  stale. Six versions with three kept trim three times. Everywhere else two clients with one
  crash suffice for a write between another's read and write, and for a torn file.
- *Pipeline.* Three nodes have every shape that treats nodes differently: none, chain, fork,
  join, two levels, a later node first, a cycle; longer plans reach the cut, the limits and a
  failure two nodes away.
- *Ticks.* Two ticks suffice for one to read, publish or end while the other is at any await,
  and so do two runs on one input for the signals of one to come between those of the other.
- *Loads.* Two first calls suffice for one to change and save what the other has read before.
- *Commands, loops, runtimes.* Two processes or ticks, and as many commands as it takes to use
  up the budget, climb every stage once, or replan once more than allowed.
- *Numbers.* Confidences, priorities and times are small numbers on both sides of their
  thresholds; hours and weeks shrink to ticks of a small clock. Every bound is a constant
  named `Max...` or a conjunct of the suite's `Next`.

Deadlock is checked where the system goes on for ever; the suites of bounded inputs
(`versions`, `pipeline`, `commands`, `minds`) end, and their configurations say so.

## 5. Fairness

- *ShadowScheduler*: weak fairness of the pass (an interval timer calls it), of the next task
  of a pass (a loop), of `nextRunAt` coming, and of the timeout of a handler in a slot. None
  of the handlers: they may hang. `NoStarvation` is about behaviours in which the timer is left
  running from some point on.
- *AtomicFile*: time passes, each call takes its next step. The exclusive create returns
  whatever other calls do, although what it returns depends on the lock file at that moment:
  strong fairness of its two results together.
- *ToolPipeline*: the event loop runs callbacks that are ready, and timers fire. Nothing is
  assumed of the model: it may never answer.
- *TickScheduler*: the heartbeat goes on, and a tick at an await goes on; the poll of
  `processInput` sees what is there. `InputIsAnswered` is stated for sessions without faults.
- *AgenticOps*: a process takes its next step; its handlers return.

The liveness properties of a suite are about one of its families, and the fairness is that
family's; the others are checked for safety there.

## 6. Proofs

TLAPS checks the following for every value of the constants that satisfies the named
assumptions of the modules and of the theorems. A theorem about a component of a suite is
about that component alone; the suite adds no step to it.

**ShadowScheduler_proofs** (any number of tasks, slots, retries, crashes). `TypeCorrect`: `TypeOK`
is inductive. `SlotsCorrect` (`ConcurrencyLimit`) and `SlotsAreAccounted` (`SlotAccounting`): the
limit alone is not inductive, since a pass has promised slots to tasks it has not started, so
`SlotInv` adds `SlotBudget`, `FreshIds` and `DownIsEmpty`. `RunsAreBounded`: `RunBudget`;
`BudgetInv` strengthens the bound of each task by what its status still allows it, and bounds the
images on disk and in a save, because they come back after a restart. `FinishedTasksStayFinished`
(`FinishedStaysFinished`): `OverInv` says of every image that can still come back, the file and the
saves on their way in whatever order they end, that what it has as finished is over in the map too;
`FileOrder` that saves in flight get younger, so that only an overtaken one lets the file go back;
and `BatchWaits` that a pass picks no such task. `StopAborts` (`StopAbortsAll`) holds without
callbacks inside a pass (`~Reentrant`), and only so: a listener or handler that stops the scheduler
does not stop the pass. `QuietInv` says that otherwise the scheduler stays started until a pass has
started what it picked. `CancelledTasksStayCancelled` (`CancelIsFinal`) needs no such restriction,
since it says itself that a task the pass has picked is started though a callback cancels it.
`SchedulerIsSlotPool`: every step is a step of SlotPool or a stutter.

**TickScheduler_proofs** (any number of overlapping ticks, plans, limits, faults; any errors).
`TypeCorrect`. `PublishedAtMostOnce`: `OnceInv` adds that an output not yet marked was never
handed over; it is inductive because OutputLoop marks before it awaits.
`NothingIsPassedOver`: `OfferInv` says the same of the point a tick read from, and that the
loops of a signal a tick has read were given it or are still to run; `AwaitInv` is needed
because a result removes its loop. `InputIsQueuedOnce` (`EchoIsAbsorbed`): the dedupe window
keeps every echo of InputLoop out, whichever tick emits it (`OneInput`).
`AnswersArePublished` (`AnswerWasPublished`): `TellInv` follows an output from OutputLoop,
through what a tick carries to its end, to the bus; wherever it is named as sent it was handed
over once. The last two are parts of `RunsAreOnRecord`.
Of RuntimeGovernor, `GovernorTheorem`: `ModeFollowsRuns` and `ErrorsAreRemembered`; `CountsOK`
ties the streak to the successes and the mode to the errors.
Of ErrorBoundary (any strategies, attempts, threshold and overlapping calls; any signals lost),
`RetriesStayBounded` (`RetriesAreBounded`): what a call may run is `Allowance` of its strategies,
counted by the cardinalities of the places that hold each of them. That it is not exceeded is not
inductive, because the bound says nothing of the attempts still to come. `CallOK` adds them up: the
runs made, the attempts `Left` of the present strategy, and the allowance of the places behind it
stay within the allowance of the whole list. A strategy that is begun takes its attempts out of the
last part (`AllowanceAtNext`), and a recovery whose report is lost gives none back.

**AtomicFile_proofs** (any processes, calls, timeout, failing bodies and crashes).
`TypeCorrect`. `LockExcludes` (`MutualExclusion`) and `NothingStays` (`NothingLeftBehind`)
under two assumptions, without which both are false: `~SlowHolders` and `UpdatesAlone`. The
inductive `LockInv`: while a call works, its process has the entry and the file
(`HoldersHaveTheFile`); of one process one call works (`OneOfAProcess`); whoever finds an
entry of its own process finds it fresh while it is in use (`OthersAreFresh`), so nobody
breaks it; an entry has a call that will remove it (`EntriesHaveUsers`).

**Learning_proofs**, VersionedStorage: `NamedDataExists`: `DataComesFirst` for any number of clients
and crashes, if a resource in use is not deleted; `DataInv` says that what a client carries
between two awaits is on disk already. `TypeCorrect`, under the same assumption: `SizeInv`
bounds also the history a client has read, because it writes it back with one entry more and
then trims. `HistoryFollows`: `HistoryIsAChain` and `LinkMatchesHistory` for one client with
automatic versions. `ChainInv` says that versions count upwards one by one to the last
(`Steady`; distinctness follows from it and is not inductive by itself, because a new version
is only compared with the last), that what the client has read is the history until it writes
it (`UpToDate`), and where the link is at each step (`LinkOf`). Trimming (`PushedChain`) and
marking (`MarkedChain`) keep it. `StorageIsConsistent` puts them together: `VersionsAgree` for
one client. With two clients an entry is lost (section 8), so the hypothesis cannot go.
LearningCategories (any processes, proposals, targets of rollbacks and restarts):
`LearningStaysGoverned` (`LearningIsGoverned`). What governance promises is a property of one
state and not of the steps that lead to it, and a restart may put any written state in its
place; so `LearningInv` says it (`Sound`) of the state, of the file and of what every task is
about to write, and that a task on its way to deploy has an approved proposal. `Saved` says
that a write under way has the contents of the state, from which everything decided is in the
file when nobody writes. Lemmas name what a step may do with a sound state (`Extends`).

**ToolPipeline_proofs** (plans of any length and shape, all limits and budgets).
`TypeCorrect`, `DependenciesFirst`, `EvaluationTellsTheTruth`, `StepsStayFinal`,
`FailuresStopDependents` and `CallsStayGoverned`. `PipelineInv` relates the phase of the run
to nodes and steps. `FailureStopsDependents` speaks of failures any number of edges away: the
members of every set that is closed under dependencies and has what a node depends on
(`Ancestors`). What was decided has only successful dependencies (`DecidedOK`), so the
successful nodes are such a set, and no induction is needed. `GovernedInv` adds that the
counters of the gate are at least the numbers of steps of each class it has let through
(`LimitsOK`), from which the limits follow by cardinalities.

**Commands_proofs**, CanaryRollout (any number of processes, sessions and commands): `TypeCorrect`;
`TypeInv` carries for every rollout that is in the file, was last in it or is about to be
written that its counts add up and that stage D was earned (`Sound`), whatever overlaps.
`PromotionGoesByStep` (`PromotionIsStepwise`): `SerialInv` says that without an overlap there
is one command, and what it is about to write follows from the last rollout by one step.
`RolloutStaysConsistent` (`RolloutIsConsistent`): `GivenInv` adds the way back from percentage
to stage, which needs `PolicyPercent < 50`: a policy that starts at 50 or more makes a rollout
whose stage is C, the first promotion of which goes by percentage.

Governance (any requests, operators, tenants, sessions, policies and commands):
`DeadlinesAlwaysHold` (`DeadlinesHold`). Of the services, `ServicesInv` says what is true of a
request or a session whatever happens next: who decided it and when, and that it was validated
within its own limits. Of the commands, `AnswersInv` says that without an overlap one command
is on its way, and that what it has read is what was reported, so that writing it back with one
decision more loses none.

MultiAgent (any default profiles, registry files, tasks and sessions): `AgentsAreAlwaysRouted`
(`AgentsAreRouted`). `RegistryInv` follows
what a reload has read: once a change is read and no two reloads overlap, it is the file, and
an event that was told waits at its loop until then, whichever other loops come, end or go deaf
(`AnnounceStep`, `WatchingStep`). `Loaded` of a file keeps one profile for an id and a place
(`LoadedOK`). That a task goes to a best match needs that there is one: `Before` is a
lexicographic order (`BeforeIsLexicographic`), strict and total because no two profiles share a
place, and a finite set has a first in it (`SomeCandidateIsBest`). Least numbers come from the
library's theorem on well-founded sets (`LeastNumber`). `SessionsInv` ties timers to accesses.

AgenticOps (any processes, goals, retries, scores and budgets): `ReportsAreAlwaysKept`
(`ReportsAreKept`). What the runs have executed is history, and what they decide by is in two
files and in a memory that changes hands at every await. `OpsInv` says that without an overlap
and without a crash one process is busy, and for each await of its program where the good copy
is (`InPlace`, `HoldsState`, `HoldsQueue`): in memory from a load to the write, in the file
otherwise. A good state has consumed as much as was executed (`SoundState`), a good queue has
for each goal that may still run as many retries as it has runs, within its limit (`SoundItem`).
`Programs`, `Positions` and `Lengths` evaluate the programs of the commands once, so that no
other step does. Fairness is not used.

Assumed of the constants: `OpsAssumption`, `AgentsAssumption`, `GovernanceAssumption` and the one
of CanaryRollout give them their types, the values that stand for a missing or torn file are none
of the contents, and the orchestrator is a default profile; TLC evaluates them in `commands`.

**ExternalRead** (any hosts, limits, window, changes of policy, number of retries).
`TypeCorrect`. `ReadsStayLimited` (`ReadsAreLimited`): that no stretch of time admits more
than the limit and its refill is not inductive, because nothing in it speaks of the bucket.
`RateInv` adds that for every admitted check, what was admitted since and what the bucket
holds together are at most the limit and the refill up to the bucket's last touch (`Owed`); a
refill that rounds down keeps it because two rounded refills are at most the refill of both
times together (`RefillAddsUp`). It also keeps the bucket of a refused caller as it was left,
from which the wait that was announced suffices (`WaitRefills`). `FetchInv` counts what a fetch
has heard against its attempts (`Counted`). The quotients are exact here; in the code they are
floating-point numbers, and `Math.floor` may see one that is rounded.

**LearningLoop** (any overlapping calls of `learn()` and `review()`, any objectives, entries,
relations and crashes). `LearningStaysKept` (`LearningIsKept`), from `LearningParameters`, which
MCRuntime has TLC evaluate for both of its instances. That no content vanishes is not inductive: a
review that merges writes the entry as it was before its await and deletes the others whatever they
have become, so the text it carries must contain whatever is deleted. `LearnInv` therefore fixes
once and for all what each entry belongs to and what the model said when it was stored (`Origin`).
The content of an entry, in the memory, in the file and in every image on its way to it, lies
between what was said of it and that with what it belongs to (`EntriesAgree`), and so does the text
of a merge under way (`ReviewAgrees`). Without a collision of identifiers neither changes for an
entry that has one (`Extends`). `SomebodyLearns` says that an objective in state `learning` is at
the head of the queue of a call; `StoredInTime` says of every image that what is learned in it is
stored in it. A review visits entries in any order, which allows more than the code does.

The inductive invariants were checked by TLC before they were proved. Only model-checked:

- liveness (`NoStarvation`, `SlotsAreFreed`, `CallsReturn`, `PipelineEnds`, `InputIsAnswered`,
  `CommandsEnd`): the prover handles neither fairness nor ENABLED;
- `AuditIsKept`, which compares folds over the lines of files: what a fold yields for every
  sequence takes induction over data;
- the invariants of the modules without a theorem above: `KnowledgeIsKept`, `KnowledgeIsSound`,
  `MemoryIsKept`, `SessionIsInOrder`, of `AutonomyIsKept` what concerns goals and attention, and of
  `RunsAreOnRecord` what concerns the model, one call, two calls and the vectors.

No module declares a RECURSIVE operator.

## 7. Where code and documents disagree

With a run that shows it:

| Run | The code | What is written |
|---|---|---|
| `lock_update_alone` | `utils/atomic-file.ts:159`: `update()` waits for the lock it holds, and throws | `:139` "Update file (read → modify → write atomically)" |
| `tick_output_lost` | `runtime/scheduler.ts:342`: twelve signals of a plan of three steps are cut to ten, and OUTPUT_READY is the last | `loops/cortex-loop.ts:285` "Emit OUTPUT_CANDIDATE_READY if there's output" |
| `monitor_reliability` | `loops/monitor-loop.ts:255` sets a record where a list belongs, and the next tick with outcomes throws | `types.ts:465` `readonly reliability: ToolReliability[]` |

Without one:

- `shadow-scheduler/persistence/index.ts:54`: a running task has no entry in the file, so a
  restart does not know it; `:53` "they'll restart as pending".
- `runtime/v1-pipeline-adapter.ts:487`: a blocked step is a node with result "success", so its
  dependents run; `:162` has the precondition `completed:${dep}`.
- `learning/versioned-storage.ts:285`: after two rollbacks `getCurrentVersion()` is not the
  deployed version; `:283` "Find the version that's currently deployed (not rolled back)".
- `cli/commands/run.ts:92`: v2 is used although the gate decided rollback, unless the default is
  switched off; `src/docs/NEURONWAVES_V2_CUTOVER_ROLLBACK_GATES_PR17.md` says that auto-abort
  routes traffic back to v1.
- `neuronwaves-v2/transfer-learning/skills.ts:44` "Require evaluation before activation":
  `approveSkill` looks at none. `task-trace.ts:73` "Immutable once created": `addChildTrace`
  rewrites the trace. `world-model/belief-graph.ts:39` "no silent overwrite": after a restart
  versions begin at 1 and the file of version 1 is overwritten.
- `neuronwaves-v2/neuronwaves-runtime.ts:70` "Sleeps when idle": InputLoop answers its own echo in
  every tick.
- `multi-agent/registry.ts:209` "continue with defaults": an invalid file leaves the profiles of
  the last reading; `:344` "Watch for config file changes": a file that is replaced may be seen
  by nobody from then on.
- `utils/error-boundary.ts:28`: a breaker opened by another call does not stop the retries of
  a call. `cli/commands/approve.ts:39` and `memory/local-store.ts` "atomically": both write the
  file itself. `motivation/intrinsic-drive.ts:17` "0-1": the priority of an exploration goal is 1.2.
- `shadow-scheduler/core/scheduler.ts:275`: the timeout frees the slot and the handler goes on, so
  more handlers run than `src/src/shadow-scheduler/README.md:13` says. `ConcurrencyLimit` is about slots.

## 8. Further observations

Met while modelling; the models contain the behaviour, and no run is devoted to it.

*Shadow scheduler.* A task that a callback cancels or removes after the pass has picked it is
started all the same. Saves do not look for each other: the older of two may be written last, and
a finished task that it holds as waiting runs again after a restart; two at once may leave a
mixture that restores nothing.

*Atomic file.* Age alone makes an entry stale: with work longer than `lockTimeoutMs` two calls
work at once. The same happens when an `update()` runs beside another call of its process,
however short the work: the entry of the waiting `update()` grows old, is broken by the
other call, and the release of the one takes the entry and the lock file of the other.

*Versions.* Of two concurrent saves one entry is lost; a crash between unlink and symlink leaves
no current version until the next save.

*Bus and ticks.* `createSignal` sets `signalId` to `''` and `append` keeps it (`??`), so no signal
has an id. Overlapping ticks run the pipeline several times for one input, and may move the cursor
back; outputs are deduplicated by content. What is answered is then the last output ready, which
need not be one that was published, and the manifest has the steps of all runs, perhaps with the
result of another one than was answered. Quotas are counted and never enforced. `computeStateHash`
drops nested keys (`working-state.ts:103`). Two plans in one tick get one chain; overlapping ticks
may both create a primary one, and push out or replace each other's; chains are never completed.
Replans for a violated invariant are not counted. The executive reads `violation`, the critic sends
`reason`.

*Facade and model.* Truncated prompts count as errors of the governor, so five long prompts lead to
the safe mode; a timeout with a fallback counts two. A run without an evaluation counts as a
success. After a long outage one error leads from full straight to safe mode. Exceeding the input
budget always cuts the output to 64 tokens; the fallback has no timeout. Two inputs of one
millisecond share session, signals and world state, and the second may get the first's answer and
lose the facts it saved. If the embedding fails after the answer, the call rejects, and what its run
has changed is not remembered. The cache of embeddings is keyed by a 32-bit hash; with a full cache
an answer may be undefined. The store expects other dimensions than the provider of OpenAI has, and
a store of other dimensions loads as empty and is overwritten; so does one torn by a crash in the
second write, which goes to the file itself, or by two writes that overlap. Goals of the types
social, skill and optimization are selected and never pursued.

*Pipeline.* The gate counts before it compares with `>=`, so the last action of a limit is refused.
In conservative mode the governor turns a blocked external read into one that awaits
approval. A plan with a cycle does the part before the cycle, then throws and loses its audit.

*External read.* Nothing joins policy, fetch and audit. Every check moves `lastRefill`, refused ones
too, and the refill rounds down: who polls faster than one token never gets one. The timeout
does not cover the body; 3xx is retried; an empty allowlist allows everything. Overlapping
rotations overwrite one file; the line after a torn one cannot be parsed.

*Autonomy.* A refused request leaves the queue sorted the wrong way; conflicts of goals never
exceed their threshold; activating an active goal at the limit deactivates another. Duplicates
within one batch pass; overlapping saves may leave an older file. Overlapping `learn()` calls
learn the same objectives twice; objectives saved as `learning` stay so after a restart; a review
may write a stale entry, and one that another review has deleted comes back. A merged text is cut
to 2000 characters. Two answers of one millisecond share an identifier, and the second replaces
the first. When only the insight fails, what was stored and learned is marked as failed.

*Learning.* A rollback marks the current entry and deploys nothing; a rejected proposal can be
approved; a rejection during the write of an approval is overwritten. Concepts of one
experience share an embedding and merge at the next consolidation, and merged ones reappear; where
similarity is not transitive, a merge overwrites an earlier one, whose experiences are in no concept
any more;
decay compounds. The substrate rewrites four files per operation, and torn ones read as empty.

*Second version.* A re-distilled skill overwrites its approved version with a draft while the cache
activates the old one; after a restart no skill is active until it is approved again. Ids of beliefs
collide within a millisecond; contradictions are never resolved; a prediction without outcome counts
as a mismatch, and the outcome of an earlier run may be compared with a later prediction. A torn
registry is empty and the next save wipes it. InputLoop and the queue handle an input twice;
`clearSession()` keeps its queue, and ticks go on in the new session, where they leave their changes
and signals. The replay engine looks for records where the scheduler does not write them. A pause is
overtaken by a publisher that exceeds its budget.

*Memory.* The file itself is truncated by its "atomic" write; the archive and core layers are never
written; an `add` during maintenance is overwritten. A crash between `facts.json` and `index.json`
leaves a fact that is never recalled; a fact evicted at once is reported as added.

*Error boundary.* The report of a recovery is inside the `try`; a failing report makes `execute`
throw; the default strategies never look at the breaker; skipping returns a success.

*Operation.* `runScheduledGoals` writes at its end what it read at its start: a `stop` in between is
undone; a crash loses the executions of a run from the budget; `consumedToday` is never reset;
autopaused goals are never eligible again. `promote` ignores the gate; a torn report is no report; a
rollback or promotion that is saved while `run` has the state of before is undone; nobody reads the
routing-state file. Round robin is unreachable, an unknown agent becomes the orchestrator,
overlapping reloads may leave the older file applied; the file is not read at the start, nor after
changes made before `watchConfig()`, nor after one without a "change" event (an atomic replacement),
and a loop that has ended, or watches a file that is gone, is not begun again; `cleanup()` leaves
open sessions without a timer. `touch()` revives a session that is idle too long; required approvers
are not checked; nobody reads `approvals.json`.

*Drives, senses, others, itself.* Drives never settle, so goals for learnt topics come again; of two
first calls after a restart the one whose load ends later takes back what the other has changed and
saved, and so do the loads of the models of others and of the modifications; the files are rewritten
directly. Cycles of perception overlap; all sensors are read and one result is kept, so a short text
is lost beside a file sensor; a late load replaces what was learnt, and saved, meanwhile; an action
without actuator is recorded as an affordance. Goal ids are the millisecond, so of several goals in
a message one stays; a stated goal never reaches the threshold of an intention; fading compounds;
nothing but maintenance saves. `measureOutcome` writes a modification back as it was a minute ago
and revives one that was rolled back; rollback restores the value of the time of the proposal; an
error rate that falls counts as a loss, and the change is rolled back. Modifications and models are
used by nothing else.

## 9. What is not modelled, and why

- *Text and numbers*: prompts, embeddings, weights of the networks (`neural-learning/`), similarity
  and novelty scores, extraction of slots, the words of the mock; scores are small numbers or
  parameters. The planner of communications and the builder of representations keep no state.
- *Within modelled components*: trimming of the bus's queue and dedupe window (10000 signals),
  reading it back from disk, tick records and quotas of the first version; statistics, audit
  events and logs no decision reads; the ledger and known failures of the executive, which no
  loop reads; hooks and proposals of the memory; the wiring in constructors and the chat history.
- *Copies*: `world-model/` of the first version differs from the second's, which is modelled, in
  ids and the source of versions, and has no importer. `LocalMemoryStore` is used by nothing.
- *Components*: policy artifacts (pure functions on JSON and hashes), evaluation harnesses
  (sequential scoring), the shadow scheduler's notifications and panel (listeners that print; what a
  listener may do is modelled), command line and terminal, HTTP and HTML, configuration, the
  permission check (a pure function on strings), workspaces (a map without a rule).

`PROJECT.json` lists every component with its status and note.

## 10. Plan

Done: the scheduler, files, versions, categories, pipeline, ticks, canary, agents, operators'
services, agentic operations, external read and the error boundary with their proofs; working
state and loops; memories; sessions and approvals; the runtime facade, its model and vectors;
learning and knowledge of both versions; autonomy, senses, drives and modifications. Next, in this
order:

1. `ReplansAreBounded` of CognitiveLoops for any number of loops and replans.
2. An abstract bus (append-only log with cursors) implemented by TickScheduler and NeuronWavesV2.
3. The queue limit of the bus with a tick that lags behind it.
