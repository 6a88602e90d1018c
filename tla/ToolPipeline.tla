----------------------------- MODULE ToolPipeline -----------------------------
(***************************************************************************)
(* One run of the v1 pipeline: src/src/runtime/v1-pipeline-adapter.ts turns *)
(* a plan into nodes, executeToolDag of src/src/runtime/tool-executor.ts    *)
(* executes them level by level, and each node asks the policy gate, then   *)
(* runs an experiment or calls the model with a timeout and retries.        *)
(* The callbacks of a level begin one after the other, in the order of the  *)
(* node ids, with no await in between; what they await then interleaves.    *)
(***************************************************************************)
EXTENDS Naturals, FiniteSets, Sequences

CONSTANTS
    MaxActions,      \* MaxActions[level]: maxActionsPerRun
    MaxExternal,     \* MaxExternal[level]: maxExternalPerRun
    MaxIrreversible, \* MaxIrreversible[level]: maxIrreversiblePerRun
    Plans,           \* what the planner may return: sequences of actions
    Configs,         \* configurations of a run
    None

-----------------------------------------------------------------------------
(* The policy gate of src/src/policy/gate.ts: what it decides about one     *)
(* step and how it counts. A gate lives for one run; its counters are a     *)
(* record that Evaluate and Counted take and return.                        *)

Level == 1 .. 3

ActionClass == {"local_only", "external_read", "external_write", "irreversible",
                "money_movement", "identity_security_sensitive", "experiment"}

\* A target is in the allowlist, is another one, or is missing.
Target == {"listed", "other", "none"}

\* DefaultLimits gives each level its limits.
Limits == [Level -> Nat]

ASSUME LimitsAssumption ==
    /\ MaxActions \in Limits
    /\ MaxExternal \in Limits
    /\ MaxIrreversible \in Limits

HardBlocked == {"money_movement", "identity_security_sensitive"}

\* actionsAllowed, externalCount and irreversibleCount: the counters that
\* the limits look at.
InitialStats == [allowed |-> 0, external |-> 0, irreversible |-> 0]
Stats == [allowed : Nat, external : Nat, irreversible : Nat]

\* evaluateLevel1, evaluateLevel2 and evaluateLevel3.
LevelAllows(level, class, target) ==
    \/ class \in {"local_only", "experiment"}
    \/ class = "external_read" /\ (level = 3 \/ (level = 2 /\ target = "listed"))
    \/ class = "external_write" /\ level = 3

LevelDecision(level, class, target) ==
    CASE LevelAllows(level, class, target) -> "allow"
      [] class = "irreversible" /\ level > 1 -> "awaiting_approval"
      [] OTHER -> "block"

\* Mutation: reads are not counted.
CountedWithoutReads(stats, decision, class) ==
    [stats EXCEPT !.allowed = IF decision = "allow" THEN @ + 1 ELSE @,
                  !.irreversible = IF decision = "awaiting_approval" THEN @ + 1 ELSE @]

\* What the evaluation of the level counts. The limits are looked at
\* afterwards, so a step over a limit is counted as allowed too.
Counted(stats, decision, class) ==
    [allowed |-> IF decision = "allow" THEN stats.allowed + 1 ELSE stats.allowed,
     external |-> IF decision = "allow" /\ class = "external_read"
                  THEN stats.external + 1 ELSE stats.external,
     irreversible |-> IF decision = "awaiting_approval"
                      THEN stats.irreversible + 1 ELSE stats.irreversible]

\* checkLimits.
OverLimit(level, stats, class) ==
    \/ stats.allowed >= MaxActions[level]
    \/ class = "external_read" /\ stats.external >= MaxExternal[level]
    \/ class = "irreversible" /\ stats.irreversible >= MaxIrreversible[level]

\* evaluate(): the decision and the counters after it.
Evaluate(level, stats, class, target) ==
    LET decision == IF class \in HardBlocked THEN "block"
                    ELSE LevelDecision(level, class, target)
        counted == Counted(stats, decision, class)
    IN  [decision |-> IF decision # "block" /\ OverLimit(level, counted, class)
                      THEN "block" ELSE decision,
         stats |-> counted]

-----------------------------------------------------------------------------
(* The run.                                                                 *)

Mode == {"full", "conservative", "safe_minimal"}

\* The action of a node; "supported": the hypothesis of an experiment holds.
Action == [class : ActionClass, target : Target, supported : BOOLEAN,
           dependsOn : SUBSET Nat]

\* "denied": what the policy artifact denies, {} when none is loaded.
Config == [level : Level, mode : Mode, budget : Nat, denied : SUBSET Target]

ASSUME PipelineAssumption ==
    /\ Plans \subseteq Seq(Action)
    /\ Configs \subseteq Config
    /\ None \notin {"allow", "awaiting_approval", "block", "success", "failed",
                    "blocked_dependency", "executed", "blocked", "failure", "partial"}

VARIABLES
    config, plan,
    pc,         \* "planning", "between" levels, in a "level", "ended" or "threw"
    level,      \* the nodes of the level that is being executed
    toStart,    \* those of them whose callback has not begun
    settled,    \* settled[n]: the status n's callback has returned, or None
    results,    \* results[n]: the status executeToolDag has recorded, or None
    step,       \* step[n]: the status of n in stepsByNode, or None
    decision,   \* decision[n]: the decision in policyAuditEvents, or None
    attempt,    \* attempt[n]: calls of the model made for n
    inFlight,   \* calls <<n, attempt>> the model has not answered
    stats,      \* the counters of the policy gate
    budget,     \* experimentBudget
    replan,     \* replanRequested
    evaluation

execution == <<settled, step, decision, attempt, inFlight, stats, budget, replan>>
vars == <<config, plan, pc, level, toStart, settled, results, step, decision, attempt,
          inFlight, stats, budget, replan, evaluation>>

Retries == IF config.mode = "full" THEN 1 ELSE 0
MaxPlanSteps == CASE config.mode = "full" -> 5
                  [] config.mode = "conservative" -> 3
                  [] OTHER -> 2

Node == DOMAIN plan
NodesOf(p) == [n \in DOMAIN p |-> None]

Init ==
    /\ config \in Configs
    /\ plan \in Plans
    /\ pc = "planning"
    /\ level = {} /\ toStart = {}
    /\ settled = NodesOf(plan) /\ results = NodesOf(plan)
    /\ step = NodesOf(plan) /\ decision = NodesOf(plan)
    /\ attempt = [n \in DOMAIN plan |-> 0]
    /\ inFlight = {}
    /\ stats = InitialStats
    /\ budget = config.budget
    /\ replan = FALSE
    /\ evaluation = None

\* The plan is cut to its first steps, then validateActionGraph looks for
\* dependencies on nodes that are not in it.
Kept(p) == SubSeq(p, 1, IF Len(p) < MaxPlanSteps THEN Len(p) ELSE MaxPlanSteps)
ValidGraph(p) == \A n \in DOMAIN p : p[n].dependsOn \subseteq DOMAIN p

BuildGraph ==
    LET p == Kept(plan) IN
    /\ pc = "planning"
    /\ plan' = p
    /\ pc' = IF ValidGraph(p) THEN "between" ELSE "threw"
    /\ settled' = NodesOf(p) /\ results' = NodesOf(p)
    /\ step' = NodesOf(p) /\ decision' = NodesOf(p)
    /\ attempt' = [n \in DOMAIN p |-> 0]
    /\ UNCHANGED <<config, level, toStart, inFlight, stats, budget, replan, evaluation>>

Pending == {n \in Node : results[n] = None}
\* Mutation: one dependency with a result is enough.
ReadyWithAny == {n \in Pending : plan[n].dependsOn = {} \/
                                 \E d \in plan[n].dependsOn : results[d] # None}

Ready == {n \in Pending : \A d \in plan[n].dependsOn : results[d] # None}

\* The loop of executeToolDag: the ready nodes are the next level.
BeginLevel ==
    /\ pc = "between"
    /\ Ready # {}
    /\ pc' = "level"
    /\ level' = Ready
    /\ toStart' = Ready
    /\ UNCHANGED <<config, plan, results, evaluation, execution>>

\* Mutation: the loop does not notice that nothing is ready.
ThrowCyclicNever == FALSE /\ UNCHANGED vars

\* tool_dag_invalid_or_cyclic.
ThrowCyclic ==
    /\ pc = "between"
    /\ Pending # {} /\ Ready = {}
    /\ pc' = "threw"
    /\ UNCHANGED <<config, plan, level, toStart, results, evaluation, execution>>

-------------------------------------------------------------------------------
(* The callback of one node, up to its first await.                        *)

\* The callback of n is the next to begin.
Starts(n) ==
    /\ pc = "level"
    /\ n \in toStart
    /\ \A m \in toStart : n <= m
    /\ toStart' = toStart \ {n}
    /\ UNCHANGED <<config, plan, pc, level, results, evaluation>>

Settle(n, status) == settled' = [settled EXCEPT ![n] = status]
SetStep(n, status) == step' = [step EXCEPT ![n] = status]

\* Mutation: a blocked dependency does not count as failed.
FailedDepsOnly(n) == {d \in plan[n].dependsOn : results[d] = "failed"}

FailedDeps(n) == {d \in plan[n].dependsOn : results[d] \notin {None, "success"}}

BlockDependent(n) ==
    /\ Starts(n)
    /\ FailedDeps(n) # {}
    /\ Settle(n, "blocked_dependency")
    /\ UNCHANGED <<step, decision, attempt, inFlight, stats, budget, replan>>

\* The decision of the gate, what the policy artifact makes of it, and what
\* the governor's mode makes of that.
GateResult(n) == Evaluate(config.level, stats, plan[n].class, plan[n].target)

Governed(class, decided) ==
    CASE config.mode = "safe_minimal" /\ class \notin {"local_only", "experiment"} -> "block"
      [] config.mode = "conservative" /\ class = "external_read" -> "awaiting_approval"
      [] OTHER -> decided

DecisionOn(n) ==
    LET a == plan[n]
        denied == a.class = "external_read" /\ a.target # "none" /\ a.target \in config.denied
    IN  Governed(a.class, IF denied THEN "block" ELSE GateResult(n).decision)

\* execute() begins: the gate counts and the decision is audited.
Decides(n, d) ==
    /\ Starts(n)
    /\ FailedDeps(n) = {}
    /\ d = DecisionOn(n)
    /\ decision' = [decision EXCEPT ![n] = d]
    /\ stats' = GateResult(n).stats

\* A step that is not allowed returns normally: its node is a success.
Refuse(n) ==
    \E d \in {"block", "awaiting_approval"} :
        /\ Decides(n, d)
        /\ SetStep(n, IF d = "block" THEN "blocked" ELSE d)
        /\ Settle(n, "success")
        /\ UNCHANGED <<attempt, inFlight, budget, replan>>

Spend(b) == IF b > 0 THEN b - 1 ELSE 0

\* runSandboxExperiment.
Succeeds(n) == budget > 0 /\ plan[n].supported

\* The node of an experiment is a success whatever the outcome.
RunExperiment(n) ==
    /\ Decides(n, "allow")
    /\ plan[n].class = "experiment"
    /\ budget' = Spend(budget)
    /\ SetStep(n, IF Succeeds(n) THEN "executed" ELSE "failed")
    /\ replan' = (replan \/ ~Succeeds(n))
    /\ Settle(n, "success")
    /\ UNCHANGED <<attempt, inFlight>>

\* validateEnvelope: every tool but local_reason needs an allowlisted target.
ValidEnvelope(n) == plan[n].class = "local_only" \/ plan[n].target = "listed"

CallsTool(n) == Decides(n, "allow") /\ plan[n].class # "experiment"

RejectEnvelope(n) ==
    /\ CallsTool(n)
    /\ ~ValidEnvelope(n)
    /\ SetStep(n, "failed")
    /\ replan' = TRUE
    /\ Settle(n, "failed")
    /\ UNCHANGED <<attempt, inFlight, budget>>

\* The first attempt.
CallModel(n) ==
    /\ CallsTool(n)
    /\ ValidEnvelope(n)
    /\ attempt' = [attempt EXCEPT ![n] = 1]
    /\ inFlight' = inFlight \cup {<<n, 1>>}
    /\ UNCHANGED <<settled, step, budget, replan>>

-------------------------------------------------------------------------------
(* What the callbacks of a level await.                                    *)

\* n waits for its current attempt.
Waits(n) ==
    /\ pc = "level" /\ toStart = {}
    /\ n \in level /\ settled[n] = None
    /\ UNCHANGED <<config, plan, pc, level, toStart, results, decision, stats, budget,
                   evaluation>>

Answer(n) ==
    /\ Waits(n)
    /\ <<n, attempt[n]>> \in inFlight
    /\ inFlight' = inFlight \ {<<n, attempt[n]>>}
    /\ SetStep(n, "executed")
    /\ Settle(n, "success")
    /\ UNCHANGED <<attempt, replan>>

\* The loop goes on with the next attempt, or the last error is thrown;
\* "left" are the calls in flight after this one has ended.
AfterFailure(n, left) ==
    \/ /\ attempt[n] <= Retries
       /\ attempt' = [attempt EXCEPT ![n] = @ + 1]
       /\ inFlight' = left \cup {<<n, attempt[n] + 1>>}
       /\ UNCHANGED <<step, settled, replan>>
    \/ /\ attempt[n] > Retries
       /\ inFlight' = left
       /\ SetStep(n, "failed")
       /\ Settle(n, "failed")
       /\ replan' = TRUE
       /\ UNCHANGED attempt

\* The model rejects the call.
Rejects(n) ==
    /\ Waits(n)
    /\ <<n, attempt[n]>> \in inFlight
    /\ AfterFailure(n, inFlight \ {<<n, attempt[n]>>})

\* withTimeout gives up; the call itself goes on.
Timeout(n) ==
    /\ Waits(n)
    /\ AfterFailure(n, inFlight)

\* Mutation: a late answer is taken.
LateAnswerTaken(c) ==
    /\ c \in inFlight
    /\ pc = "level" /\ toStart = {}
    /\ c[2] < attempt[c[1]] \/ settled[c[1]] # None
    /\ inFlight' = inFlight \ {c}
    /\ SetStep(c[1], "executed")
    /\ Settle(c[1], "success")
    /\ UNCHANGED <<config, plan, pc, level, toStart, results, decision, attempt, stats,
                   budget, replan, evaluation>>

\* The call of an attempt that has timed out ends: nobody waits for it.
LateAnswer(c) ==
    /\ c \in inFlight
    /\ pc # "level" \/ toStart = {}
    /\ c[2] < attempt[c[1]] \/ settled[c[1]] # None
    /\ inFlight' = inFlight \ {c}
    /\ UNCHANGED <<config, plan, pc, level, toStart, settled, results, step, decision,
                   attempt, stats, budget, replan, evaluation>>

\* Promise.all resolves: the results of the level are recorded.
EndLevel ==
    /\ pc = "level" /\ toStart = {}
    /\ \A n \in level : settled[n] # None
    /\ results' = [n \in Node |-> IF n \in level THEN settled[n] ELSE results[n]]
    /\ level' = {}
    /\ pc' = "between"
    /\ UNCHANGED <<config, plan, toStart, evaluation, execution>>

-------------------------------------------------------------------------------
(* The rest of runPipeline.                                                *)

\* Mutation: only the nodes that were tried are reported.
FinalStepTried(n) == step[n]

\* Nodes that were blocked by a dependency become failed steps.
FinalStep(n) ==
    IF step[n] = None /\ results[n] = "blocked_dependency" THEN "failed" ELSE step[n]

EvaluationOf(statuses) ==
    CASE statuses # {} /\ statuses \subseteq {"executed"} -> "success"
      [] statuses \cap {"failed", "blocked"} # {} -> "failure"
      [] OTHER -> "partial"

Finish ==
    /\ pc = "between"
    /\ Pending = {}
    /\ pc' = "ended"
    /\ step' = [n \in Node |-> FinalStep(n)]
    /\ evaluation' = EvaluationOf({FinalStep(n) : n \in Node} \ {None})
    /\ UNCHANGED <<config, plan, level, toStart, results, settled, decision, attempt,
                   inFlight, stats, budget, replan>>

StartNode(n) == BlockDependent(n) \/ Refuse(n) \/ RunExperiment(n) \/ RejectEnvelope(n)
                \/ CallModel(n)

Next ==
    \/ BuildGraph \/ BeginLevel \/ ThrowCyclic \/ EndLevel \/ Finish
    \/ \E n \in Node : StartNode(n) \/ Answer(n) \/ Rejects(n) \/ Timeout(n)
    \/ \E c \in inFlight : LateAnswer(c)

Spec == Init /\ [][Next]_vars

\* What the event loop and the timers do; the model may never answer.
Fairness ==
    /\ WF_vars(BuildGraph \/ BeginLevel \/ ThrowCyclic \/ EndLevel \/ Finish)
    /\ WF_vars(\E n \in Node : StartNode(n))
    /\ WF_vars(\E n \in Node : Timeout(n))
FairSpec == Spec /\ Fairness

-------------------------------------------------------------------------------
(* Properties.                                                             *)

TypeOK ==
    /\ config \in Config /\ plan \in Seq(Action)
    /\ pc \in {"planning", "between", "level", "ended", "threw"}
    /\ level \subseteq Node /\ toStart \subseteq level
    /\ settled \in [Node -> {None, "success", "failed", "blocked_dependency"}]
    /\ results \in [Node -> {None, "success", "failed", "blocked_dependency"}]
    /\ step \in [Node -> {None, "executed", "failed", "blocked", "awaiting_approval"}]
    /\ decision \in [Node -> {None, "allow", "block", "awaiting_approval"}]
    /\ attempt \in [Node -> 0 .. Retries + 1]
    /\ inFlight \subseteq {c \in Node \X (1 .. Retries + 1) : c[2] <= attempt[c[1]]}
    /\ stats \in Stats
    /\ budget \in 0 .. config.budget
    /\ replan \in BOOLEAN
    /\ evaluation \in {None, "success", "failure", "partial"}

\* Nothing is done for a node (no decision of the gate, no call of the model)
\* before every node it depends on has a result, however the calls of a
\* level interleave (executeToolDag).
DependenciesComeFirst ==
    \A n \in Node : decision[n] # None =>
        \A d \in plan[n].dependsOn : results[d] # None

\* What n depends on, directly or through other nodes: the least set that
\* has what n depends on and what its own members depend on.
Closed(S) == \A m \in S : plan[m].dependsOn \subseteq S
Ancestors(n) ==
    {m \in Node : \A S \in SUBSET Node : plan[n].dependsOn \subseteq S /\ Closed(S) => m \in S}

\* A tool that fails stops everything that depends on it, through any number
\* of nodes: none of them reaches the gate or the model ("Blocked by failed
\* dependencies" in executeToolDag).
FailureStopsDependents ==
    pc \in {"between", "level", "ended"} =>
        \A n \in Node : (\E d \in Ancestors(n) : results[d] = "failed") =>
            decision[n] = None /\ attempt[n] = 0

\* The model is called only for steps that the autonomy level, the policy
\* artifact, the governor's mode and the allowlist all permit, whichever of
\* the four is asked first (execute in createV1PipelineAdapter).
Permitted(a) ==
    \/ a.class = "local_only"
    \/ /\ a.class = "external_read"
       /\ config.level > 1 /\ config.mode = "full"
       /\ a.target = "listed" /\ a.target \notin config.denied
    \/ /\ a.class = "external_write"
       /\ config.level = 3 /\ config.mode # "safe_minimal"
       /\ a.target = "listed"
OnlyPermittedCalls == \A n \in Node : attempt[n] > 0 => Permitted(plan[n])

\* The limits of the autonomy level and the experiment budget hold for a
\* whole run, over all its levels: DefaultLimits in policy/types.ts.
LimitsHold ==
    /\ Cardinality({n \in Node : decision[n] = "allow"}) <= MaxActions[config.level]
    /\ Cardinality({n \in Node : plan[n].class = "external_read" /\ attempt[n] > 0})
           <= MaxExternal[config.level]
    /\ Cardinality({n \in Node : plan[n].class = "experiment" /\ step[n] = "executed"})
           <= config.budget

\* What is called is permitted, and within the limits.
CallsAreGoverned == OnlyPermittedCalls /\ LimitsHold

\* The evaluation tells what happened: every step is reported, "success"
\* means that all were executed, an unmet step never passes as partial, and
\* a replan is asked for exactly when a step failed by itself (the end of
\* runPipeline).
EvaluationIsHonest ==
    pc = "ended" =>
        /\ \A n \in Node : step[n] # None
        /\ evaluation = "success" <=> (Node # {} /\ \A n \in Node : step[n] = "executed")
        /\ (\E n \in Node : step[n] \in {"failed", "blocked"}) => evaluation = "failure"
        /\ replan = (\E n \in Node : step[n] = "failed" /\ results[n] # "blocked_dependency")

\* A step keeps its status, and its node is not called again: an answer that
\* comes after the timeout changes nothing (withTimeout).
StepsAreFinal ==
    [][\A n \in Node : step[n] # None =>
           n \in DOMAIN step' /\ step'[n] = step[n] /\ attempt'[n] = attempt[n]]_vars

\* A run ends, with a result or an error, even when the model never answers:
\* every wait has a timer and every level makes progress.
PipelineEnds == <>(pc \in {"ended", "threw"})
===============================================================================
