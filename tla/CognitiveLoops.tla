--------------------------- MODULE CognitiveLoops ---------------------------
(***************************************************************************)
(* What the loops beside the answer do (src/src/loops/executive-loop.ts,   *)
(* critic-loop.ts, monitor-loop.ts) and the working state they share       *)
(* (src/src/runtime/working-state.ts). Ticks of a session overlap          *)
(* (TickScheduler has their awaits one by one): a loop reads the state as  *)
(* it is when it runs, but what it changes is applied when its tick ends.  *)
(* The cortex loop and the runtime, which emit plans and outcomes, are the *)
(* environment.                                                            *)
(***************************************************************************)
EXTENDS Naturals, Sequences, SequencesExt, FiniteSets, FiniteSetsExt, TLC

CONSTANTS
    Tick,            \* ticks that may be under way at the same time
    Plan, Steps,     \* plans, and Steps[p]: the steps of a plan
    Class,           \* Class[s]: the action class of a step, see Risks and CheckInvariants
    Vague,           \* plans in which an uncertainty detector finds something
    None,
    MaxSecondary,    \* maxConcurrentChains and maxSecondaryChains (both 3)
    MaxReplans,      \* maxReplanAttempts
    MaxRevisions,    \* maxAutoReviseCycles
    MaxOutside       \* signals from the cortex loop and its pipeline (bound)

Step == UNION {Steps[p] : p \in Plan}

\* Signals, without those that no modelled loop reads.
Signal(type, about) == [type |-> type, about |-> about]
PlanCreated(p) == Signal("PLAN_CREATED", p)
ModelError(kind) == Signal("MODEL_ERROR_DETECTED", kind)
Alternative(patch) == Signal("SUGGEST_ALTERNATIVE_PLAN", patch)

\* What the session has of PLAN_CREATED to MODEL_ERROR_DETECTED from outside.
Outside(planned) ==
    {PlanCreated(p) : p \in Plan \ planned}
        \cup {Signal("STEP_EXECUTED", s) : s \in UNION {Steps[p] : p \in planned}}
        \cup {Signal("STEP_FAILED", [step |-> s, model |-> b]) :
                s \in UNION {Steps[p] : p \in planned}, b \in BOOLEAN}
        \cup {Signal("PREDICTION_MISMATCH", "step"), Signal("EVALUATION_COMPLETE", "failure"),
              ModelError("exception")}

VARIABLES
    bus,        \* the signals of the session
    planned,    \* plans that were created
    outside,    \* signals emitted from outside
    cursor,     \* signalCursor of the session
    tick,       \* tick[t]: its next step, its signals, and the changes it has collected
    state,      \* the working state
    attempts,   \* replanAttemptsByChain
    revisions,  \* reviseAttemptsBySession
    goals,      \* goalStacksBySession
    requested,  \* history: replans that the executive loop has requested, by kind
    met         \* history: ticks have overlapped

vars == <<bus, planned, outside, cursor, tick, state, attempts, revisions, goals, requested, met>>

-----------------------------------------------------------------------------
\* The working state. reliability is a list of records, but MonitorLoop sets it
\* to one record, which is no list any more.
WorkingState == [primary : Plan \cup {None}, secondary : Seq(Plan), active : Plan \cup {None},
                 confidence : 0..20, reliability : {"list", "record"}]

\* createInitialWorkingState(); confidence counts in twentieths.
InitialWorkingState ==
    [primary |-> None, secondary |-> <<>>, active |-> None, confidence |-> 20,
     reliability |-> "list"]

Delta(section, path, value) == [section |-> section, path |-> path, value |-> value]

\* WorkingStateManager.applyDelta(), for the sections that these loops read. They also write
\* the ledger, the known failures and the uncertainties, which none of them reads.
ApplyDelta(s, d) ==
    CASE d.section = "chains" /\ d.path = "primary" -> [s EXCEPT !.primary = d.value]
      [] d.section = "chains" /\ d.path = "secondary" ->
            [s EXCEPT !.secondary = SubSeq(<<d.value>> \o @, 1, MaxSecondary)]
      [] d.section = "focus" -> [s EXCEPT !.active = d.value]
      [] d.path = "confidenceState" -> [s EXCEPT !.confidence = d.value]
      [] d.path = "reliability" -> [s EXCEPT !.reliability = d.value]

ApplyDeltas(s, ds) == FoldLeft(ApplyDelta, s, ds)

-----------------------------------------------------------------------------
\* The goal stack of the executive loop: the goal of each step, and the root.
NoGoals == [node |-> <<>>, budget |-> 0, spent |-> 0, status |-> None, open |-> {}]
Children(g) == DOMAIN g.node
Completed(node) == {s \in DOMAIN node : node[s].status = "completed"}
OpenGoals(node) == DOMAIN node \ Completed(node)
Goal(status, spent) == [status |-> status, spent |-> spent]

\* createGoalStack(): a later plan adds its steps to the stack of the session.
CreateGoalStack(g, p) ==
    LET new == Steps[p] \ Children(g)
        node == g.node @@ [s \in new |-> Goal("open", 0)]
        first == IF g.status = None THEN Max({1, Cardinality(Steps[p]) * 2}) ELSE g.budget
    IN [g EXCEPT !.node = node, !.open = OpenGoals(node),
                 !.budget = Max({first, Cardinality(Children(g)) + Cardinality(Steps[p]) + 1}),
                 !.status = IF OpenGoals(node) = {} /\ node # <<>> THEN "completed"
                            ELSE "in_progress"]

Progressed(node, signal) ==
    LET s == IF signal.type = "STEP_EXECUTED" THEN signal.about ELSE signal.about.step
    IN IF s \notin DOMAIN node THEN node
       ELSE [node EXCEPT ![s] = Goal(IF signal.type = "STEP_EXECUTED" THEN "completed" ELSE "failed", 1)]

\* updateGoalStackProgress(); a node has a budget of one.
UpdateGoalStack(g, outcomes) ==
    LET node == FoldLeft(Progressed, g.node, outcomes)
    IN IF g.status = None \/ outcomes = <<>> THEN g
       ELSE [g EXCEPT !.node = node, !.open = OpenGoals(node),
                      !.status = IF OpenGoals(node) = {} THEN "completed" ELSE "in_progress",
                      !.spent = MapThenSumSet(LAMBDA s : node[s].spent, DOMAIN node)]

-----------------------------------------------------------------------------
Idle == [at |-> "idle", from |-> 0, to |-> 0, deltas |-> <<>>]

Init ==
    /\ bus = <<>> /\ planned = {} /\ outside = 0 /\ cursor = 0
    /\ tick = [t \in Tick |-> Idle]
    /\ state = InitialWorkingState
    /\ attempts = [c \in Plan \cup {None} |-> 0] /\ revisions = 0 /\ goals = NoGoals
    /\ requested = [revise |-> 0, degrade |-> [c \in Plan \cup {None} |-> 0]]
    /\ met = FALSE

\* The cortex loop or the runtime emits a signal.
Emit ==
    /\ outside < MaxOutside /\ outside' = outside + 1
    /\ \E s \in Outside(planned) :
        /\ bus' = Append(bus, s)
        /\ planned' = planned \cup (IF s.type = "PLAN_CREATED" THEN {s.about} ELSE {})
    /\ UNCHANGED <<cursor, tick, state, attempts, revisions, goals, requested, met>>

StartTick(t) ==
    /\ tick[t].at = "idle" /\ cursor < Len(bus)
    /\ tick' = [tick EXCEPT ![t] = [Idle EXCEPT !.at = "executive", !.from = cursor,
                                                !.to = Len(bus)]]
    /\ met' = (met \/ \E u \in Tick : tick[u].at # "idle")
    /\ UNCHANGED <<bus, planned, outside, cursor, state, attempts, revisions, goals, requested>>

\* The signals that the tick has read.
Read(t) == SubSeq(bus, tick[t].from + 1, tick[t].to)
Has(t, type) == \E s \in ToSet(Read(t)) : s.type = type
OfType(t, types) == SelectSeq(Read(t), LAMBDA s : s.type \in types)

\* The signals and the changes of a loop; the next loop follows.
Return(t, next, signals, deltas) ==
    /\ bus' = bus \o signals
    /\ tick' = [tick EXCEPT ![t].at = next, ![t].deltas = @ \o deltas]
    /\ UNCHANGED <<planned, outside, cursor, state, met>>

-----------------------------------------------------------------------------
\* ExecutiveLoop.tick(): first the goal stack, then one decision.
Goals(t) ==
    LET plans == OfType(t, {"PLAN_CREATED"})
        stacked == IF plans = <<>> THEN goals ELSE CreateGoalStack(goals, Last(plans).about)
    IN goals' = UpdateGoalStack(stacked, OfType(t, {"STEP_EXECUTED", "STEP_FAILED"}))

\* Mutation: a secondary chain more than the working state keeps.
RoomForChainOneMore(s) == Len(s.secondary) <= MaxSecondary

RoomForChain(s) == Len(s.secondary) < MaxSecondary

CountAttempt(chain) == [attempts EXCEPT ![chain] = @ + 1]

\* A model error asks for a replan, until the attempts for the chain are spent.
HandleModelError(t) ==
    /\ Has(t, "MODEL_ERROR_DETECTED")
    /\ IF attempts[state.active] < MaxReplans
       THEN /\ attempts' = CountAttempt(state.active)
            /\ requested' = [requested EXCEPT !.degrade[state.active] = @ + 1]
       ELSE UNCHANGED <<attempts, requested>>
    /\ Return(t, "critic", <<>>, <<>>)
    /\ UNCHANGED revisions

\* requestReplan, requestClarification and pauseForApproval change no state.
OnlyAsk(t) ==
    /\ ~Has(t, "MODEL_ERROR_DETECTED")
    /\ Has(t, "INVARIANT_VIOLATION") \/ Has(t, "ASK_BEFORE_ACT") \/ Has(t, "RISK_HIGH")
    /\ Return(t, "critic", <<>>, <<>>)
    /\ UNCHANGED <<attempts, revisions, requested>>

Hindered(t) ==
    \E type \in {"MODEL_ERROR_DETECTED", "INVARIANT_VIOLATION", "ASK_BEFORE_ACT", "RISK_HIGH"} :
        Has(t, type)

AutoRevise(t) ==
    /\ ~Hindered(t) /\ Has(t, "SUGGEST_ALTERNATIVE_PLAN")
    /\ IF Last(OfType(t, {"SUGGEST_ALTERNATIVE_PLAN"})).about /\ revisions < MaxRevisions
       THEN /\ revisions' = revisions + 1
            /\ requested' = [requested EXCEPT !.revise = @ + 1]
       ELSE UNCHANGED <<revisions, requested>>
    /\ Return(t, "critic", <<>>, <<>>)
    /\ UNCHANGED attempts

\* The newest plan becomes the primary chain, a secondary one, or is deferred.
CreateChain(t) ==
    /\ ~Hindered(t) /\ ~Has(t, "SUGGEST_ALTERNATIVE_PLAN")
    /\ LET plans == OfType(t, {"PLAN_CREATED"})
       IN Return(t, "critic", <<>>,
            IF plans = <<>> THEN <<>>
            ELSE IF state.primary = None
            THEN <<Delta("chains", "primary", Last(plans).about),
                   Delta("focus", "activeChainId", Last(plans).about)>>
            ELSE IF RoomForChain(state) THEN <<Delta("chains", "secondary", Last(plans).about)>>
            ELSE <<>>)
    /\ UNCHANGED <<attempts, revisions, requested>>

RunExecutive(t) ==
    /\ tick[t].at = "executive"
    /\ Goals(t)
    /\ HandleModelError(t) \/ OnlyAsk(t) \/ AutoRevise(t) \/ CreateChain(t)

-----------------------------------------------------------------------------
\* critiquePlan() and checkInvariants(): an external write may be justified, a local action may
\* lack its tool. No loop writes activeSchemas, so no slots are missing.
Risks(p) == Steps[p] \cap {s \in Step : Class[s] \in {"irreversible", "external_write",
    "justified_write", "money_movement", "identity_security_sensitive"}}
CheckInvariants(p) == {Class[s] : s \in Steps[p]} \cap {"irreversible", "external_write", "no_tool"}

\* CriticLoop.tick(): the findings on a plan, and a patch for a failure. The executive loop looks
\* at one signal of a type, so one stands for several.
Findings(p) ==
    (IF Risks(p) # {} THEN <<Signal("RISK_HIGH", p)>> ELSE <<>>)
        \o (IF CheckInvariants(p) # {}
            THEN <<Signal("INVARIANT_VIOLATION", p), Alternative(FALSE)>> ELSE <<>>)
        \o (IF p \in Vague /\ state.confidence < 14 THEN <<Signal("ASK_BEFORE_ACT", p)>> ELSE <<>>)

CriticSignals(signal) ==
    CASE signal.type = "PLAN_CREATED" -> Findings(signal.about)
      [] signal.type = "EVALUATION_COMPLETE" -> <<Alternative(TRUE)>>
      [] OTHER -> <<>>

RunCritic(t) ==
    /\ tick[t].at = "critic"
    /\ Return(t, "monitor", FlattenSeq([i \in DOMAIN Read(t) |-> CriticSignals(Read(t)[i])]), <<>>)
    /\ UNCHANGED <<attempts, revisions, goals, requested>>

-----------------------------------------------------------------------------
\* MonitorLoop.tick(), which runs when a signal it subscribes to has come.
Subscribed == {"STEP_EXECUTED", "STEP_FAILED", "PREDICTION_MISMATCH", "MODEL_ERROR_DETECTED"}
Lowered(by) == IF state.confidence > by THEN state.confidence - by ELSE 0

MonitorSignals(signal) ==
    CASE signal.type = "STEP_FAILED" /\ signal.about.model -> <<ModelError("runtime_step_failure")>>
      [] signal.type = "PREDICTION_MISMATCH" -> <<ModelError("prediction_mismatch")>>
      [] OTHER -> <<>>

MonitorDeltas(signal) ==
    IF signal.type = "MODEL_ERROR_DETECTED"
    THEN <<Delta("selfModel", "confidenceState",
                 Lowered(IF signal.about = "prediction_mismatch" THEN 4 ELSE 2))>>
    ELSE <<>>

\* Outcomes of steps set the reliability and the confidence, by their rate.
OutcomeDeltas(t) ==
    LET outcomes == OfType(t, {"STEP_EXECUTED", "STEP_FAILED"})
        good == Len(OfType(t, {"STEP_EXECUTED"}))
    IN IF outcomes = <<>> THEN <<>>
       ELSE <<Delta("selfModel", "reliability", "record"),
              Delta("selfModel", "confidenceState",
                    IF good * 10 > Len(outcomes) * 8 THEN Min({20, state.confidence + 1})
                    ELSE IF good * 2 < Len(outcomes) THEN Lowered(2) ELSE state.confidence)>>

\* updateReliability() searches the reliability like a list.
Throws(t) == state.reliability # "list" /\ OfType(t, {"STEP_EXECUTED", "STEP_FAILED"}) # <<>>

RunMonitor(t) ==
    /\ tick[t].at = "monitor"
    /\ LET signals == OfType(t, Subscribed)
       IN IF Throws(t) THEN Return(t, "apply", <<>>, <<>>)
          ELSE Return(t, "apply", FlattenSeq([i \in DOMAIN signals |-> MonitorSignals(signals[i])]),
                      FlattenSeq([i \in DOMAIN signals |-> MonitorDeltas(signals[i])])
                          \o OutcomeDeltas(t))
    /\ UNCHANGED <<attempts, revisions, goals, requested>>

\* The end of executeTick(): the changes are applied, and the cursor is set.
EndTick(t) ==
    /\ tick[t].at = "apply"
    /\ state' = ApplyDeltas(state, tick[t].deltas)
    /\ cursor' = tick[t].to
    /\ tick' = [tick EXCEPT ![t] = Idle]
    /\ UNCHANGED <<bus, planned, outside, attempts, revisions, goals, requested, met>>

Next ==
    \/ Emit
    \/ \E t \in Tick : StartTick(t) \/ RunExecutive(t) \/ RunCritic(t) \/ RunMonitor(t) \/ EndTick(t)

-----------------------------------------------------------------------------
\* Types: the secondary chains stay within their bound, the confidence between 0 and 1, and the
\* cursor within the bus, whatever ticks overlap and however often they read a signal.
TypeOK ==
    /\ state \in WorkingState /\ Len(state.secondary) <= MaxSecondary
    /\ cursor \in 0..Len(bus)
    /\ goals.open \subseteq Children(goals) /\ goals.spent \in Nat

\* The goal stack of a session outlives its plans: whatever plans are added and whatever steps
\* succeed, fail and succeed again, the root has spent what its goals have spent, which is within
\* its budget, and it is completed just when all of its goals are.
GoalStackIsConsistent ==
    goals.status # None =>
        /\ goals.spent = MapThenSumSet(LAMBDA s : goals.node[s].spent, Children(goals))
        /\ goals.spent <= goals.budget
        /\ goals.open = OpenGoals(goals.node)
        /\ goals.status = "completed" <=> (goals.open = {} /\ Children(goals) # {})

Chains(s) == ToSet(s.secondary) \cup ({s.primary} \ {None})

\* A chain is not dropped: while ticks do not overlap, a new plan never replaces the primary chain
\* and never pushes a secondary one out of the bounded list; and the focus is the primary chain.
ChainsAreKept ==
    /\ [][~met' => Chains(state) \subseteq Chains(state')]_vars
    /\ [](state.active = state.primary)

\* Replans in degrade mode are bounded for each chain, and without one, and automatic revisions
\* for the session, however many errors come and however often a tick handles them again.
ReplansAreBounded ==
    /\ \A c \in DOMAIN requested.degrade : requested.degrade[c] <= MaxReplans
    /\ requested.revise <= MaxRevisions

\* The reliability of tools in the self model is a list of records (src/src/types.ts:465,
\* "readonly reliability: ToolReliability[]"), so a monitor loop can search it.
MonitorCanRun == \A t \in Tick : tick[t].at = "monitor" => ~Throws(t)
=============================================================================
