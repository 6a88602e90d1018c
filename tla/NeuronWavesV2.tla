---------------------------- MODULE NeuronWavesV2 ----------------------------
(***************************************************************************)
(* The second runtime (src/src/neuronwaves-v2): one session of             *)
(* neuronwaves-runtime.ts with its scheduler, its signal bus, its input,   *)
(* output, executive and critic loops, and the bridge loop of the shadow   *)
(* comparison. The session may be cleared while its ticks run. A loop and  *)
(* what it emits are one step here, except where the output loop awaits    *)
(* its publisher; TickScheduler has the awaits of a tick one by one.       *)
(***************************************************************************)
EXTENDS Naturals, Sequences, SequencesExt, FiniteSets, FiniteSetsExt

CONSTANTS
    Tick,            \* ticks that may be under way at the same time
    Enabled,         \* the loops that are registered
    External,        \* signals that submitSignal() is given
    Invalid, Risky,  \* plans that break an invariant, and plans with a risky step
    None, InputChain, Global,
    MaxReplans, MaxSecondary, MaxSignalsOut,
    MaxTicks, MaxSubmits, MaxClears, FaultChoices   \* bounds, and whether publishers may be slow

Signal(type, about) == [type |-> type, about |-> about]
InputReceived == Signal("INPUT_RECEIVED", None)
OutputReady(chain, content) == Signal("OUTPUT_READY", [chain |-> chain, content |-> content])
ChainPause(chain) == Signal("CHAIN_PAUSE", chain)

Position(l) == CASE l \in {"InputLoop", "ShadowBridgeLoop"} -> 1 [] l = "OutputLoop" -> 2
                 [] l = "ExecutiveLoop" -> 3 [] OTHER -> 4
Heartbeat == {"InputLoop", "ExecutiveLoop", "CriticLoop"}
Subscriptions(l) ==
    CASE l \in {"InputLoop", "ShadowBridgeLoop"} -> {"INPUT_RECEIVED"}
      [] l = "OutputLoop" -> {"OUTPUT_READY", "CHAIN_PAUSE"}
      [] l = "ExecutiveLoop" -> {"PLAN_CREATED", "RISK_HIGH", "INVARIANT_VIOLATION", "ASK_BEFORE_ACT",
                                 "MODEL_ERROR_DETECTED", "SUGGEST_ALTERNATIVE_PLAN"}
      [] OTHER -> {"PLAN_CREATED"}

VARIABLES
    faulty, life,   \* may publishers be slow; how often the session was cleared
    bus,            \* the queue of the session
    session,        \* does the scheduler know the session
    cursor, ready,  \* signalCursor and readyLoops of its sessionState
    submits, submitting, due, queue,  \* calls: begun, before queueInput(), before triggerTick(); and
                                      \* externalInputQueue
    ticks, tick,    \* tickCounter, and tick[t]: where it is and what it has
    state,          \* the working state
    attempts,       \* replanAttemptsByChain
    interrupted, published,  \* of OutputLoop
    records,        \* tickRecords
    offered,        \* history: pairs of a loop and a signal of this life that it was given
    tooLate,        \* history: an output was published behind the pause of its chain
    met, slow,      \* history: ticks overlapped or the session was cleared; a publisher was slow
    requested       \* history: replans after model errors, by chain

bound == <<faulty, submits, submitting, due>>
output == <<interrupted, published, tooLate, slow>>
vars == <<bound, life, bus, session, cursor, ready, queue, ticks, tick, state, attempts, output,
          records, offered, met, requested>>

InitialWorkingState == [active |-> None, primary |-> None, secondary |-> <<>>]
Idle == [at |-> "idle", life |-> 0, from |-> 0, read |-> <<>>, toRun |-> {}, todo |-> <<>>,
         out |-> <<>>, deltas |-> <<>>, before |-> InitialWorkingState]

Init ==
    /\ faulty \in FaultChoices /\ life = 0 /\ bus = <<>> /\ session = FALSE /\ cursor = 0 /\ ready = {}
    /\ submits = 0 /\ submitting = 0 /\ due = 0 /\ queue = 0
    /\ ticks = 0 /\ tick = [t \in Tick |-> Idle]
    /\ state = InitialWorkingState /\ attempts = <<>>
    /\ interrupted = {} /\ published = {} /\ records = <<>>
    /\ offered = {} /\ tooLate = FALSE /\ met = FALSE /\ slow = FALSE /\ requested = <<>>

-----------------------------------------------------------------------------
(* The calls of the runtime.                                               *)

\* submitSignal(), submitSystemEvent(): append, then a tick.
SubmitSignal ==
    /\ submits < MaxSubmits /\ submits' = submits + 1
    /\ \E s \in External : bus' = Append(bus, s)
    /\ due' = due + 1
    /\ UNCHANGED <<faulty, submitting, life, session, cursor, ready, queue, ticks, tick, state, attempts,
                   output, records, offered, met, requested>>

\* submitInput() appends the input, then queues it for InputLoop as well, then there is a tick.
SubmitInput ==
    /\ submits < MaxSubmits /\ submits' = submits + 1
    /\ bus' = Append(bus, InputReceived) /\ submitting' = submitting + 1
    /\ UNCHANGED <<faulty, due, life, session, cursor, ready, queue, ticks, tick, state, attempts,
                   output, records, offered, met, requested>>

QueueInput ==
    /\ submitting > 0 /\ submitting' = submitting - 1
    /\ queue' = queue + 1 /\ due' = due + 1
    /\ UNCHANGED <<faulty, submits, life, bus, session, cursor, ready, ticks, tick, state, attempts,
                   output, records, offered, met, requested>>

\* clearSession(): the queue of InputLoop, interruptedChains and the ticks under way remain.
ClearSession ==
    /\ life < MaxClears /\ life' = life + 1
    /\ bus' = <<>> /\ session' = FALSE /\ cursor' = 0 /\ ready' = {} /\ records' = <<>>
    /\ state' = InitialWorkingState /\ published' = {}
    /\ offered' = {} /\ met' = (met \/ \E t \in Tick : tick[t].at # "idle")
    /\ UNCHANGED <<bound, queue, ticks, tick, attempts, interrupted, tooLate, slow, requested>>

-----------------------------------------------------------------------------
(* executeTick().                                                          *)

Triggered(signals) == {l \in Enabled : \E s \in ToSet(signals) : s.type \in Subscriptions(l)}

ReadTail == SubSeq(bus, cursor + 1, Len(bus))

BeginTick(t) ==
    /\ tick[t].at = "idle" /\ ticks < MaxTicks /\ ticks' = ticks + 1
    /\ session' = TRUE /\ ready' = {}
    /\ tick' = [tick EXCEPT ![t] = [Idle EXCEPT
           !.at = "looping", !.life = life, !.from = cursor, !.read = ReadTail, !.before = state,
           !.toRun = Enabled \cap (Triggered(ReadTail) \cup Heartbeat \cup ready)]]
    /\ met' = (met \/ \E u \in Tick : tick[u].at # "idle")
    /\ UNCHANGED <<faulty, submits, submitting, life, bus, cursor, queue, state, attempts, output, records,
                   offered, requested>>

TriggerTick(t) == due > 0 /\ due' = due - 1 /\ BeginTick(t)
HeartbeatTick(t) == session /\ UNCHANGED due /\ BeginTick(t)

\* l is the next loop of t: none of those left has a lower priority.
Runs(t, l) ==
    /\ tick[t].at = "looping" /\ l \in tick[t].toRun
    /\ \A m \in tick[t].toRun : Position(l) <= Position(m)
    /\ offered' = offered \cup (IF tick[t].life # life THEN {}
            ELSE {<<l, tick[t].from + i>> : i \in DOMAIN tick[t].read})

Given(t, l) == SelectSeq(tick[t].read, LAMBDA s : s.type \in Subscriptions(l))

\* The result of a loop: its first signals are emitted and make palpitation loops ready, its
\* changes are kept for the end of the tick. readyLoops belongs to the life in which the tick began.
Return(t, l, signals, deltas) ==
    LET out == SubSeq(signals, 1, Min({Len(signals), MaxSignalsOut}))
    IN /\ bus' = bus \o out
       /\ ready' = IF tick[t].life # life THEN ready ELSE ready \cup (Triggered(out) \ Heartbeat)
       /\ tick' = [tick EXCEPT ![t].at = "looping", ![t].toRun = @ \ {l}, ![t].todo = <<>>,
                               ![t].out = <<>>, ![t].deltas = @ \o deltas]
       /\ UNCHANGED <<bound, life, session, cursor, ticks, state, records, met>>

\* InputLoop: the queued inputs, and once more what it is given; an idle session gets a focus.
RunInput(t) ==
    /\ Runs(t, "InputLoop")
    /\ Return(t, "InputLoop", [i \in 1..queue |-> InputReceived] \o Given(t, "InputLoop"),
              IF queue > 0 /\ state.active = None THEN <<<<"active", InputChain>>>> ELSE <<>>)
    /\ queue' = 0
    /\ UNCHANGED <<attempts, output, requested>>

\* The shadow comparison answers an input at once.
RunBridge(t) ==
    /\ Runs(t, "ShadowBridgeLoop")
    /\ Return(t, "ShadowBridgeLoop",
              IF Given(t, "ShadowBridgeLoop") = <<>> THEN <<>> ELSE <<OutputReady(InputChain, "echo")>>, <<>>)
    /\ UNCHANGED <<queue, attempts, output, requested>>

\* Mutation: a pause is only reported.
HandleReporting(acc, s) ==
    IF acc.todo # <<>> THEN [acc EXCEPT !.todo = Append(@, s)]
    ELSE IF s.type = "CHAIN_PAUSE"
    THEN [acc EXCEPT !.out = Append(@, Signal("OUTPUT_INTERRUPTED", s.about))]
    ELSE IF s.about \in acc.published THEN acc
    ELSE [acc EXCEPT !.published = @ \cup {s.about}, !.todo = <<s>>]

\* What OutputLoop does up to the next output that it publishes.
Handle(acc, s) ==
    IF acc.todo # <<>> THEN [acc EXCEPT !.todo = Append(@, s)]
    ELSE IF s.type = "CHAIN_PAUSE"
    THEN [acc EXCEPT !.interrupted = @ \cup {s.about}, !.out = Append(@, Signal("OUTPUT_INTERRUPTED", s.about))]
    ELSE IF s.about.chain \in acc.interrupted
    THEN [acc EXCEPT !.out = Append(@, Signal("OUTPUT_INTERRUPTED", s.about.chain))]
    ELSE IF s.about \in acc.published THEN acc
    ELSE [acc EXCEPT !.published = @ \cup {s.about}, !.todo = <<s>>]

\* Was there a pause of the chain of this output before it?
BehindPause(t, s) ==
    \E i, j \in DOMAIN bus : i < j /\ j <= tick[t].from + Len(tick[t].read) /\ bus[j] = s
        /\ bus[i] = ChainPause(s.about.chain)
        /\ \A k \in 1..j - 1 : bus[k] # s

Output(t, signals, out) ==
    LET after == FoldLeft(Handle, [interrupted |-> interrupted, published |-> published, todo |-> <<>>,
                                   out |-> out], signals)
    IN /\ interrupted' = after.interrupted /\ published' = after.published
       /\ IF after.todo = <<>>
          THEN Return(t, "OutputLoop", after.out, <<>>) /\ UNCHANGED <<tooLate, slow>>
          ELSE /\ tick' = [tick EXCEPT ![t].at = "publishing", ![t].todo = after.todo, ![t].out = after.out]
               /\ tooLate' = (tooLate \/ (tick[t].life = life /\ BehindPause(t, Head(after.todo))))
               /\ UNCHANGED <<bound, life, bus, session, cursor, ready, ticks, state, records, met, slow>>
       /\ UNCHANGED <<queue, attempts, requested>>

RunOutput(t) == Runs(t, "OutputLoop") /\ Output(t, Given(t, "OutputLoop"), <<>>)

\* The publisher returns or throws.
PublishReturns(t) ==
    /\ tick[t].at = "publishing"
    /\ \E type \in {"OUTPUT_SENT", "OUTPUT_INTERRUPTED"} :
        Output(t, Tail(tick[t].todo), Append(tick[t].out, Signal(type, Head(tick[t].todo).about.chain)))
    /\ UNCHANGED offered

\* The publisher takes longer than tickBudgetMs: what OutputLoop has left is lost to this tick. (That
\* the loop itself goes on is in TickScheduler.)
ExceedBudget(t) ==
    /\ faulty /\ tick[t].at = "publishing"
    /\ tick' = [tick EXCEPT ![t].at = "looping", ![t].toRun = @ \ {"OutputLoop"}, ![t].todo = <<>>,
                            ![t].out = <<>>]
    /\ slow' = TRUE
    /\ UNCHANGED <<bound, life, bus, session, cursor, ready, queue, ticks, state, attempts, interrupted,
                   published, tooLate, records, offered, met, requested>>

-----------------------------------------------------------------------------
(* ExecutiveLoop and CriticLoop.                                           *)

Has(t, type) == \E s \in ToSet(tick[t].read) : s.type = type
Attempts(chain) == IF chain \in DOMAIN attempts THEN attempts[chain] ELSE 0
ActiveOrGlobal == IF state.active = None THEN Global ELSE state.active
PauseActive == IF state.active = None THEN <<>> ELSE <<ChainPause(state.active)>>

CountAttempt(chain) == [c \in DOMAIN attempts \cup {chain} |-> Attempts(c) + (IF c = chain THEN 1 ELSE 0)]

\* Replans until the attempts for the chain are spent, then it is paused for good.
HandleModelError(t) ==
    /\ Has(t, "MODEL_ERROR_DETECTED")
    /\ IF Attempts(ActiveOrGlobal) < MaxReplans
       THEN /\ attempts' = CountAttempt(ActiveOrGlobal)
            /\ requested' = Append(requested, ActiveOrGlobal)
            /\ Return(t, "ExecutiveLoop", <<Signal("EXEC_REQUEST_REPLAN", None)>>, <<>>)
       ELSE /\ Return(t, "ExecutiveLoop", <<ChainPause(ActiveOrGlobal)>>, <<>>)
            /\ UNCHANGED <<attempts, requested>>

Newest(t) == Last(SelectSeq(tick[t].read, LAMBDA s : s.type = "PLAN_CREATED")).about

RoomForChain(s) == Len(s.secondary) < MaxSecondary

CreateChain(t) ==
    IF state.primary = None THEN <<<<"primary", Newest(t)>>, <<"active", Newest(t)>>>>
    ELSE IF RoomForChain(state) THEN <<<<"secondary", Newest(t)>>>> ELSE <<>>

\* makeDecision() and what tick() makes of it, in the order of their priorities.
Decide(t) ==
    IF Has(t, "INVARIANT_VIOLATION") THEN Return(t, "ExecutiveLoop", <<Signal("EXEC_REQUEST_REPLAN", None)>>, <<>>)
    ELSE IF Has(t, "ASK_BEFORE_ACT") \/ Has(t, "RISK_HIGH") THEN Return(t, "ExecutiveLoop", PauseActive, <<>>)
    ELSE IF Has(t, "SUGGEST_ALTERNATIVE_PLAN")
    THEN Return(t, "ExecutiveLoop", <<Signal("EXEC_REQUEST_REPLAN", None)>>, <<>>)
    ELSE Return(t, "ExecutiveLoop", <<>>, IF Has(t, "PLAN_CREATED") THEN CreateChain(t) ELSE <<>>)

RunExecutive(t) ==
    /\ Runs(t, "ExecutiveLoop")
    /\ \/ HandleModelError(t)
       \/ ~Has(t, "MODEL_ERROR_DETECTED") /\ Decide(t) /\ UNCHANGED <<attempts, requested>>
    /\ UNCHANGED <<queue, output>>

\* critiquePlan(): with full confidence no question is asked, and no loop writes activeSchemas.
Findings(p) ==
    (IF p \in Risky THEN <<Signal("RISK_HIGH", p)>> ELSE <<>>) \o
    (IF p \in Invalid THEN <<Signal("INVARIANT_VIOLATION", p), Signal("SUGGEST_ALTERNATIVE_PLAN", p)>> ELSE <<>>)

RunCritic(t) ==
    /\ Runs(t, "CriticLoop")
    /\ LET plans == Given(t, "CriticLoop")
       IN Return(t, "CriticLoop", FlattenSeq([i \in DOMAIN plans |-> Findings(plans[i].about)]), <<>>)
    /\ UNCHANGED <<queue, attempts, output, requested>>

ApplyDelta(s, d) ==
    CASE d[1] = "active" -> [s EXCEPT !.active = d[2]]
      [] d[1] = "primary" -> [s EXCEPT !.primary = d[2]]
      [] OTHER -> [s EXCEPT !.secondary = SubSeq(<<d[2]>> \o @, 1, MaxSecondary)]

TickRecord(t) == [before |-> tick[t].before, after |-> FoldLeft(ApplyDelta, state, tick[t].deltas)]

\* The cursor is that of the life in which the tick began.
OwnsCursor(t) == tick[t].read # <<>> /\ tick[t].life = life

EndTick(t) ==
    /\ tick[t].at = "looping" /\ tick[t].toRun = {}
    /\ state' = FoldLeft(ApplyDelta, state, tick[t].deltas)
    /\ cursor' = IF OwnsCursor(t) THEN tick[t].from + Len(tick[t].read) ELSE cursor
    /\ records' = Append(records, TickRecord(t))
    /\ tick' = [tick EXCEPT ![t] = Idle]
    /\ UNCHANGED <<bound, life, bus, session, ready, queue, ticks, attempts, output, offered, met, requested>>

Next ==
    \/ SubmitSignal \/ SubmitInput \/ QueueInput \/ ClearSession
    \/ \E t \in Tick :
        \/ TriggerTick(t) \/ HeartbeatTick(t)
        \/ RunInput(t) \/ RunBridge(t) \/ RunOutput(t) \/ PublishReturns(t) \/ ExceedBudget(t)
        \/ RunExecutive(t) \/ RunCritic(t) \/ EndTick(t)

-----------------------------------------------------------------------------
TypeOK ==
    /\ cursor <= Len(bus)
    /\ Len(state.secondary) <= MaxSecondary
    /\ ready \cap Heartbeat = {}
    /\ \A t \in Tick : tick[t].at = "publishing" => tick[t].todo # <<>>

\* Also when a session is cleared and begun anew while its old ticks go on, no signal is passed over:
\* every loop has been given every signal behind the cursor that it subscribes to.
NothingIsPassedOver ==
    \A i \in 1..cursor : \A l \in Enabled :
        bus[i].type \in Subscriptions(l) => <<l, i>> \in offered

\* A chain is silent from its pause on: no output that comes behind the pause of its chain on the bus
\* is published, whatever ticks read the two and in whatever order they end (while publishers
\* keep within the budget of the loop).
PauseComesFirst == slow \/ ~tooLate

\* The records of ticks that do not overlap form the chain that verifyTick() checks: each begins
\* with the state in which the one before it ended.
Verified(i) == records[i].before = records[i - 1].after
RecordsAreChained == met \/ \A i \in 2..Len(records) : Verified(i)

\* Replans after model errors are bounded for each chain and for the session without one.
ReplansAreBounded ==
    \A c \in ToSet(requested) : Len(SelectSeq(requested, LAMBDA r : r = c)) <= MaxReplans
=============================================================================
