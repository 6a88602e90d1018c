---------------------------- MODULE TickScheduler -----------------------------
(***************************************************************************)
(* One session of the runtime: the signal bus (src/src/runtime/            *)
(* signal-bus.ts), the ticks of src/src/runtime/scheduler.ts that carry    *)
(* signals to the loops, the loops on the way from an input to its output, *)
(* and processInput() of src/src/synth-runtime.ts, which waits for it.     *)
(* Nothing keeps a tick from beginning while others run, so ticks overlap  *)
(* at every await. The heartbeat loops (executive, critic) and the monitor *)
(* take no part in this way; the bus keeps 10000 signals, more than a      *)
(* session of the model has.                                               *)
(***************************************************************************)
EXTENDS Naturals, Sequences, FiniteSets

CONSTANTS
    Tick,          \* ticks of the session that may run at the same time (bound)
    Steps,         \* how many executed steps a plan may have
    Content,       \* what an answer may say
    MaxSignalsOut, \* maxSignalsOut of the loops and maxSignalsPerTick
    ReadLimit,     \* how many signals readTail returns
    FaultChoices,  \* may loops be too slow and the disk fail? a set of Booleans
    None

ASSUME TickAssumption ==
    /\ Steps \subseteq Nat
    /\ MaxSignalsOut \in Nat \ {0} /\ ReadLimit \in Nat \ {0}
    /\ FaultChoices \subseteq BOOLEAN
    /\ None \notin Content

Other == [type |-> "other", content |-> None]
Input == [type |-> "INPUT_RECEIVED", content |-> None]
Signal == {Other, Input} \cup [type : {"OUTPUT_READY", "OUTPUT_SENT"}, content : Content]

\* A tick runs its loops in the order of their positions: all are registered
\* with priority 0, and the input comes before the output it leads to.
Loop == {"InputLoop", "CortexLoop", "OutputLoop"}
Position(l) == CASE l = "InputLoop" -> 1 [] l = "CortexLoop" -> 2 [] OTHER -> 3
Subscribes(l, type) ==
    \/ l \in {"InputLoop", "CortexLoop"} /\ type = "INPUT_RECEIVED"
    \/ l = "OutputLoop" /\ type = "OUTPUT_READY"
Palpitation == {"InputLoop", "OutputLoop"}

VARIABLES
    steps, faulty, \* of this session
    signals,       \* the queue of the bus; a sequence number is an index
    cursor,        \* how many of them signalCursor has passed
    ready,         \* readyLoops
    tick,          \* tick[t]: where t is, what it has read and still runs
    published,     \* what OutputLoop has in publishedOutputs
    publishes,     \* publishes[c]: how often c was handed to the publisher
    late,          \* OUTPUT_READY signals left to an OutputLoop over its budget
    offered,       \* pairs of a loop and a signal it was given
    caller         \* processInput(): "new", "waiting", "answered" or "gave up"

vars == <<steps, faulty, signals, cursor, ready, tick, published, publishes, late,
          offered, caller>>

\* "at" is "idle", "looping" between two loops, "cortex" or "output" while it
\* awaits that loop, "publishing" while OutputLoop awaits the publisher, or
\* "emitting"; it has read the signals after "from", up to "to"; "todo" are
\* the OUTPUT_READY signals OutputLoop has not done with, "out" the signals
\* to be emitted.
Idle == [at |-> "idle", from |-> 0, to |-> 0, toRun |-> {}, todo |-> {}, out |-> <<>>]

Init ==
    /\ steps \in Steps /\ faulty \in FaultChoices
    /\ signals = <<>> /\ cursor = 0 /\ ready = {}
    /\ tick = [t \in Tick |-> Idle]
    /\ published = {} /\ publishes = [c \in Content |-> 0] /\ late = {}
    /\ offered = {}
    /\ caller = "new"

session == <<steps, faulty>>
output == <<published, publishes, late>>

\* Mutation: the dedupe key is not looked at.
AppendedAlways(s) == Append(signals, s)

\* append(): the input has a dedupeKey, so a second one is not queued.
Appended(s) ==
    IF s.type = "INPUT_RECEIVED" /\ \E i \in DOMAIN signals : signals[i].type = s.type
    THEN signals ELSE Append(signals, s)

\* processInput() queues the input and begins to wait.
ProcessInput ==
    /\ caller = "new"
    /\ signals' = Appended(Input)
    /\ caller' = "waiting"
    /\ UNCHANGED <<session, cursor, ready, tick, output, offered>>

-------------------------------------------------------------------------------
(* executeTick.                                                            *)

\* Mutation: the signal at the cursor is left out.
ReadAfterCursor == cursor + 1

\* readTail: the signals after the first number, up to the second.
ReadFrom == cursor
ReadTo == IF Len(signals) - cursor < ReadLimit THEN Len(signals) ELSE cursor + ReadLimit

Triggered(reads) == {l \in Loop : \E i \in reads : Subscribes(l, signals[i].type)}

\* The heartbeat, or the caller's triggerTick, begins a tick.
StartTick(t) ==
    /\ tick[t].at = "idle" /\ caller # "new"
    /\ tick' = [tick EXCEPT ![t] =
           [at |-> "looping", from |-> ReadFrom, to |-> ReadTo,
            toRun |-> Triggered(ReadFrom + 1 .. ReadTo) \cup ready,
            todo |-> {}, out |-> <<>>]]
    /\ ready' = {}
    /\ UNCHANGED <<session, signals, cursor, output, offered, caller>>

Reads(t) == tick[t].from + 1 .. tick[t].to

\* l is the next loop of t, and is given the signals it subscribes to.
Given(t, l) == {i \in Reads(t) : Subscribes(l, signals[i].type)}

RunsNext(t, l) ==
    /\ tick[t].at = "looping"
    /\ l \in tick[t].toRun
    /\ \A m \in tick[t].toRun : Position(l) <= Position(m)
    /\ offered' = offered \cup ({l} \X Given(t, l))
    /\ UNCHANGED <<session, signals, cursor, ready, output, caller>>

\* Mutation: all of them.
EmitAll(t, l, out) ==
    tick' = [tick EXCEPT ![t].at = "emitting", ![t].toRun = @ \ {l}, ![t].todo = {},
                         ![t].out = out]

\* The loop's result is there: its first maxSignalsOut signals are emitted.
Emit(t, l, out) ==
    tick' = [tick EXCEPT ![t].at = "emitting", ![t].toRun = @ \ {l}, ![t].todo = {},
                         ![t].out = SubSeq(out, 1, IF Len(out) < MaxSignalsOut
                                                   THEN Len(out) ELSE MaxSignalsOut)]

\* InputLoop passes every input it is given on as it is.
RunInputLoop(t) ==
    /\ RunsNext(t, "InputLoop")
    /\ Emit(t, "InputLoop", [i \in 1 .. Cardinality(Given(t, "InputLoop")) |-> Input])

RunCortexLoop(t) ==
    /\ RunsNext(t, "CortexLoop")
    /\ tick' = [tick EXCEPT ![t].at = "cortex", ![t].toRun = @ \ {"CortexLoop"}]

\* CortexLoop's signals for a plan of executed steps: PLAN_CREATED, a result,
\* a decision and an execution per step, EVALUATION_COMPLETE, OUTPUT_READY.
PlanSignals(c) ==
    [i \in 1 .. 2 + 3 * steps |-> Other] \o <<[type |-> "OUTPUT_READY", content |-> c]>>

FinishCortexLoop(t) ==
    /\ tick[t].at = "cortex"
    /\ \E c \in Content : Emit(t, "CortexLoop", PlanSignals(c))
    /\ UNCHANGED <<session, signals, cursor, ready, output, offered, caller>>

RunOutputLoop(t) ==
    /\ RunsNext(t, "OutputLoop")
    /\ tick' = [tick EXCEPT ![t].at = "output", ![t].toRun = @ \ {"OutputLoop"},
                            ![t].todo = Given(t, "OutputLoop")]

\* Mutation: it is marked after the publisher has returned.
MarkedLater(c) == published

\* What OutputLoop marks before it awaits the publisher.
Marked(c) == published \cup {c}

\* OutputLoop takes its signals in their order.
First(t, i) == i \in tick[t].todo /\ \A j \in tick[t].todo : i <= j

\* OutputLoop comes to its next signal, which was published before ...
SkipPublished(t) ==
    \E i \in DOMAIN signals :
        /\ tick[t].at = "output" /\ First(t, i)
        /\ signals[i].content \in published
        /\ tick' = [tick EXCEPT ![t].todo = @ \ {i}]
        /\ UNCHANGED <<session, signals, cursor, ready, output, offered, caller>>

\* ... or is handed to the publisher.
Publish(t) ==
    \E i \in DOMAIN signals :
        LET c == signals[i].content IN
        /\ tick[t].at = "output" /\ First(t, i)
        /\ c \notin published
        /\ tick' = [tick EXCEPT ![t].at = "publishing"]
        /\ published' = Marked(c)
        /\ publishes' = [publishes EXCEPT ![c] = @ + 1]
        /\ UNCHANGED <<session, signals, cursor, ready, late, offered, caller>>

\* The publisher has returned.
PublishDone(t) ==
    \E i \in DOMAIN signals :
        LET c == signals[i].content IN
        /\ tick[t].at = "publishing" /\ First(t, i)
        /\ published' = published \cup {c}
        /\ tick' = [tick EXCEPT ![t].at = "output", ![t].todo = @ \ {i},
                                ![t].out = Append(@, [type |-> "OUTPUT_SENT", content |-> c])]
        /\ UNCHANGED <<session, signals, cursor, ready, publishes, late, offered, caller>>

FinishOutputLoop(t) ==
    /\ tick[t].at = "output" /\ tick[t].todo = {}
    /\ Emit(t, "OutputLoop", tick[t].out)
    /\ UNCHANGED <<session, signals, cursor, ready, output, offered, caller>>

\* What a tick goes on to when a loop has failed: the next one.
NextLoop(r) == [r EXCEPT !.at = "looping", !.todo = {}, !.out = <<>>]

\* Tick budget exceeded: the result is dropped, the loop itself goes on; the
\* publisher call that is under way counts as done.
ExceedBudget(t) ==
    /\ faulty
    /\ tick[t].at \in {"cortex", "output", "publishing"}
    /\ late' = late \cup {i \in tick[t].todo : tick[t].at = "publishing" => ~First(t, i)}
    /\ tick' = [tick EXCEPT ![t] = NextLoop(@)]
    /\ UNCHANGED <<session, signals, cursor, ready, published, publishes, offered, caller>>

PublishLate ==
    \E i \in late :
        LET c == signals[i].content IN
        /\ late' = late \ {i}
        /\ published' = published \cup {c}
        /\ publishes' = IF c \in published THEN publishes ELSE [publishes EXCEPT ![c] = @ + 1]
        /\ UNCHANGED <<session, signals, cursor, ready, tick, offered, caller>>

\* The next signal is queued and makes the palpitation loops that subscribe
\* to it ready.
EmitNext(t) ==
    LET s == Head(tick[t].out) IN
    /\ tick[t].at = "emitting" /\ tick[t].out # <<>>
    /\ signals' = Appended(s)
    /\ ready' = ready \cup {l \in Palpitation : Subscribes(l, s.type)}
    /\ tick' = [tick EXCEPT ![t].out = Tail(@)]
    /\ UNCHANGED <<session, cursor, output, offered, caller>>

\* The signal cannot be written to disk: it stays in the queue, and the rest
\* of the loop's signals are dropped.
EmitFails(t) ==
    /\ faulty
    /\ tick[t].at = "emitting" /\ tick[t].out # <<>>
    /\ signals' = Appended(Head(tick[t].out)) /\ signals' # signals
    /\ tick' = [tick EXCEPT ![t] = NextLoop(@)]
    /\ UNCHANGED <<session, cursor, ready, output, offered, caller>>

LoopDone(t) ==
    /\ tick[t].at = "emitting" /\ tick[t].out = <<>>
    /\ tick' = [tick EXCEPT ![t] = NextLoop(@)]
    /\ UNCHANGED <<session, signals, cursor, ready, output, offered, caller>>

\* The cursor moves behind what this tick has read, whatever other ticks
\* have made of it since.
\* Mutation: it moves behind all that is queued by now.
CursorAtTail(t) == Len(signals)

CursorAfter(t) == IF tick[t].from < tick[t].to THEN tick[t].to ELSE cursor

EndTick(t) ==
    /\ tick[t].at = "looping" /\ tick[t].toRun = {}
    /\ cursor' = CursorAfter(t)
    /\ tick' = [tick EXCEPT ![t] = Idle]
    /\ UNCHANGED <<session, signals, ready, output, offered, caller>>

-------------------------------------------------------------------------------

Queued(type) == \E i \in DOMAIN signals : signals[i].type = type

\* waitForOutputSignal.
CallerSees ==
    /\ caller = "waiting"
    /\ Queued("OUTPUT_READY") /\ Queued("OUTPUT_SENT")
    /\ caller' = "answered"
    /\ UNCHANGED <<session, signals, cursor, ready, tick, output, offered>>

CallerGivesUp ==
    /\ caller = "waiting" /\ faulty
    /\ caller' = "gave up"
    /\ UNCHANGED <<session, signals, cursor, ready, tick, output, offered>>

Step(t) ==
    \/ RunInputLoop(t) \/ RunCortexLoop(t) \/ FinishCortexLoop(t)
    \/ RunOutputLoop(t) \/ SkipPublished(t) \/ Publish(t) \/ PublishDone(t)
    \/ FinishOutputLoop(t) \/ EmitNext(t) \/ LoopDone(t) \/ EndTick(t)

Next ==
    \/ ProcessInput \/ CallerSees \/ CallerGivesUp \/ PublishLate
    \/ \E t \in Tick : StartTick(t) \/ Step(t) \/ ExceedBudget(t) \/ EmitFails(t)

Spec == Init /\ [][Next]_vars

\* The heartbeat goes on, and what a tick awaits comes to an end.
Fairness ==
    /\ WF_vars(ProcessInput) /\ WF_vars(CallerSees)
    /\ \A t \in Tick : WF_vars(StartTick(t)) /\ WF_vars(Step(t))
FairSpec == Spec /\ Fairness

-------------------------------------------------------------------------------
(* Properties.                                                             *)

TickState == [at : {"idle", "looping", "cortex", "output", "publishing", "emitting"},
              from : Nat, to : Nat, toRun : SUBSET Loop, todo : SUBSET Nat,
              out : Seq(Signal)]
IsOutput(i) == i \in DOMAIN signals /\ signals[i].type = "OUTPUT_READY"

TypeOK ==
    /\ steps \in Steps /\ faulty \in BOOLEAN
    /\ signals \in Seq(Signal)
    /\ cursor \in 0 .. Len(signals)
    /\ ready \subseteq Palpitation
    /\ tick \in [Tick -> TickState]
    /\ \A t \in Tick :
           /\ tick[t].from <= tick[t].to /\ tick[t].to <= Len(signals)
           /\ tick[t].at = "emitting" => Len(tick[t].out) <= MaxSignalsOut
           /\ \A i \in tick[t].todo : IsOutput(i)
    /\ published \subseteq Content
    /\ publishes \in [Content -> Nat]
    /\ \A i \in late : IsOutput(i)
    /\ offered \subseteq Loop \X DOMAIN signals
    /\ caller \in {"new", "waiting", "answered", "gave up"}

\* The cursor never passes a signal that a subscribed loop has not been given:
\* not the signals emitted while the tick was running, not when a loop before
\* it failed, not when ticks overlap and end in any order (executeTick).
OfferedBelowCursor ==
    \A i \in 1 .. cursor : \A l \in Loop :
        Subscribes(l, signals[i].type) => <<l, i>> \in offered

\* InputLoop queues every input it is given again; the input of a session is
\* nevertheless on the bus once (the dedupe window of append).
EchoIsAbsorbed == Cardinality({i \in DOMAIN signals : signals[i].type = "INPUT_RECEIVED"}) <= 1

\* An output is published once, however many ticks read its signal and
\* whatever OutputLoops run at the same time (publishedOutputs).
PublishedOnce == \A c \in Content : publishes[c] <= 1

\* processInput() answers only after the publisher was given an output, once,
\* and it is the output the OUTPUT_SENT on the bus names: not one of another
\* tick that was dropped, late, or never handed over.
AnswerWasPublished ==
    caller = "answered" =>
        \E i \in DOMAIN signals :
            signals[i].type = "OUTPUT_SENT" /\ publishes[signals[i].content] = 1

\* When no loop is too slow and the disk works, an input whose plan fits into
\* maxSignalsOut is answered.
Unhindered == ~faulty /\ MaxSignalsOut >= 3 + 3 * steps
InputIsAnswered == Unhindered ~> (caller = "answered")

\* "Emit OUTPUT_CANDIDATE_READY if there's output" (cortex-loop.ts): every
\* plan's output reaches the caller.
OutputReachesCaller == ~faulty ~> (caller = "answered")

===============================================================================
