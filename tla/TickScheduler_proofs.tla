------------------------ MODULE TickScheduler_proofs --------------------------
(***************************************************************************)
(* Proofs about TickScheduler for any number of ticks that overlap, plans  *)
(* of any length, any limits, slow loops and failing appends; about        *)
(* RuntimeGovernor, for any errors and successes in any order; and about   *)
(* ErrorBoundary, for any calls that overlap and any strategies.           *)
(***************************************************************************)
EXTENDS TickScheduler, RuntimeGovernor, ErrorBoundary, FiniteSetTheorems, SequenceTheorems, TLAPS

\* What the type invariant says of the lengths and of one tick.
LEMMA Basics ==
    ASSUME TypeOK
    PROVE  /\ signals \in Seq(Signal) /\ Len(signals) \in Nat
           /\ DOMAIN signals = 1 .. Len(signals)
           /\ cursor \in Nat /\ cursor <= Len(signals)
           /\ steps \in Nat
           /\ \A t \in Tick : /\ tick[t] \in TickState
                             /\ tick[t].from \in Nat /\ tick[t].to \in Nat
                             /\ tick[t].from <= tick[t].to /\ tick[t].to <= Len(signals)
                             /\ tick[t].out \in Seq(Signal) /\ tick[t].toRun \subseteq Loop
<1>1. signals \in Seq(Signal) /\ Len(signals) \in Nat /\ DOMAIN signals = 1 .. Len(signals)
  <2>1. signals \in Seq(Signal)
    BY DEF TypeOK
  <2>2. QED
    BY <2>1, LenProperties
<1>2. cursor \in Nat /\ cursor <= Len(signals)
  <2>1. cursor \in 0 .. Len(signals)
    BY DEF TypeOK
  <2>2. QED
    BY <2>1, <1>1
<1>3. steps \in Nat
  BY TickAssumption DEF TypeOK
<1>4. ASSUME NEW t \in Tick
      PROVE  /\ tick[t] \in TickState
             /\ tick[t].from \in Nat /\ tick[t].to \in Nat
             /\ tick[t].from <= tick[t].to /\ tick[t].to <= Len(signals)
             /\ tick[t].out \in Seq(Signal) /\ tick[t].toRun \subseteq Loop
  <2>1. tick[t] \in TickState
    BY DEF TypeOK
  <2>2. QED
    BY <2>1 DEF TypeOK, TickState
<1>5. QED
  BY <1>1, <1>2, <1>3, <1>4

\* The bus only ever grows: what is queued stays at its place.
LEMMA AppendedType ==
    ASSUME signals \in Seq(Signal), NEW s \in Signal
    PROVE  /\ Appended(s) \in Seq(Signal)
           /\ Len(signals) <= Len(Appended(s))
           /\ \A i \in DOMAIN signals : Appended(s)[i] = signals[i]
BY DEF Appended

\* The first signals of a sequence are a sequence of signals.
LEMMA PrefixType ==
    ASSUME NEW s \in Seq(Signal), NEW n \in Nat, n <= Len(s)
    PROVE  SubSeq(s, 1, n) \in Seq(Signal) /\ Len(SubSeq(s, 1, n)) = n
BY SubSeqProperties

\* A loop's result leaves the tick well-typed, with at most maxSignalsOut
\* signals to emit.
LEMMA EmitType ==
    ASSUME TypeOK, NEW t \in Tick, NEW l, NEW out \in Seq(Signal), Emit(t, l, out)
    PROVE  /\ tick' \in [Tick -> TickState]
           /\ \A u \in Tick :
                  /\ tick'[u].from = tick[u].from /\ tick'[u].to = tick[u].to
                  /\ tick'[u].todo \subseteq tick[u].todo
                  /\ tick'[u].at = "emitting" => Len(tick'[u].out) <= MaxSignalsOut
<1> DEFINE n == IF Len(out) < MaxSignalsOut THEN Len(out) ELSE MaxSignalsOut
           sent == SubSeq(out, 1, n)
<1>1. n \in Nat /\ n <= Len(out) /\ n <= MaxSignalsOut
  BY TickAssumption
<1>2. sent \in Seq(Signal) /\ Len(sent) <= MaxSignalsOut
  BY <1>1, PrefixType
<1>3. tick' = [tick EXCEPT ![t].at = "emitting", ![t].toRun = @ \ {l}, ![t].todo = {},
                           ![t].out = sent]
  BY DEF Emit
<1> DEFINE r == [tick[t] EXCEPT !.at = "emitting", !.toRun = @ \ {l}, !.todo = {},
                                !.out = sent]
<1>4. tick' = [tick EXCEPT ![t] = r]
  BY <1>3
<1> HIDE DEF sent
<1>5. /\ r \in TickState /\ r.from = tick[t].from /\ r.to = tick[t].to
      /\ r.todo = {} /\ Len(r.out) <= MaxSignalsOut
  <2>1. tick[t] \in TickState
    BY Basics
  <2>2. QED
    BY <1>2, <2>1 DEF TickState
<1> HIDE DEF r
<1>6. QED
  BY <1>4, <1>5 DEF TypeOK

\* What CortexLoop emits for a plan.
LEMMA PlanSignalsType ==
    ASSUME TypeOK, NEW c \in Content
    PROVE  PlanSignals(c) \in Seq(Signal)
<1>1. steps \in Nat
  BY Basics
<1>2. [i \in 1 .. 2 + 3 * steps |-> Other] \in Seq(Signal)
  BY <1>1 DEF Signal
<1>3. <<[type |-> "OUTPUT_READY", content |-> c]>> \in Seq(Signal)
  BY DEF Signal
<1>4. QED
  BY <1>2, <1>3, ConcatProperties DEF PlanSignals

\* What InputLoop emits.
LEMMA EchoType ==
    ASSUME TypeOK, NEW t \in Tick
    PROVE  [i \in 1 .. Cardinality(Given(t, "InputLoop")) |-> Input] \in Seq(Signal)
<1>1. Given(t, "InputLoop") \subseteq tick[t].from + 1 .. tick[t].to
  BY DEF Given, Reads
<1>2. tick[t].from + 1 \in Int /\ tick[t].to \in Int
  BY Basics
<1>3. IsFiniteSet(tick[t].from + 1 .. tick[t].to)
  BY <1>2, FS_Interval
<1>4. Cardinality(Given(t, "InputLoop")) \in Nat
  BY <1>1, <1>3, FS_Subset, FS_CardinalityType
<1>5. QED
  BY <1>4 DEF Signal

\* A tick that begins is well-typed.
LEMMA StartType ==
    ASSUME TypeOK, NEW t \in Tick, StartTick(t)
    PROVE  TypeOK'
<1>1. ReadFrom \in Nat /\ ReadTo \in Nat /\ ReadFrom <= ReadTo /\ ReadTo <= Len(signals)
  BY TickAssumption, Basics DEF ReadFrom, ReadTo
<1>2. Triggered(ReadFrom + 1 .. ReadTo) \cup ready \subseteq Loop
  BY DEF TypeOK, Triggered, Palpitation, Loop
<1> DEFINE begun == [at |-> "looping", from |-> ReadFrom, to |-> ReadTo,
                     toRun |-> Triggered(ReadFrom + 1 .. ReadTo) \cup ready,
                     todo |-> {}, out |-> <<>>]
<1> HIDE DEF ReadFrom, ReadTo, Triggered
<1>3. /\ begun \in TickState /\ begun.from <= begun.to /\ begun.to <= Len(signals)
      /\ begun.at = "looping" /\ begun.todo = {}
  BY <1>1, <1>2 DEF TickState
<1>4. tick' = [tick EXCEPT ![t] = begun] /\ signals' = signals
  BY DEF StartTick
<1> HIDE DEF begun
<1>5. tick' \in [Tick -> TickState]
  BY <1>3, <1>4 DEF TypeOK
<1>6. \A u \in Tick : /\ tick'[u].from <= tick'[u].to /\ tick'[u].to <= Len(signals)
                      /\ tick'[u].at = "emitting" => Len(tick'[u].out) <= MaxSignalsOut
                      /\ \A i \in tick'[u].todo : IsOutput(i)
  BY <1>3, <1>4 DEF TypeOK
<1>7. QED
  BY <1>4, <1>5, <1>6 DEF StartTick, TypeOK, session, output, IsOutput

\* The signals a tick has read are on the bus.
LEMMA ReadsType ==
    ASSUME TypeOK, NEW t \in Tick
    PROVE  Reads(t) \subseteq DOMAIN signals
BY Basics DEF Reads

\* Giving a loop its signals is well-typed.
LEMMA OfferType ==
    ASSUME TypeOK, NEW t \in Tick, NEW l \in Loop, RunsNext(t, l)
    PROVE  offered' \subseteq Loop \X DOMAIN signals
BY ReadsType DEF TypeOK, RunsNext, Given

\* Queueing a signal keeps everything that points into the bus.
LEMMA QueueType ==
    ASSUME TypeOK, NEW s \in Signal, signals' = Appended(s)
    PROVE  /\ signals' \in Seq(Signal)
           /\ Len(signals) <= Len(signals')
           /\ cursor \in 0 .. Len(signals')
           /\ offered \subseteq Loop \X DOMAIN signals'
           /\ \A i : IsOutput(i) => IsOutput(i)'
<1>1. /\ signals' \in Seq(Signal) /\ Len(signals) <= Len(signals')
      /\ \A i \in DOMAIN signals : signals'[i] = signals[i]
  BY AppendedType DEF TypeOK
<1>2. Len(signals') \in Nat /\ DOMAIN signals' = 1 .. Len(signals')
  BY <1>1
<1>3. cursor \in 0 .. Len(signals')
  BY <1>1, <1>2, Basics
<1>4. DOMAIN signals \subseteq DOMAIN signals'
  BY <1>1, <1>2, Basics
<1>5. offered \subseteq Loop \X DOMAIN signals'
  BY <1>4 DEF TypeOK
<1>6. ASSUME NEW i, IsOutput(i)
      PROVE  IsOutput(i)'
  BY <1>1, <1>4, <1>6 DEF IsOutput
<1>7. QED
  BY <1>1, <1>3, <1>5, <1>6

LEMMA InitType == Init => TypeOK
BY TickAssumption DEF Init, TypeOK, TickState, Idle, Loop, IsOutput

\* The ticks of a well-typed state.
TicksOK ==
    /\ tick \in [Tick -> TickState]
    /\ \A t \in Tick :
           /\ tick[t].from <= tick[t].to /\ tick[t].to <= Len(signals)
           /\ tick[t].at = "emitting" => Len(tick[t].out) <= MaxSignalsOut
           /\ \A i \in tick[t].todo : IsOutput(i)

\* The rest of a well-typed state.
RestOK ==
    /\ steps \in Steps /\ faulty \in BOOLEAN
    /\ signals \in Seq(Signal)
    /\ cursor \in 0 .. Len(signals)
    /\ ready \subseteq Palpitation
    /\ published \subseteq Content
    /\ publishes \in [Content -> Nat]
    /\ \A i \in late : IsOutput(i)
    /\ offered \subseteq Loop \X DOMAIN signals
    /\ caller \in {"new", "waiting", "answered", "gave up"}

LEMMA TypeParts == TypeOK <=> TicksOK /\ RestOK
BY DEF TypeOK, TicksOK, RestOK

LEMMA RestKept ==
    ASSUME TypeOK, UNCHANGED <<session, signals, cursor, ready, output, offered, caller>>
    PROVE  RestOK'
BY DEF TypeOK, RestOK, session, output, IsOutput

\* A step of one tick, with or without a new signal on the bus.
LEMMA TickKept ==
    ASSUME TypeOK, NEW t \in Tick, NEW r \in TickState,
           tick' = [tick EXCEPT ![t] = r],
           Len(signals') \in Nat, Len(signals) <= Len(signals'),
           \A i : IsOutput(i) => IsOutput(i)',
           r.from <= r.to, r.to <= Len(signals),
           r.at = "emitting" => Len(r.out) <= MaxSignalsOut,
           \A i \in r.todo : IsOutput(i)
    PROVE  TicksOK'
<1>1. tick' \in [Tick -> TickState]
  BY DEF TypeOK
<1>2. ASSUME NEW u \in Tick
      PROVE  /\ tick'[u].from <= tick'[u].to /\ tick'[u].to <= Len(signals)
             /\ tick'[u].to \in Nat
             /\ tick'[u].at = "emitting" => Len(tick'[u].out) <= MaxSignalsOut
             /\ \A i \in tick'[u].todo : IsOutput(i)
  <2>1. CASE u = t
    <3>1. tick'[u] = r
      BY <2>1 DEF TypeOK
    <3>2. QED
      BY <3>1 DEF TickState
  <2>2. CASE u # t
    <3>1. tick'[u] = tick[u]
      BY <2>2 DEF TypeOK
    <3>2. QED
      BY <3>1, Basics DEF TypeOK
  <2>3. QED
    BY <2>1, <2>2
<1>3. \A u \in Tick : tick'[u].to <= Len(signals')
  BY <1>2, Basics
<1>4. QED
  BY <1>1, <1>2, <1>3 DEF TicksOK

\* The bus as it is.
LEMMA SameBus ==
    ASSUME TypeOK, UNCHANGED signals
    PROVE  /\ Len(signals') \in Nat /\ Len(signals) <= Len(signals')
           /\ \A i : IsOutput(i) => IsOutput(i)'
BY Basics DEF IsOutput

\* Going on to the next loop.
LEMMA NextType ==
    ASSUME TypeOK, NEW t \in Tick
    PROVE  /\ NextLoop(tick[t]) \in TickState /\ NextLoop(tick[t]).todo = {}
           /\ NextLoop(tick[t]).at = "looping"
           /\ NextLoop(tick[t]).from = tick[t].from /\ NextLoop(tick[t]).to = tick[t].to
           /\ NextLoop(tick[t]).toRun = tick[t].toRun
<1>1. tick[t] \in TickState /\ <<>> \in Seq(Signal)
  BY Basics
<1>2. QED
  BY <1>1 DEF NextLoop, TickState

\* A loop that awaits, or the next loop.
LEMMA StepsType ==
    ASSUME TypeOK, NEW t \in Tick,
           RunCortexLoop(t) \/ FinishCortexLoop(t) \/ SkipPublished(t)
             \/ FinishOutputLoop(t) \/ LoopDone(t) \/ RunInputLoop(t)
    PROVE  TypeOK'
<1>1. CASE RunInputLoop(t)
  <2>1. /\ Emit(t, "InputLoop", [i \in 1 .. Cardinality(Given(t, "InputLoop")) |-> Input])
        /\ RunsNext(t, "InputLoop")
    BY <1>1 DEF RunInputLoop
  <2>2. TicksOK'
    BY <2>1, EchoType, EmitType DEF TypeOK, TicksOK, RunsNext, IsOutput
  <2>3. RestOK'
    BY <2>1, OfferType DEF TypeOK, RestOK, RunsNext, session, output, IsOutput, Loop
  <2>4. QED
    BY <2>2, <2>3 DEF TypeOK, TicksOK, RestOK
<1>2. CASE RunCortexLoop(t)
  <2>1. RunsNext(t, "CortexLoop")
    BY <1>2 DEF RunCortexLoop
  <2>2. TicksOK'
    BY <1>2 DEF RunCortexLoop, RunsNext, TypeOK, TicksOK, TickState, IsOutput
  <2>3. RestOK'
    BY <2>1, OfferType DEF TypeOK, RestOK, RunsNext, session, output, IsOutput, Loop
  <2>4. QED
    BY <2>2, <2>3 DEF TypeOK, TicksOK, RestOK
<1>3. CASE FinishCortexLoop(t)
  <2>1. PICK c \in Content : Emit(t, "CortexLoop", PlanSignals(c))
    BY <1>3 DEF FinishCortexLoop
  <2>2. TicksOK'
    BY <1>3, <2>1, PlanSignalsType, EmitType DEF FinishCortexLoop, TypeOK, TicksOK, IsOutput
  <2>3. RestOK'
    BY <1>3, RestKept DEF FinishCortexLoop
  <2>4. QED
    BY <2>2, <2>3 DEF TypeOK, TicksOK, RestOK
<1>4. CASE SkipPublished(t)
  <2>1. TicksOK'
    <3>1. PICK i : tick' = [tick EXCEPT ![t].todo = @ \ {i}]
      BY <1>4 DEF SkipPublished
    <3> DEFINE r == [tick[t] EXCEPT !.todo = @ \ {i}]
    <3>2. tick[t] \in TickState
      BY Basics
    <3>3. /\ r \in TickState /\ r.from = tick[t].from /\ r.to = tick[t].to
          /\ r.at = tick[t].at /\ r.out = tick[t].out /\ r.todo \subseteq tick[t].todo
      BY <3>2 DEF TickState
    <3>4. tick' = [tick EXCEPT ![t] = r]
      BY <3>1 DEF TypeOK
    <3>5. UNCHANGED signals
      BY <1>4 DEF SkipPublished
    <3> HIDE DEF r
    <3>6. /\ r.from <= r.to /\ r.to <= Len(signals)
          /\ (r.at = "emitting" => Len(r.out) <= MaxSignalsOut)
          /\ \A j \in r.todo : IsOutput(j)
      BY <3>3 DEF TypeOK
    <3>7. QED
      BY <3>3, <3>4, <3>5, <3>6, SameBus, TickKept
  <2>2. RestOK'
    BY <1>4, RestKept DEF SkipPublished
  <2>3. QED
    BY <2>1, <2>2 DEF TypeOK, TicksOK, RestOK
<1>5. CASE FinishOutputLoop(t)
  <2>1. TicksOK'
    BY <1>5, Basics, EmitType DEF FinishOutputLoop, TypeOK, TicksOK, IsOutput
  <2>2. RestOK'
    BY <1>5, RestKept DEF FinishOutputLoop
  <2>3. QED
    BY <2>1, <2>2 DEF TypeOK, TicksOK, RestOK
<1>6. CASE LoopDone(t)
  <2>1. TicksOK'
    <3>1. NextLoop(tick[t]) \in TickState /\ NextLoop(tick[t]).todo = {}
          /\ NextLoop(tick[t]).at = "looping"
          /\ NextLoop(tick[t]).from = tick[t].from /\ NextLoop(tick[t]).to = tick[t].to
      BY NextType
    <3>3. tick' = [tick EXCEPT ![t] = NextLoop(tick[t])] /\ UNCHANGED signals
      BY <1>6 DEF LoopDone
    <3>4. tick[t].from <= tick[t].to /\ tick[t].to <= Len(signals)
      BY Basics
    <3>5. QED
      BY <3>1, <3>3, <3>4, SameBus, TickKept
  <2>2. RestOK'
    BY <1>6, RestKept DEF LoopDone
  <2>3. QED
    BY <2>1, <2>2 DEF TypeOK, TicksOK, RestOK
<1>7. QED
  BY <1>1, <1>2, <1>3, <1>4, <1>5, <1>6

\* OutputLoop at work, now or late.
LEMMA OutputType ==
    ASSUME TypeOK, NEW t \in Tick,
           RunOutputLoop(t) \/ Publish(t) \/ PublishDone(t) \/ ExceedBudget(t)
    PROVE  TypeOK'
<1>1. \A i : IsOutput(i) => i \in Nat /\ signals[i].content \in Content
  <2>1. DOMAIN signals \subseteq Nat /\ \A i \in DOMAIN signals : signals[i] \in Signal
    BY Basics
  <2>2. QED
    BY <2>1 DEF IsOutput, Signal, Other, Input
<1>2. \A i \in tick[t].todo : IsOutput(i)
  BY DEF TypeOK
<1>3. CASE RunOutputLoop(t)
  <2>1. RunsNext(t, "OutputLoop")
    BY <1>3 DEF RunOutputLoop
  <2>2. \A i \in Given(t, "OutputLoop") : IsOutput(i) /\ i \in Nat
    BY ReadsType, <1>1 DEF Given, IsOutput, Subscribes
  <2>3. TicksOK'
    <3> DEFINE r == [tick[t] EXCEPT !.at = "output", !.toRun = @ \ {"OutputLoop"},
                                    !.todo = Given(t, "OutputLoop")]
    <3>1. tick' = [tick EXCEPT ![t] = r] /\ UNCHANGED signals
      BY <1>3, <2>1 DEF RunOutputLoop, RunsNext
    <3>2. tick[t] \in TickState /\ Given(t, "OutputLoop") \subseteq Nat
      BY <2>2, Basics
    <3>3. /\ r \in TickState /\ r.from = tick[t].from /\ r.to = tick[t].to
          /\ r.at = "output" /\ r.todo = Given(t, "OutputLoop")
      BY <3>2 DEF TickState
    <3> HIDE DEF r
    <3>4. r.from <= r.to /\ r.to <= Len(signals)
      BY <3>3, Basics
    <3>5. QED
      BY <2>2, <3>1, <3>3, <3>4, SameBus, TickKept
  <2>4. RestOK'
    BY <2>1, OfferType DEF TypeOK, RestOK, RunsNext, session, output, IsOutput, Loop
  <2>5. QED
    BY <2>3, <2>4 DEF TypeOK, TicksOK, RestOK
<1>4. CASE Publish(t)
  <2>1. PICK i \in DOMAIN signals :
            /\ First(t, i)
            /\ tick' = [tick EXCEPT ![t].at = "publishing"]
            /\ published' = Marked(signals[i].content)
            /\ publishes' = [publishes EXCEPT ![signals[i].content] = @ + 1]
            /\ UNCHANGED <<session, signals, cursor, ready, late, offered, caller>>
    BY <1>4 DEF Publish
  <2>2. signals[i].content \in Content
    BY <1>1, <1>2, <2>1 DEF First
  <2>3. TicksOK'
    BY <2>1 DEF TypeOK, TicksOK, TickState, IsOutput
  <2>4. RestOK'
    <3>1. publishes' \in [Content -> Nat]
      <4> DEFINE c == signals[i].content
      <4>1. publishes' = [publishes EXCEPT ![c] = @ + 1] /\ c \in Content
        BY <2>1, <2>2
      <4>2. publishes \in [Content -> Nat]
        BY DEF TypeOK
      <4> HIDE DEF c
      <4>3. QED
        BY <4>1, <4>2
    <3>2. published' \subseteq Content
      BY <2>1, <2>2 DEF TypeOK, Marked
    <3>3. QED
      BY <2>1, <3>1, <3>2 DEF TypeOK, RestOK, session, IsOutput
  <2>5. QED
    BY <2>3, <2>4 DEF TypeOK, TicksOK, RestOK
<1>5. CASE PublishDone(t)
  <2>1. PICK i \in DOMAIN signals :
            /\ First(t, i)
            /\ published' = published \cup {signals[i].content}
            /\ tick' = [tick EXCEPT ![t].at = "output", ![t].todo = @ \ {i},
                   ![t].out = Append(@, [type |-> "OUTPUT_SENT",
                                         content |-> signals[i].content])]
            /\ UNCHANGED <<session, signals, cursor, ready, publishes, late, offered, caller>>
    BY <1>5 DEF PublishDone
  <2>2. signals[i].content \in Content
    BY <1>1, <1>2, <2>1 DEF First
  <2> DEFINE sent == [type |-> "OUTPUT_SENT", content |-> signals[i].content]
  <2>3. sent \in Signal
    BY <2>2 DEF Signal
  <2>4. Append(tick[t].out, sent) \in Seq(Signal)
    BY <2>3, Basics, AppendProperties
  <2> HIDE DEF sent
  <2>5. TicksOK'
    <3> DEFINE r == [tick[t] EXCEPT !.at = "output", !.todo = @ \ {i},
                                    !.out = Append(@, sent)]
    <3>1. tick' = [tick EXCEPT ![t] = r] /\ UNCHANGED signals
      BY <2>1 DEF sent
    <3>2. tick[t] \in TickState
      BY Basics
    <3>3. /\ r \in TickState /\ r.from = tick[t].from /\ r.to = tick[t].to
          /\ r.at = "output" /\ r.todo \subseteq tick[t].todo
      BY <2>4, <3>2 DEF TickState
    <3> HIDE DEF r
    <3>4. r.from <= r.to /\ r.to <= Len(signals)
      BY <3>3, Basics
    <3>5. \A j \in r.todo : IsOutput(j)
      BY <1>2, <3>3
    <3>6. QED
      BY <3>1, <3>3, <3>4, <3>5, SameBus, TickKept
  <2>6. RestOK'
    BY <2>1, <2>2 DEF TypeOK, RestOK, session, IsOutput
  <2>7. QED
    BY <2>5, <2>6 DEF TypeOK, TicksOK, RestOK
<1>6. CASE ExceedBudget(t)
  <2>1. TicksOK'
    BY <1>6, NextType DEF ExceedBudget, TypeOK, TicksOK, IsOutput
  <2>2. RestOK'
    BY <1>6 DEF ExceedBudget, TypeOK, RestOK, session, IsOutput
  <2>3. QED
    BY <2>1, <2>2 DEF TypeOK, TicksOK, RestOK
<1>7. QED
  BY <1>3, <1>4, <1>5, <1>6

\* What is queued or ends.
LEMMA BusType ==
    ASSUME TypeOK, NEW t \in Tick,
           EmitNext(t) \/ EmitFails(t) \/ EndTick(t)
    PROVE  TypeOK'
<1>1. ASSUME EmitNext(t) \/ EmitFails(t)
      PROVE  /\ Head(tick[t].out) \in Signal /\ Tail(tick[t].out) \in Seq(Signal)
             /\ Len(Tail(tick[t].out)) <= MaxSignalsOut
             /\ signals' = Appended(Head(tick[t].out))
             /\ UNCHANGED <<session, cursor, output, offered, caller>>
  <2>1. tick[t].at = "emitting" /\ tick[t].out # <<>> /\ tick[t].out \in Seq(Signal)
    BY <1>1, Basics DEF EmitNext, EmitFails
  <2>2. Len(tick[t].out) <= MaxSignalsOut
    BY <2>1 DEF TypeOK
  <2>3. /\ Head(tick[t].out) \in Signal /\ Tail(tick[t].out) \in Seq(Signal)
        /\ Len(Tail(tick[t].out)) = Len(tick[t].out) - 1 /\ Len(tick[t].out) \in Nat
    BY <2>1, HeadTailProperties
  <2>4. QED
    BY <1>1, <2>2, <2>3, TickAssumption DEF EmitNext, EmitFails
<1>2. ASSUME EmitNext(t) \/ EmitFails(t)
      PROVE  RestOK'
  <2>1. /\ signals' \in Seq(Signal)
        /\ cursor \in 0 .. Len(signals')
        /\ offered \subseteq Loop \X DOMAIN signals'
        /\ \A i : IsOutput(i) => IsOutput(i)'
    BY <1>1, <1>2, QueueType
  <2>2. QED
    BY <1>1, <1>2, <2>1 DEF EmitNext, EmitFails, TypeOK, RestOK, session, output
<1>3. ASSUME EmitNext(t) \/ EmitFails(t)
      PROVE  /\ Len(signals') \in Nat /\ Len(signals) <= Len(signals')
             /\ \A i : IsOutput(i) => IsOutput(i)'
  BY <1>1, <1>3, QueueType
<1>4. CASE EmitNext(t)
  <2>1. TicksOK'
    <3> DEFINE r == [tick[t] EXCEPT !.out = Tail(@)]
    <3>1. tick[t] \in TickState
      BY Basics
    <3>2. /\ r \in TickState /\ r.from = tick[t].from /\ r.to = tick[t].to
          /\ Len(r.out) <= MaxSignalsOut /\ r.todo = tick[t].todo
      BY <1>1, <1>4, <3>1 DEF TickState
    <3>3. tick' = [tick EXCEPT ![t] = r]
      BY <1>4 DEF EmitNext, TypeOK
    <3> HIDE DEF r
    <3>4. QED
      BY <1>3, <1>4, <3>2, <3>3, TickKept, Basics DEF TypeOK
  <2>2. QED
    BY <1>2, <1>4, <2>1 DEF TypeOK, TicksOK, RestOK
<1>5. CASE EmitFails(t)
  <2>1. TicksOK'
    <3>1. tick' = [tick EXCEPT ![t] = NextLoop(tick[t])]
      BY <1>5 DEF EmitFails
    <3>2. QED
      BY <1>3, <1>5, <3>1, NextType, TickKept, Basics
  <2>2. QED
    BY <1>2, <1>5, <2>1 DEF TypeOK, TicksOK, RestOK
<1>6. CASE EndTick(t)
  <2>1. CursorAfter(t) \in 0 .. Len(signals)
    BY Basics DEF CursorAfter
  <2>2. Idle \in TickState /\ Idle.from <= Idle.to /\ Idle.to = 0 /\ Idle.todo = {}
        /\ Idle.at = "idle"
    BY DEF Idle, TickState
  <2>3. TicksOK'
    <3>1. tick' = [tick EXCEPT ![t] = Idle] /\ UNCHANGED signals
      BY <1>6 DEF EndTick
    <3>2. Idle.from <= Idle.to /\ Idle.to <= Len(signals)
          /\ (Idle.at = "emitting" => Len(Idle.out) <= MaxSignalsOut)
          /\ \A i \in Idle.todo : IsOutput(i)
      BY <2>2, Basics
    <3>3. QED
      BY <2>2, <3>1, <3>2, SameBus, TickKept
  <2>4. RestOK'
    BY <1>6, <2>1 DEF EndTick, TypeOK, RestOK, session, output, IsOutput
  <2>5. QED
    BY <2>3, <2>4 DEF TypeOK, TicksOK, RestOK
<1>7. QED
  BY <1>4, <1>5, <1>6

\* The caller, and an OutputLoop over its budget.
LEMMA CallerType ==
    ASSUME TypeOK, ProcessInput \/ CallerSees \/ CallerGivesUp \/ PublishLate
    PROVE  TypeOK'
<1>1. CASE ProcessInput
  <2>1. signals' = Appended(Input) /\ Input \in Signal
    BY <1>1 DEF ProcessInput, Signal
  <2>2. /\ signals' \in Seq(Signal) /\ Len(signals) <= Len(signals')
        /\ cursor \in 0 .. Len(signals')
        /\ offered \subseteq Loop \X DOMAIN signals'
        /\ \A i : IsOutput(i) => IsOutput(i)'
    BY <2>1, QueueType
  <2>3. Len(signals') \in Nat
    BY <2>2, LenProperties
  <2>4. \A t \in Tick : tick[t].to <= Len(signals')
    BY <2>2, <2>3, Basics
  <2>5. TicksOK'
    BY <1>1, <2>2, <2>4 DEF ProcessInput, TypeOK, TicksOK
  <2>6. RestOK'
    BY <1>1, <2>2 DEF ProcessInput, TypeOK, RestOK, session, output
  <2>7. QED
    BY <2>5, <2>6 DEF TypeOK, TicksOK, RestOK
<1>2. CASE CallerSees \/ CallerGivesUp
  BY <1>2 DEF CallerSees, CallerGivesUp, TypeOK, session, output, IsOutput
<1>3. CASE PublishLate
  <2>1. PICK i \in late :
            /\ late' = late \ {i}
            /\ published' = published \cup {signals[i].content}
            /\ publishes' = IF signals[i].content \in published THEN publishes
                            ELSE [publishes EXCEPT ![signals[i].content] = @ + 1]
            /\ UNCHANGED <<session, signals, cursor, ready, tick, offered, caller>>
    BY <1>3 DEF PublishLate
  <2>2. signals[i].content \in Content
    <3>1. IsOutput(i)
      BY DEF TypeOK
    <3>2. signals[i] \in Signal /\ signals[i].type = "OUTPUT_READY"
      BY <3>1, Basics DEF IsOutput
    <3>3. QED
      BY <3>2 DEF Signal, Other, Input
  <2>3. publishes' \in [Content -> Nat]
    <3> DEFINE c == signals[i].content
    <3>1. /\ publishes' = IF c \in published THEN publishes
                          ELSE [publishes EXCEPT ![c] = @ + 1]
          /\ c \in Content
      BY <2>1, <2>2
    <3>2. publishes \in [Content -> Nat]
      BY DEF TypeOK
    <3> HIDE DEF c
    <3>3. QED
      BY <3>1, <3>2
  <2>4. published' \subseteq Content
    BY <2>1, <2>2 DEF TypeOK
  <2>5. TicksOK'
    BY <2>1 DEF TypeOK, TicksOK, IsOutput
  <2>6. RestOK'
    BY <2>1, <2>3, <2>4 DEF TypeOK, RestOK, session, IsOutput
  <2>7. QED
    BY <2>5, <2>6 DEF TypeOK, TicksOK, RestOK
<1>4. QED
  BY <1>1, <1>2, <1>3

\* Every step keeps the types.
LEMMA StepType ==
    ASSUME TypeOK, [Next]_vars
    PROVE  TypeOK'
<1>1. CASE UNCHANGED vars
  BY <1>1 DEF vars, TypeOK, session, output, IsOutput
<1>2. CASE Next
  BY <1>2, StartType, StepsType, OutputType, BusType, CallerType DEF Next, Step
<1>3. QED
  BY <1>1, <1>2

\* The bus, the cursor and what the ticks point at on the bus are well-typed
\* in every session: a cursor or a tick never points behind the end of the
\* queue, and a loop never has more than maxSignalsOut signals to emit.
THEOREM TypeCorrect == Spec => []TypeOK
<1>1. Init => TypeOK
  BY InitType
<1>2. TypeOK /\ [Next]_vars => TypeOK'
  BY StepType
<1>3. QED
  BY <1>1, <1>2, PTL DEF Spec

\* An output that is not in publishedOutputs was never handed to the
\* publisher: OutputLoop marks it before it awaits.
OnceInv ==
    \A c \in Content : publishes[c] <= 1 /\ (c \notin published => publishes[c] = 0)

LEMMA OnceStep ==
    ASSUME TypeOK, OnceInv, [Next]_vars
    PROVE  OnceInv'
<1>1. \A i : IsOutput(i) => signals[i].content \in Content
  <2>1. \A i \in DOMAIN signals : signals[i] \in Signal
    BY Basics
  <2>2. QED
    BY <2>1 DEF IsOutput, Signal, Other, Input
<1>2. ASSUME NEW c \in Content, c \notin published, published' = published \cup {c},
             publishes' = [publishes EXCEPT ![c] = @ + 1]
      PROVE  OnceInv'
  <2>1. publishes \in [Content -> Nat] /\ publishes[c] = 0
    BY <1>2 DEF TypeOK, OnceInv
  <2>2. publishes'[c] = 1 /\ \A d \in Content : d # c => publishes'[d] = publishes[d]
    BY <1>2, <2>1
  <2>3. QED
    BY <1>2, <2>2 DEF OnceInv
<1>3. ASSUME published \subseteq published', UNCHANGED publishes
      PROVE  OnceInv'
  BY <1>3 DEF OnceInv
<1>4. CASE UNCHANGED vars
  BY <1>3, <1>4 DEF vars
<1>5. CASE ProcessInput \/ CallerSees \/ CallerGivesUp
  BY <1>3, <1>5 DEF ProcessInput, CallerSees, CallerGivesUp, output
<1>6. CASE PublishLate
  <2>1. PICK i \in late :
            /\ published' = published \cup {signals[i].content}
            /\ publishes' = IF signals[i].content \in published THEN publishes
                            ELSE [publishes EXCEPT ![signals[i].content] = @ + 1]
    BY <1>6 DEF PublishLate
  <2>2. signals[i].content \in Content
    BY <1>1 DEF TypeOK
  <2>3. CASE signals[i].content \in published
    BY <1>3, <2>1, <2>3
  <2>4. CASE signals[i].content \notin published
    BY <1>2, <2>1, <2>2, <2>4
  <2>5. QED
    BY <2>3, <2>4
<1>7. ASSUME NEW t \in Tick, Publish(t)
      PROVE  OnceInv'
  <2>1. PICK i \in DOMAIN signals :
            /\ First(t, i) /\ signals[i].content \notin published
            /\ published' = Marked(signals[i].content)
            /\ publishes' = [publishes EXCEPT ![signals[i].content] = @ + 1]
    BY <1>7 DEF Publish
  <2>2. signals[i].content \in Content
    BY <1>1, <2>1 DEF TypeOK, First
  <2>3. QED
    BY <1>2, <2>1, <2>2 DEF Marked
<1>8. ASSUME NEW t \in Tick,
             StartTick(t) \/ ExceedBudget(t) \/ EmitFails(t) \/ (Step(t) /\ ~Publish(t))
      PROVE  OnceInv'
  BY <1>3, <1>8 DEF StartTick, ExceedBudget, EmitFails, Step, RunInputLoop, RunCortexLoop,
     FinishCortexLoop, RunOutputLoop, RunsNext, SkipPublished, PublishDone,
     FinishOutputLoop, EmitNext, LoopDone, EndTick, output
<1>9. QED
  BY <1>4, <1>5, <1>6, <1>7, <1>8 DEF Next, Step

\* No output is handed to the publisher twice, however many ticks overlap and
\* however many OutputLoops are left running by a tick that gave them up.
THEOREM PublishedAtMostOnce == Spec => []PublishedOnce
<1>1. Init => OnceInv
  BY DEF Init, OnceInv
<1>2. OnceInv => PublishedOnce
  BY DEF OnceInv, PublishedOnce
<1>3. TypeOK /\ OnceInv /\ [Next]_vars => OnceInv'
  BY OnceStep
<1>4. QED
  BY <1>1, <1>2, <1>3, TypeCorrect, PTL DEF Spec

\* A signal all of whose loops were given it.
Done(i) == \A l \in Loop : Subscribes(l, signals[i].type) => <<l, i>> \in offered

\* A tick reads behind signals that are done with, and the loops of a signal
\* it has read were given it or are still to run.
OfferInv ==
    /\ \A i \in 1 .. cursor : Done(i)
    /\ \A t \in Tick : tick[t].at # "idle" =>
           /\ \A i \in 1 .. tick[t].from : Done(i)
           /\ \A i \in Reads(t), l \in Loop :
                  Subscribes(l, signals[i].type) =>
                      l \in tick[t].toRun \/ <<l, i>> \in offered

\* A loop that is awaited is no longer among those still to run.
AwaitInv ==
    \A t \in Tick :
        /\ tick[t].at = "cortex" => "CortexLoop" \notin tick[t].toRun
        /\ tick[t].at \in {"output", "publishing"} => "OutputLoop" \notin tick[t].toRun

\* One tick moves to a place, and the loops in "left" are taken from it.
Moved(t, at, left) ==
    /\ \A u \in Tick : u # t => tick'[u] = tick[u]
    /\ tick'[t].at = at
    /\ tick'[t].from = tick[t].from /\ tick'[t].to = tick[t].to
    /\ tick'[t].toRun = tick[t].toRun \ left

\* Where a loop's result takes a tick.
LEMMA EmitMoves ==
    ASSUME TypeOK, NEW t \in Tick, NEW l, NEW out, Emit(t, l, out)
    PROVE  Moved(t, "emitting", {l})
<1> DEFINE sent == SubSeq(out, 1, IF Len(out) < MaxSignalsOut THEN Len(out)
                                  ELSE MaxSignalsOut)
           r == [tick[t] EXCEPT !.at = "emitting", !.toRun = @ \ {l}, !.todo = {},
                                !.out = sent]
<1>1. tick' = [tick EXCEPT ![t] = r] /\ tick \in [Tick -> TickState]
  BY DEF Emit, TypeOK
<1> HIDE DEF sent
<1>2. /\ r.at = "emitting" /\ r.from = tick[t].from /\ r.to = tick[t].to
      /\ r.toRun = tick[t].toRun \ {l}
  BY <1>1 DEF TickState
<1> HIDE DEF r
<1>3. QED
  BY <1>1, <1>2 DEF Moved

\* Where the steps of a tick take it.
LEMMA Moves ==
    ASSUME TypeOK, NEW t \in Tick
    PROVE  /\ RunInputLoop(t) => Moved(t, "emitting", {"InputLoop"})
           /\ RunCortexLoop(t) => Moved(t, "cortex", {"CortexLoop"})
           /\ RunOutputLoop(t) => Moved(t, "output", {"OutputLoop"})
           /\ FinishCortexLoop(t) => Moved(t, "emitting", {"CortexLoop"})
           /\ FinishOutputLoop(t) => Moved(t, "emitting", {"OutputLoop"})
           /\ SkipPublished(t) => Moved(t, "output", {})
           /\ Publish(t) => Moved(t, "publishing", {})
           /\ PublishDone(t) => Moved(t, "output", {})
           /\ EmitNext(t) => Moved(t, "emitting", {})
           /\ LoopDone(t) \/ ExceedBudget(t) \/ EmitFails(t) => Moved(t, "looping", {})
<1>1. tick \in [Tick -> TickState] /\ tick[t] \in TickState
  BY DEF TypeOK
<1>2. RunInputLoop(t) => Moved(t, "emitting", {"InputLoop"})
  BY EmitMoves DEF RunInputLoop
<1>3. RunCortexLoop(t) => Moved(t, "cortex", {"CortexLoop"})
  BY <1>1 DEF RunCortexLoop, Moved, TickState
<1>4. RunOutputLoop(t) => Moved(t, "output", {"OutputLoop"})
  BY <1>1 DEF RunOutputLoop, Moved, TickState
<1>5. FinishCortexLoop(t) => Moved(t, "emitting", {"CortexLoop"})
  BY EmitMoves DEF FinishCortexLoop
<1>6. FinishOutputLoop(t) => Moved(t, "emitting", {"OutputLoop"})
  BY EmitMoves DEF FinishOutputLoop
<1>7. SkipPublished(t) => Moved(t, "output", {})
  BY <1>1 DEF SkipPublished, Moved, TickState
<1>8. Publish(t) => Moved(t, "publishing", {})
  BY <1>1 DEF Publish, Moved, TickState
<1>9. PublishDone(t) => Moved(t, "output", {})
  BY <1>1 DEF PublishDone, Moved, TickState
<1>10. EmitNext(t) => Moved(t, "emitting", {})
  BY <1>1 DEF EmitNext, Moved, TickState
<1>11. LoopDone(t) \/ ExceedBudget(t) \/ EmitFails(t) => Moved(t, "looping", {})
  BY <1>1, NextType DEF LoopDone, ExceedBudget, EmitFails, Moved
<1>12. QED
  BY <1>2, <1>3, <1>4, <1>5, <1>6, <1>7, <1>8, <1>9, <1>10, <1>11

LEMMA AwaitStep ==
    ASSUME TypeOK, AwaitInv, [Next]_vars
    PROVE  AwaitInv'
<1>1. CASE UNCHANGED vars \/ ProcessInput \/ CallerSees \/ CallerGivesUp \/ PublishLate
  BY <1>1 DEF vars, ProcessInput, CallerSees, CallerGivesUp, PublishLate, AwaitInv
<1>2. ASSUME NEW t \in Tick, StartTick(t) \/ EndTick(t)
      PROVE  AwaitInv'
  <2>1. PICK r : tick' = [tick EXCEPT ![t] = r] /\ r.at \in {"looping", "idle"}
    BY <1>2 DEF StartTick, EndTick, Idle
  <2>2. tick'[t] = r /\ \A u \in Tick : u # t => tick'[u] = tick[u]
    BY <2>1 DEF TypeOK
  <2>3. QED
    BY <2>1, <2>2 DEF AwaitInv
<1>3. ASSUME NEW t \in Tick, NEW left, Moved(t, "emitting", left) \/ Moved(t, "looping", left)
      PROVE  AwaitInv'
  BY <1>3 DEF Moved, AwaitInv
<1>4. ASSUME NEW t \in Tick,
             Moved(t, "cortex", {"CortexLoop"}) \/ Moved(t, "output", {"OutputLoop"})
      PROVE  AwaitInv'
  BY <1>4 DEF Moved, AwaitInv
<1>5. ASSUME NEW t \in Tick, tick[t].at \in {"output", "publishing"},
             Moved(t, "output", {}) \/ Moved(t, "publishing", {})
      PROVE  AwaitInv'
  BY <1>5 DEF Moved, AwaitInv
<1>6. ASSUME NEW t \in Tick, SkipPublished(t) \/ Publish(t) \/ PublishDone(t)
      PROVE  AwaitInv'
  <2>1. tick[t].at \in {"output", "publishing"}
    BY <1>6 DEF SkipPublished, Publish, PublishDone
  <2>2. QED
    BY <1>5, <1>6, <2>1, Moves
<1>7. ASSUME NEW t \in Tick, Step(t) \/ ExceedBudget(t) \/ EmitFails(t)
      PROVE  AwaitInv'
  BY <1>2, <1>3, <1>4, <1>6, <1>7, Moves DEF Step
<1>8. QED
  BY <1>1, <1>2, <1>7 DEF Next

\* What is offered stays offered, also when a signal is queued: a step that
\* leaves the cursor alone and takes no loop from a tick that was not given
\* its signals keeps the invariant.
LEMMA OfferKept ==
    ASSUME TypeOK, OfferInv,
           \A i \in DOMAIN signals : signals'[i] = signals[i],
           offered \subseteq offered', cursor' = cursor,
           \A t \in Tick : tick'[t].at # "idle" =>
               /\ tick[t].at # "idle"
               /\ tick'[t].from = tick[t].from /\ tick'[t].to = tick[t].to
               /\ \A l \in tick[t].toRun :
                      l \in tick'[t].toRun \/ {l} \X Given(t, l) \subseteq offered'
    PROVE  OfferInv'
<1>1. \A i \in DOMAIN signals : Done(i) => Done(i)'
  BY DEF Done
<1>2. \A i \in 1 .. cursor' : Done(i)'
  <2>1. \A i \in 1 .. cursor : i \in DOMAIN signals /\ Done(i)
    BY Basics DEF OfferInv
  <2>2. QED
    BY <1>1, <2>1
<1>3. ASSUME NEW t \in Tick, tick'[t].at # "idle"
      PROVE  \A i \in 1 .. tick'[t].from : Done(i)'
  <2>1. \A i \in 1 .. tick[t].from : i \in DOMAIN signals /\ Done(i)
    BY <1>3, Basics DEF OfferInv
  <2>2. QED
    BY <1>1, <1>3, <2>1
<1>4. ASSUME NEW t \in Tick, tick'[t].at # "idle", NEW i \in Reads(t)', NEW l \in Loop,
             Subscribes(l, signals'[i].type)
      PROVE  l \in tick'[t].toRun \/ <<l, i>> \in offered'
  <2>1. i \in Reads(t) /\ i \in DOMAIN signals
    BY <1>4, ReadsType DEF Reads
  <2>2. Subscribes(l, signals[i].type)
    BY <1>4, <2>1
  <2>3. l \in tick[t].toRun \/ <<l, i>> \in offered
    BY <1>4, <2>1, <2>2 DEF OfferInv
  <2>4. <<l, i>> \in {l} \X Given(t, l)
    BY <2>1, <2>2 DEF Given
  <2>5. QED
    BY <1>4, <2>3, <2>4
<1>5. QED
  BY <1>2, <1>3, <1>4 DEF OfferInv

\* A tick begins to read where the cursor is.
LEMMA OfferStart ==
    ASSUME TypeOK, OfferInv, NEW t \in Tick, StartTick(t)
    PROVE  OfferInv'
<1> DEFINE begun == [at |-> "looping", from |-> ReadFrom, to |-> ReadTo,
                     toRun |-> Triggered(ReadFrom + 1 .. ReadTo) \cup ready,
                     todo |-> {}, out |-> <<>>]
<1>1. /\ tick' = [tick EXCEPT ![t] = begun] /\ tick \in [Tick -> TickState]
      /\ UNCHANGED <<signals, cursor, offered>>
  BY DEF StartTick, TypeOK
<1>2. /\ begun.from = cursor
      /\ \A i \in begun.from + 1 .. begun.to, l \in Loop :
             Subscribes(l, signals[i].type) => l \in begun.toRun
  BY DEF ReadFrom, Triggered
<1> HIDE DEF begun
<1>3. \A i : Done(i)' <=> Done(i)
  BY <1>1 DEF Done
<1>4. \A i \in 1 .. cursor' : Done(i)'
  BY <1>1, <1>3 DEF OfferInv
<1>5. ASSUME NEW u \in Tick, tick'[u].at # "idle"
      PROVE  /\ \A i \in 1 .. tick'[u].from : Done(i)'
             /\ \A i \in Reads(u)', l \in Loop :
                    Subscribes(l, signals'[i].type) =>
                        l \in tick'[u].toRun \/ <<l, i>> \in offered'
  <2>1. CASE u = t
    <3>1. tick'[u] = begun
      BY <1>1, <2>1
    <3>2. \A i \in 1 .. tick'[u].from : Done(i)'
      BY <1>2, <1>3, <3>1 DEF OfferInv
    <3>3. QED
      BY <1>1, <1>2, <3>1, <3>2 DEF Reads
  <2>2. CASE u # t
    <3>1. tick'[u] = tick[u]
      BY <1>1, <2>2
    <3>2. QED
      BY <1>1, <1>3, <1>5, <3>1 DEF OfferInv, Reads
  <2>3. QED
    BY <2>1, <2>2
<1>6. QED
  BY <1>4, <1>5 DEF OfferInv

\* A tick that ends has nothing left to run: all it has read, and all before
\* that, is done with.
LEMMA OfferEnd ==
    ASSUME TypeOK, OfferInv, NEW t \in Tick, EndTick(t)
    PROVE  OfferInv'
<1>1. /\ tick' = [tick EXCEPT ![t] = Idle] /\ tick \in [Tick -> TickState]
      /\ tick[t].at = "looping" /\ tick[t].toRun = {}
      /\ cursor' = CursorAfter(t) /\ UNCHANGED <<signals, offered>>
  BY DEF EndTick, TypeOK
<1>2. \A i : Done(i)' <=> Done(i)
  BY <1>1 DEF Done
<1>3. \A i \in Reads(t) : Done(i)
  BY <1>1 DEF OfferInv, Done
<1>4. \A i \in 1 .. tick[t].from : Done(i)
  BY <1>1 DEF OfferInv
<1>5. \A i \in 1 .. tick[t].to : Done(i)
  <2>1. ASSUME NEW i \in 1 .. tick[t].to
        PROVE  i \in 1 .. tick[t].from \/ i \in Reads(t)
    BY Basics DEF Reads
  <2>2. QED
    BY <1>3, <1>4, <2>1
<1>6. \A i \in 1 .. cursor' : Done(i)'
  BY <1>1, <1>2, <1>5 DEF OfferInv, CursorAfter
<1>7. ASSUME NEW u \in Tick, tick'[u].at # "idle"
      PROVE  /\ \A i \in 1 .. tick'[u].from : Done(i)'
             /\ \A i \in Reads(u)', l \in Loop :
                    Subscribes(l, signals'[i].type) =>
                        l \in tick'[u].toRun \/ <<l, i>> \in offered'
  <2>1. u # t
    BY <1>1, <1>7 DEF Idle
  <2>2. tick'[u] = tick[u]
    BY <1>1, <2>1
  <2>3. QED
    BY <1>1, <1>2, <1>7, <2>2 DEF OfferInv, Reads
<1>8. QED
  BY <1>6, <1>7 DEF OfferInv

\* A loop that is run is given the signals it subscribes to.
LEMMA OfferRun ==
    ASSUME TypeOK, OfferInv, NEW t \in Tick,
           RunInputLoop(t) \/ RunCortexLoop(t) \/ RunOutputLoop(t)
    PROVE  OfferInv'
<1>1. PICK l, at : l \in Loop /\ RunsNext(t, l) /\ Moved(t, at, {l})
  BY Moves DEF RunInputLoop, RunCortexLoop, RunOutputLoop, Loop
<1>2. ASSUME NEW u \in Tick, tick'[u].at # "idle"
      PROVE  /\ tick[u].at # "idle"
             /\ tick'[u].from = tick[u].from /\ tick'[u].to = tick[u].to
             /\ \A m \in tick[u].toRun :
                    m \in tick'[u].toRun \/ {m} \X Given(u, m) \subseteq offered'
  <2>1. CASE u = t
    BY <1>1, <2>1 DEF Moved, RunsNext
  <2>2. CASE u # t
    BY <1>1, <1>2, <2>2 DEF Moved
  <2>3. QED
    BY <2>1, <2>2
<1>3. offered \subseteq offered' /\ UNCHANGED <<signals, cursor>>
  BY <1>1 DEF RunsNext
<1>4. QED
  BY <1>2, <1>3, OfferKept

\* The other steps of a tick take no loop from it but the one that is awaited.
LEMMA OfferOther ==
    ASSUME TypeOK, AwaitInv, OfferInv, NEW t \in Tick,
           FinishCortexLoop(t) \/ SkipPublished(t) \/ Publish(t) \/ PublishDone(t)
             \/ FinishOutputLoop(t) \/ EmitNext(t) \/ LoopDone(t) \/ ExceedBudget(t)
             \/ EmitFails(t)
    PROVE  OfferInv'
<1>1. PICK at, left : /\ Moved(t, at, left) /\ tick[t].at # "idle"
                      /\ tick[t].toRun \cap left = {}
  <2>1. CASE FinishCortexLoop(t)
    <3>1. tick[t].at = "cortex" /\ "CortexLoop" \notin tick[t].toRun
      BY <2>1 DEF FinishCortexLoop, AwaitInv
    <3>2. Moved(t, "emitting", {"CortexLoop"})
      BY <2>1, Moves
    <3>3. QED
      BY <3>1, <3>2
  <2>2. CASE FinishOutputLoop(t)
    <3>1. tick[t].at = "output" /\ "OutputLoop" \notin tick[t].toRun
      BY <2>2 DEF FinishOutputLoop, AwaitInv
    <3>2. Moved(t, "emitting", {"OutputLoop"})
      BY <2>2, Moves
    <3>3. QED
      BY <3>1, <3>2
  <2>3. CASE SkipPublished(t) \/ Publish(t) \/ PublishDone(t) \/ EmitNext(t)
    <3>1. tick[t].at # "idle"
      BY <2>3 DEF SkipPublished, Publish, PublishDone, EmitNext
    <3>2. \E at : Moved(t, at, {})
      BY <2>3, Moves
    <3>3. QED
      BY <3>1, <3>2
  <2>4. CASE LoopDone(t) \/ ExceedBudget(t) \/ EmitFails(t)
    BY <2>4, Moves DEF LoopDone, ExceedBudget, EmitFails
  <2>5. QED
    BY <2>1, <2>2, <2>3, <2>4
<1>2. ASSUME NEW u \in Tick, tick'[u].at # "idle"
      PROVE  /\ tick[u].at # "idle"
             /\ tick'[u].from = tick[u].from /\ tick'[u].to = tick[u].to
             /\ tick'[u].toRun = tick[u].toRun
  BY <1>1, <1>2 DEF Moved
<1>3. \A i \in DOMAIN signals : signals'[i] = signals[i]
  <2>1. CASE EmitNext(t) \/ EmitFails(t)
    <3>1. /\ tick[t].at = "emitting" /\ tick[t].out # <<>> /\ tick[t].out \in Seq(Signal)
          /\ signals' = Appended(Head(tick[t].out))
      BY <2>1, Basics DEF EmitNext, EmitFails
    <3>2. Head(tick[t].out) \in Signal
      BY <3>1, HeadTailProperties
    <3>3. QED
      BY <3>1, <3>2, AppendedType, Basics
  <2>2. CASE ~(EmitNext(t) \/ EmitFails(t))
    BY <2>2 DEF FinishCortexLoop, SkipPublished, Publish, PublishDone, FinishOutputLoop,
       LoopDone, ExceedBudget
  <2>3. QED
    BY <2>1, <2>2
<1>4. UNCHANGED <<cursor, offered>>
  BY DEF FinishCortexLoop, SkipPublished, Publish, PublishDone, FinishOutputLoop,
     EmitNext, LoopDone, ExceedBudget, EmitFails
<1>5. QED
  BY <1>2, <1>3, <1>4, OfferKept

\* What happens outside the ticks leaves them alone.
LEMMA OfferOutside ==
    ASSUME TypeOK, OfferInv,
           UNCHANGED vars \/ ProcessInput \/ CallerSees \/ CallerGivesUp \/ PublishLate
    PROVE  OfferInv'
<1>1. UNCHANGED <<cursor, offered, tick>>
  BY DEF vars, ProcessInput, CallerSees, CallerGivesUp, PublishLate
<1>2. \A i \in DOMAIN signals : signals'[i] = signals[i]
  <2>1. CASE ProcessInput
    <3>1. signals' = Appended(Input) /\ Input \in Signal
      BY <2>1 DEF ProcessInput, Signal
    <3>2. QED
      BY <3>1, AppendedType, Basics
  <2>2. CASE ~ProcessInput
    BY <2>2 DEF vars, CallerSees, CallerGivesUp, PublishLate
  <2>3. QED
    BY <2>1, <2>2
<1>3. QED
  BY <1>1, <1>2, OfferKept

LEMMA OfferStep ==
    ASSUME TypeOK, AwaitInv, OfferInv, [Next]_vars
    PROVE  OfferInv'
BY OfferStart, OfferEnd, OfferRun, OfferOther, OfferOutside DEF Next, Step

\* The cursor never passes a signal some loop was not given, in every
\* interleaving of any number of ticks, whichever of them fail.
THEOREM NothingIsPassedOver == Spec => []OfferedBelowCursor
<1>1. Init => AwaitInv /\ OfferInv
  BY DEF Init, AwaitInv, OfferInv, Idle
<1>2. OfferInv => OfferedBelowCursor
  BY DEF OfferInv, OfferedBelowCursor, Done
<1>3. TypeOK /\ AwaitInv /\ OfferInv /\ [Next]_vars => AwaitInv' /\ OfferInv'
  BY AwaitStep, OfferStep
<1>4. QED
  BY <1>1, <1>2, <1>3, TypeCorrect, PTL DEF Spec

-------------------------------------------------------------------------------
(* What the bus keeps: the input once, and no word of a publication that did *)
(* not happen.                                                               *)

OneInput ==
    \A i, j \in DOMAIN signals :
        signals[i].type = "INPUT_RECEIVED" /\ signals[j].type = "INPUT_RECEIVED" => i = j

\* Whatever a step queues, it queues it with append().
LEMMA Queues ==
    ASSUME TypeOK, [Next]_vars
    PROVE  /\ UNCHANGED signals \/ \E s \in Signal : signals' = Appended(s)
           /\ \A i \in DOMAIN signals : i \in DOMAIN signals' /\ signals'[i] = signals[i]
<1>1. UNCHANGED signals \/ \E s \in Signal : signals' = Appended(s)
  <2>1. CASE ProcessInput
    BY <2>1 DEF ProcessInput, Signal
  <2>2. ASSUME NEW t \in Tick, EmitNext(t) \/ EmitFails(t)
        PROVE  \E s \in Signal : signals' = Appended(s)
    <3>1. /\ tick[t].out # <<>> /\ tick[t].out \in Seq(Signal)
          /\ signals' = Appended(Head(tick[t].out))
      BY <2>2, Basics DEF EmitNext, EmitFails
    <3>2. Head(tick[t].out) \in Signal
      BY <3>1, HeadTailProperties
    <3>3. QED
      BY <3>1, <3>2
  <2>3. CASE UNCHANGED vars \/ CallerSees \/ CallerGivesUp \/ PublishLate
    BY <2>3 DEF vars, CallerSees, CallerGivesUp, PublishLate
  <2>4. ASSUME NEW t \in Tick, StartTick(t) \/ ExceedBudget(t) \/ (Step(t) /\ ~EmitNext(t))
        PROVE  UNCHANGED signals
    BY <2>4 DEF StartTick, ExceedBudget, Step, RunInputLoop, RunCortexLoop, FinishCortexLoop,
       RunOutputLoop, RunsNext, SkipPublished, Publish, PublishDone, FinishOutputLoop, LoopDone,
       EndTick
  <2>5. QED
    BY <2>1, <2>2, <2>3, <2>4 DEF Next, Step
<1>2. ASSUME NEW s \in Signal, signals' = Appended(s)
      PROVE  \A i \in DOMAIN signals : i \in DOMAIN signals' /\ signals'[i] = signals[i]
  <2>1. /\ signals' \in Seq(Signal) /\ Len(signals) <= Len(signals')
        /\ \A i \in DOMAIN signals : signals'[i] = signals[i]
    BY <1>2, AppendedType, Basics
  <2>2. Len(signals') \in Nat /\ DOMAIN signals' = 1 .. Len(signals')
    BY <2>1, LenProperties
  <2>3. QED
    BY <2>1, <2>2, Basics
<1>3. QED
  BY <1>1, <1>2

\* append() refuses a second input.
LEMMA OneInputStep ==
    ASSUME TypeOK, OneInput, [Next]_vars
    PROVE  OneInput'
<1>1. CASE UNCHANGED signals
  BY <1>1 DEF OneInput
<1>2. ASSUME NEW s \in Signal, signals' = Appended(s)
      PROVE  OneInput'
  <2>1. CASE signals' = signals
    BY <2>1 DEF OneInput
  <2>2. CASE signals' # signals
    <3>1. /\ signals' = Append(signals, s)
          /\ s.type = "INPUT_RECEIVED" => \A i \in DOMAIN signals : signals[i].type # s.type
      BY <1>2, <2>2 DEF Appended
    <3>2. /\ DOMAIN signals = 1 .. Len(signals) /\ Len(signals) \in Nat
          /\ DOMAIN signals' = 1 .. Len(signals) + 1
          /\ signals'[Len(signals) + 1] = s
          /\ \A i \in 1 .. Len(signals) : signals'[i] = signals[i]
      BY <3>1, Basics, AppendProperties
    <3>3. \A i \in DOMAIN signals' : i \in DOMAIN signals \/ i = Len(signals) + 1
      BY <3>2
    <3>4. QED
      BY <3>1, <3>2, <3>3 DEF OneInput
  <2>3. QED
    BY <2>1, <2>2
<1>3. QED
  BY <1>1, <1>2, Queues

\* However often InputLoop queues its input again, in however many ticks at
\* the same time, the bus holds it once.
THEOREM InputIsQueuedOnce == Spec => []EchoIsAbsorbed
<1>1. Init => OneInput
  BY DEF Init, OneInput
<1>2. OneInput => EchoIsAbsorbed
  <2> SUFFICES ASSUME OneInput PROVE EchoIsAbsorbed
    OBVIOUS
  <2> DEFINE inputs == {i \in DOMAIN signals : signals[i].type = "INPUT_RECEIVED"}
  <2>1. inputs = {} \/ \E i : inputs = {i}
    BY DEF OneInput
  <2>2. Cardinality({}) = 0 /\ \A i : Cardinality({i}) = 1
    BY FS_EmptySet, FS_Singleton
  <2>3. Cardinality(inputs) \in {0, 1}
    BY <2>1, <2>2
  <2>4. QED
    BY <2>3 DEF EchoIsAbsorbed
<1>3. TypeOK /\ OneInput /\ [Next]_vars => OneInput'
  BY OneInputStep
<1>4. QED
  BY <1>1, <1>2, <1>3, TypeCorrect, PTL DEF Spec

\* A tick that awaits the publisher has handed it the first signal it still
\* has to do, and every OUTPUT_SENT it will emit is of an output that was
\* published.
TickTells(r, bus, count) ==
    /\ r.at = "publishing" =>
           \A i \in r.todo : (\A j \in r.todo : i <= j) => count[bus[i].content] = 1
    /\ \A k \in DOMAIN r.out : r.out[k].type = "OUTPUT_SENT" => count[r.out[k].content] = 1

BusTells(bus, count) ==
    \A i \in DOMAIN bus : bus[i].type = "OUTPUT_SENT" => count[bus[i].content] = 1

TellInv ==
    /\ \A t \in Tick : TickTells(tick[t], signals, publishes)
    /\ BusTells(signals, publishes)
    /\ caller = "answered" => Queued("OUTPUT_SENT")

\* Signals about an output name one.
LEMMA Contents ==
    ASSUME NEW s \in Signal, s.type \in {"OUTPUT_READY", "OUTPUT_SENT"}
    PROVE  s.content \in Content
BY DEF Signal, Other, Input

\* What was published once stays so.
LEMMA PublishedStays ==
    ASSUME TypeOK, OnceInv, [Next]_vars, NEW c \in Content, publishes[c] = 1
    PROVE  publishes'[c] = 1
<1>1. c \in published
  BY DEF OnceInv
<1>2. ASSUME NEW d, d \notin published, publishes' = [publishes EXCEPT ![d] = @ + 1]
      PROVE  publishes'[c] = 1
  BY <1>1, <1>2 DEF TypeOK
<1>3. ASSUME NEW t \in Tick, Publish(t) PROVE publishes'[c] = 1
  BY <1>2, <1>3 DEF Publish
<1>4. CASE PublishLate
  BY <1>2, <1>4 DEF PublishLate
<1>5. CASE UNCHANGED vars \/ ProcessInput \/ CallerSees \/ CallerGivesUp
  BY <1>5 DEF vars, ProcessInput, CallerSees, CallerGivesUp, output
<1>6. ASSUME NEW t \in Tick,
             StartTick(t) \/ ExceedBudget(t) \/ EmitFails(t) \/ (Step(t) /\ ~Publish(t))
      PROVE  publishes'[c] = 1
  BY <1>6 DEF StartTick, ExceedBudget, EmitFails, Step, RunInputLoop, RunCortexLoop,
     FinishCortexLoop, RunOutputLoop, RunsNext, SkipPublished, PublishDone,
     FinishOutputLoop, EmitNext, LoopDone, EndTick, output
<1>7. QED
  BY <1>3, <1>4, <1>5, <1>6 DEF Next

\* A tick that says the same after the step is still right.
LEMMA TellsStays ==
    ASSUME TypeOK, OnceInv, TellInv, [Next]_vars, NEW t \in Tick
    PROVE  TickTells(tick[t], signals', publishes')
<1>1. \A i \in tick[t].todo : /\ signals'[i] = signals[i]
                              /\ signals[i].content \in Content
  <2>1. \A i \in tick[t].todo : i \in DOMAIN signals /\ signals[i].type = "OUTPUT_READY"
    BY DEF TypeOK, IsOutput
  <2>2. \A i \in DOMAIN signals : signals[i] \in Signal
    BY Basics
  <2>3. \A i \in tick[t].todo : signals[i].content \in Content
    BY <2>1, <2>2, Contents
  <2>4. QED
    BY <2>1, <2>3, Queues
<1>2. \A k \in DOMAIN tick[t].out :
          tick[t].out[k].type = "OUTPUT_SENT" => tick[t].out[k].content \in Content
  <2>1. \A k \in DOMAIN tick[t].out : tick[t].out[k] \in Signal
    BY Basics
  <2>2. QED
    BY <2>1, Contents
<1>3. QED
  BY <1>1, <1>2, PublishedStays DEF TellInv, TickTells

\* A loop's result is a part of what it says.
LEMMA EmitTells ==
    ASSUME TypeOK, NEW t \in Tick, NEW l, NEW out \in Seq(Signal), NEW bus, NEW count,
           \A k \in DOMAIN out : out[k].type = "OUTPUT_SENT" => count[out[k].content] = 1,
           Emit(t, l, out)
    PROVE  TickTells(tick'[t], bus, count)
<1> DEFINE n == IF Len(out) < MaxSignalsOut THEN Len(out) ELSE MaxSignalsOut
           sent == SubSeq(out, 1, n)
<1>1. n \in Nat /\ n <= Len(out)
  BY TickAssumption
<1>2. Len(sent) = n /\ \A k \in 1 .. n : sent[k] = out[k]
  BY <1>1, SubSeqProperties
<1>3. sent \in Seq(Signal)
  BY <1>1, PrefixType
<1>4. tick' = [tick EXCEPT ![t].at = "emitting", ![t].toRun = @ \ {l}, ![t].todo = {},
                           ![t].out = sent]
  BY DEF Emit
<1> HIDE DEF sent, n
<1>5. DOMAIN sent = 1 .. n /\ 1 .. n \subseteq DOMAIN out
  BY <1>1, <1>2, <1>3
<1>6. tick'[t].at = "emitting" /\ tick'[t].out = sent
  BY <1>4 DEF TypeOK, TickState
<1>7. QED
  BY <1>2, <1>5, <1>6 DEF TickTells

\* The steps of the loops that say nothing new.
LEMMA QuietTells ==
    ASSUME TypeOK, OnceInv, TellInv, [Next]_vars, NEW t \in Tick,
           \/ StartTick(t) \/ EndTick(t) \/ RunInputLoop(t) \/ RunCortexLoop(t)
           \/ FinishCortexLoop(t) \/ RunOutputLoop(t) \/ SkipPublished(t)
           \/ FinishOutputLoop(t) \/ ExceedBudget(t) \/ LoopDone(t) \/ EmitFails(t)
    PROVE  TickTells(tick'[t], signals', publishes')
<1>1. TickTells(tick[t], signals', publishes')
  BY TellsStays
<1>2. tick[t] \in TickState /\ tick \in [Tick -> TickState]
  BY Basics DEF TypeOK
<1>3. ASSUME NEW r, tick' = [tick EXCEPT ![t] = r], r.at # "publishing",
             r.out \in {<<>>, tick[t].out}
      PROVE  TickTells(tick'[t], signals', publishes')
  <2>1. tick'[t] = r
    BY <1>2, <1>3
  <2>2. QED
    BY <1>1, <1>3, <2>1 DEF TickTells
<1>4. CASE StartTick(t)
  <2> DEFINE begun == [at |-> "looping", from |-> ReadFrom, to |-> ReadTo,
                       toRun |-> Triggered(ReadFrom + 1 .. ReadTo) \cup ready,
                       todo |-> {}, out |-> <<>>]
  <2>1. tick' = [tick EXCEPT ![t] = begun]
    BY <1>4 DEF StartTick
  <2>2. begun.at = "looping" /\ begun.out = <<>>
    OBVIOUS
  <2> HIDE DEF begun
  <2>3. QED
    BY <1>3, <2>1, <2>2
<1>5. CASE EndTick(t)
  <2>1. tick' = [tick EXCEPT ![t] = Idle] /\ Idle.at = "idle" /\ Idle.out = <<>>
    BY <1>5 DEF EndTick, Idle
  <2>2. QED
    BY <1>3, <2>1
<1>6. CASE ExceedBudget(t) \/ LoopDone(t) \/ EmitFails(t)
  <2>1. tick' = [tick EXCEPT ![t] = NextLoop(tick[t])]
    BY <1>6 DEF ExceedBudget, LoopDone, EmitFails
  <2>2. NextLoop(tick[t]).at = "looping" /\ NextLoop(tick[t]).out = <<>>
    BY <1>2 DEF NextLoop, TickState
  <2>3. QED
    BY <1>3, <2>1, <2>2
<1>7. CASE RunCortexLoop(t)
  <2>1. tick'[t].at = "cortex" /\ tick'[t].out = tick[t].out
    BY <1>2, <1>7 DEF RunCortexLoop, TickState
  <2>2. QED
    BY <1>1, <2>1 DEF TickTells
<1>8. CASE RunOutputLoop(t) \/ SkipPublished(t)
  <2>1. tick'[t].at = "output" /\ tick'[t].out = tick[t].out
    BY <1>2, <1>8 DEF RunOutputLoop, SkipPublished, TickState
  <2>2. QED
    BY <1>1, <2>1 DEF TickTells
<1>9. CASE RunInputLoop(t)
  <2> DEFINE echo == [i \in 1 .. Cardinality(Given(t, "InputLoop")) |-> Input]
  <2>1. Emit(t, "InputLoop", echo) /\ echo \in Seq(Signal)
    BY <1>9, EchoType DEF RunInputLoop
  <2>2. \A k \in DOMAIN echo : echo[k].type # "OUTPUT_SENT"
    BY DEF Input
  <2> HIDE DEF echo
  <2>3. QED
    BY <2>1, <2>2, EmitTells
<1>10. CASE FinishCortexLoop(t)
  <2>1. PICK c \in Content : Emit(t, "CortexLoop", PlanSignals(c))
    BY <1>10 DEF FinishCortexLoop
  <2>2. PlanSignals(c) \in Seq(Signal)
    BY PlanSignalsType
  <2>3. \A k \in DOMAIN PlanSignals(c) : PlanSignals(c)[k].type # "OUTPUT_SENT"
    <3> DEFINE before == [i \in 1 .. 2 + 3 * steps |-> Other]
               last == <<[type |-> "OUTPUT_READY", content |-> c]>>
    <3>1. before \in Seq({Other}) /\ last \in Seq({[type |-> "OUTPUT_READY", content |-> c]})
      BY Basics
    <3>2. PlanSignals(c) \in Seq({Other, [type |-> "OUTPUT_READY", content |-> c]})
      BY <3>1, ConcatProperties DEF PlanSignals
    <3>3. \A k \in DOMAIN PlanSignals(c) :
              PlanSignals(c)[k] \in {Other, [type |-> "OUTPUT_READY", content |-> c]}
      BY <3>2
    <3>4. QED
      BY <3>3 DEF Other
  <2>4. QED
    BY <2>1, <2>2, <2>3, EmitTells
<1>11. CASE FinishOutputLoop(t)
  <2>1. Emit(t, "OutputLoop", tick[t].out) /\ tick[t].out \in Seq(Signal)
    BY <1>11, Basics DEF FinishOutputLoop
  <2>2. QED
    BY <1>1, <2>1, EmitTells DEF TickTells
<1>12. QED
  BY <1>4, <1>5, <1>6, <1>7, <1>8, <1>9, <1>10, <1>11

\* OutputLoop hands an output over, and tells of it when the publisher is
\* done; what was told is queued.
LEMMA OutputTells ==
    ASSUME TypeOK, OnceInv, TellInv, [Next]_vars, NEW t \in Tick,
           Publish(t) \/ PublishDone(t) \/ EmitNext(t)
    PROVE  TickTells(tick'[t], signals', publishes')
<1>1. TickTells(tick[t], signals', publishes') /\ TickTells(tick[t], signals, publishes)
  BY TellsStays DEF TellInv
<1>2. /\ tick[t] \in TickState /\ tick \in [Tick -> TickState] /\ tick[t].out \in Seq(Signal)
  BY Basics DEF TypeOK
<1>3. CASE Publish(t)
  <2>1. PICK i \in DOMAIN signals :
            /\ First(t, i) /\ signals[i].content \notin published
            /\ tick' = [tick EXCEPT ![t].at = "publishing"] /\ UNCHANGED signals
            /\ publishes' = [publishes EXCEPT ![signals[i].content] = @ + 1]
    BY <1>3 DEF Publish
  <2>2. signals[i].content \in Content /\ tick[t].todo \subseteq Nat
    <3>1. signals[i] \in Signal /\ signals[i].type = "OUTPUT_READY"
      <4>1. IsOutput(i)
        BY <2>1 DEF TypeOK, First
      <4>2. QED
        BY <2>1, <4>1, Basics DEF IsOutput
    <3>2. tick[t].todo \subseteq Nat
      BY <1>2 DEF TickState
    <3>3. QED
      BY <3>1, <3>2, Contents
  <2>3. publishes'[signals[i].content] = 1
    <3>1. publishes \in [Content -> Nat] /\ publishes[signals[i].content] = 0
      BY <2>1, <2>2 DEF OnceInv, TypeOK
    <3>2. QED
      BY <2>1, <2>2, <3>1
  <2>4. tick'[t].at = "publishing" /\ tick'[t].out = tick[t].out /\ tick'[t].todo = tick[t].todo
    BY <1>2, <2>1 DEF TickState
  <2>5. \A j \in tick[t].todo : (\A k \in tick[t].todo : j <= k) => j = i
    BY <2>1, <2>2 DEF First
  <2>6. QED
    BY <1>1, <2>1, <2>3, <2>4, <2>5 DEF TickTells
<1>4. CASE PublishDone(t)
  <2>1. PICK i \in DOMAIN signals :
            /\ First(t, i) /\ tick[t].at = "publishing" /\ UNCHANGED publishes
            /\ tick' = [tick EXCEPT ![t].at = "output", ![t].todo = @ \ {i},
                         ![t].out = Append(@, [type |-> "OUTPUT_SENT", content |-> signals[i].content])]
    BY <1>4 DEF PublishDone
  <2> DEFINE s == [type |-> "OUTPUT_SENT", content |-> signals[i].content]
  <2>2. s.content = signals[i].content /\ publishes[signals[i].content] = 1
    BY <1>1, <2>1 DEF TickTells, First
  <2>3. tick'[t].at = "output" /\ tick'[t].out = Append(tick[t].out, s)
    BY <1>2, <2>1 DEF TickState
  <2> HIDE DEF s
  <2>4. /\ Len(tick[t].out) \in Nat /\ DOMAIN tick[t].out = 1 .. Len(tick[t].out)
        /\ DOMAIN Append(tick[t].out, s) = 1 .. Len(tick[t].out) + 1
        /\ \A k \in DOMAIN tick[t].out : Append(tick[t].out, s)[k] = tick[t].out[k]
        /\ Append(tick[t].out, s)[Len(tick[t].out) + 1] = s
    BY <1>2
  <2>5. \A k \in DOMAIN Append(tick[t].out, s) : k \in DOMAIN tick[t].out \/ k = Len(tick[t].out) + 1
    BY <2>4
  <2>6. \A k \in DOMAIN Append(tick[t].out, s) :
            \/ k \in DOMAIN tick[t].out /\ Append(tick[t].out, s)[k] = tick[t].out[k]
            \/ Append(tick[t].out, s)[k] = s
    BY <2>4, <2>5
  <2>7. \A k \in DOMAIN tick'[t].out :
            tick'[t].out[k].type = "OUTPUT_SENT" => publishes[tick'[t].out[k].content] = 1
    BY <1>1, <2>2, <2>3, <2>6 DEF TickTells
  <2>8. QED
    BY <2>1, <2>3, <2>7 DEF TickTells
<1>5. CASE EmitNext(t)
  <2>1. tick[t].at = "emitting" /\ tick[t].out # <<>> /\ tick' = [tick EXCEPT ![t].out = Tail(@)]
    BY <1>5 DEF EmitNext
  <2>2. tick'[t].at = "emitting" /\ tick'[t].out = Tail(tick[t].out)
    BY <1>2, <2>1 DEF TickState
  <2>3. \A k \in DOMAIN Tail(tick[t].out) :
            k + 1 \in DOMAIN tick[t].out /\ Tail(tick[t].out)[k] = tick[t].out[k + 1]
    BY <1>2, <2>1
  <2>4. QED
    BY <1>1, <2>2, <2>3 DEF TickTells
<1>6. QED
  BY <1>3, <1>4, <1>5

LEMMA BusTellsStep ==
    ASSUME TypeOK, OnceInv, TellInv, [Next]_vars
    PROVE  BusTells(signals', publishes')
<1>1. \A i \in DOMAIN signals :
          signals[i].type = "OUTPUT_SENT" => publishes'[signals[i].content] = 1
  <2>1. \A i \in DOMAIN signals : signals[i] \in Signal
    BY Basics
  <2>2. QED
    BY <2>1, Contents, PublishedStays DEF TellInv, BusTells
<1>2. ASSUME NEW s \in Signal, signals' = Appended(s),
             s.type = "OUTPUT_SENT" => publishes'[s.content] = 1
      PROVE  BusTells(signals', publishes')
  <2>1. CASE signals' = signals
    BY <1>1, <2>1 DEF BusTells
  <2>2. CASE signals' # signals
    <3>1. signals' = Append(signals, s)
      BY <1>2, <2>2 DEF Appended
    <3>2. /\ DOMAIN signals = 1 .. Len(signals) /\ Len(signals) \in Nat
          /\ DOMAIN signals' = 1 .. Len(signals) + 1
          /\ signals'[Len(signals) + 1] = s
          /\ \A i \in 1 .. Len(signals) : signals'[i] = signals[i]
      BY <3>1, Basics, AppendProperties
    <3>3. \A i \in DOMAIN signals' : i \in DOMAIN signals \/ i = Len(signals) + 1
      BY <3>2
    <3>4. QED
      BY <1>1, <1>2, <3>2, <3>3 DEF BusTells
  <2>3. QED
    BY <2>1, <2>2
<1>3. CASE UNCHANGED signals
  BY <1>1, <1>3 DEF BusTells
<1>4. CASE ProcessInput
  <2>1. signals' = Appended(Input) /\ Input \in Signal /\ Input.type # "OUTPUT_SENT"
    BY <1>4 DEF ProcessInput, Signal, Input
  <2>2. QED
    BY <1>2, <2>1
<1>5. ASSUME NEW t \in Tick, EmitNext(t) \/ EmitFails(t)
      PROVE  BusTells(signals', publishes')
  <2>1. /\ tick[t].out # <<>> /\ tick[t].out \in Seq(Signal)
        /\ signals' = Appended(Head(tick[t].out))
    BY <1>5, Basics DEF EmitNext, EmitFails
  <2>2. /\ Head(tick[t].out) \in Signal /\ 1 \in DOMAIN tick[t].out
        /\ Head(tick[t].out) = tick[t].out[1]
    BY <2>1, HeadTailProperties
  <2>3. TickTells(tick[t], signals', publishes')
    BY TellsStays
  <2>4. QED
    BY <1>2, <2>1, <2>2, <2>3 DEF TickTells
<1>6. CASE UNCHANGED vars \/ CallerSees \/ CallerGivesUp \/ PublishLate
  BY <1>3, <1>6 DEF vars, CallerSees, CallerGivesUp, PublishLate
<1>7. ASSUME NEW t \in Tick, StartTick(t) \/ ExceedBudget(t) \/ (Step(t) /\ ~EmitNext(t))
      PROVE  BusTells(signals', publishes')
  BY <1>3, <1>7 DEF StartTick, ExceedBudget, Step, RunInputLoop, RunCortexLoop, FinishCortexLoop,
     RunOutputLoop, RunsNext, SkipPublished, Publish, PublishDone, FinishOutputLoop, LoopDone,
     EndTick
<1>8. QED
  BY <1>4, <1>5, <1>6, <1>7 DEF Next, Step

LEMMA TellStep ==
    ASSUME TypeOK, OnceInv, TellInv, [Next]_vars
    PROVE  TellInv'
<1>1. \A t \in Tick : TickTells(tick'[t], signals', publishes')
  <2>1. CASE UNCHANGED tick
    BY <2>1, TellsStays
  <2>2. ASSUME NEW t \in Tick, StartTick(t) \/ Step(t) \/ ExceedBudget(t) \/ EmitFails(t)
        PROVE  \A u \in Tick : TickTells(tick'[u], signals', publishes')
    <3>1. TickTells(tick'[t], signals', publishes')
      BY <2>2, QuietTells, OutputTells DEF Step
    <3>2. \A u \in Tick : u # t => tick'[u] = tick[u]
      <4>1. CASE StartTick(t) \/ EndTick(t)
        BY <4>1 DEF StartTick, EndTick, TypeOK
      <4>2. CASE ~(StartTick(t) \/ EndTick(t))
        <5>1. \E at, left : Moved(t, at, left)
          BY <2>2, <4>2, Moves DEF Step
        <5>2. QED
          BY <5>1 DEF Moved
      <4>3. QED
        BY <4>1, <4>2
    <3>3. QED
      BY <3>1, <3>2, TellsStays
  <2>3. CASE UNCHANGED vars \/ ProcessInput \/ CallerSees \/ CallerGivesUp \/ PublishLate
    BY <2>1, <2>3 DEF vars, ProcessInput, CallerSees, CallerGivesUp, PublishLate
  <2>4. QED
    BY <2>2, <2>3 DEF Next
<1>2. caller' = "answered" => Queued("OUTPUT_SENT")
  <2>1. CASE CallerSees
    BY <2>1 DEF CallerSees
  <2>2. CASE ~CallerSees
    <3>1. caller' = "answered" => caller = "answered"
      BY <2>2 DEF Next, vars, ProcessInput, CallerGivesUp, PublishLate, StartTick, ExceedBudget,
         EmitFails, Step, RunInputLoop, RunCortexLoop, FinishCortexLoop, RunOutputLoop, RunsNext,
         SkipPublished, Publish, PublishDone, FinishOutputLoop, EmitNext, LoopDone, EndTick
    <3>2. QED
      BY <3>1 DEF TellInv
  <2>3. QED
    BY <2>1, <2>2
<1>3. Queued("OUTPUT_SENT") => Queued("OUTPUT_SENT")'
  BY Queues DEF Queued
<1>4. QED
  BY <1>1, <1>2, <1>3, BusTellsStep DEF TellInv

\* processInput() answers only after an output was handed to the publisher,
\* exactly once, and it is that output the OUTPUT_SENT on the bus names.
THEOREM AnswersArePublished == Spec => []AnswerWasPublished
<1>1. Init => OnceInv /\ TellInv
  BY DEF Init, OnceInv, TellInv, TickTells, BusTells, Idle
<1>2. TellInv => AnswerWasPublished
  BY DEF TellInv, BusTells, Queued, AnswerWasPublished
<1>3. TypeOK /\ OnceInv /\ TellInv /\ [Next]_vars => OnceInv' /\ TellInv'
  BY OnceStep, TellStep
<1>4. QED
  BY <1>1, <1>2, <1>3, TypeCorrect, PTL DEF Spec

------------------------------------------------------------------------------
(* The governor is sound after any number of errors and successes.         *)

\* What the counts say about each other and the mode.
CountsOK ==
    /\ streak <= governor.successes
    /\ governor.mode = "safe_minimal" => governor.errors >= 5
    /\ governor.mode = "conservative" => governor.errors >= 2

GovernorInv == GovernorTypeOK /\ CountsOK /\ GovernorIsSound

LEMMA InitGovernorInv == GovernorInit => GovernorInv
  BY DEF GovernorInit, NewGovernor, GovernorInv, GovernorTypeOK, CountsOK, GovernorIsSound, ModeFollowsRuns,
         ErrorsAreRemembered, Modes

\* Errors keep the invariant, however many at once.
LEMMA ErrorsKeepGovernorInv == ASSUME GovernorInv, NEW k \in Nat \ {0}, RecordGovernorErrors(k) PROVE GovernorInv'
<1> USE DEF RecordGovernorErrors, AfterErrors, GovernorInv, GovernorTypeOK, CountsOK, Modes
<1>1. GovernorTypeOK'
  OBVIOUS
<1>2. CountsOK'
  OBVIOUS
<1>3. ModeFollowsRuns'
  BY DEF GovernorIsSound, ModeFollowsRuns
<1>4. ErrorsAreRemembered'
  BY DEF GovernorIsSound, ErrorsAreRemembered
<1> QED BY <1>1, <1>2, <1>3, <1>4 DEF GovernorIsSound

\* A success in each of the modes.
LEMMA SuccessKeepsGovernorInv == ASSUME GovernorInv, RecordGovernorSuccess PROVE GovernorInv'
<1> USE DEF RecordGovernorSuccess, AfterSuccess, Freer, LessOne, GovernorInv, GovernorTypeOK, CountsOK,
            Modes, GovernorIsSound
<1>1. CASE governor.mode = "safe_minimal"
  <2>1. GovernorTypeOK' /\ CountsOK'
    BY <1>1
  <2>2. ModeFollowsRuns'
    BY <1>1 DEF ModeFollowsRuns
  <2>3. ErrorsAreRemembered'
    BY <1>1 DEF ErrorsAreRemembered
  <2> QED BY <2>1, <2>2, <2>3
<1>2. CASE governor.mode = "conservative"
  <2>1. GovernorTypeOK' /\ CountsOK'
    BY <1>2
  <2>2. ModeFollowsRuns'
    BY <1>2 DEF ModeFollowsRuns
  <2>3. ErrorsAreRemembered'
    BY <1>2 DEF ErrorsAreRemembered
  <2> QED BY <2>1, <2>2, <2>3
<1>3. CASE governor.mode = "full"
  <2>1. GovernorTypeOK' /\ CountsOK'
    BY <1>3
  <2>2. ModeFollowsRuns'
    BY <1>3 DEF ModeFollowsRuns
  <2>3. ErrorsAreRemembered'
    BY <1>3 DEF ErrorsAreRemembered
  <2> QED BY <2>1, <2>2, <2>3
<1> QED BY <1>1, <1>2, <1>3

\* The governor is sound: its mode follows from the runs, and no error is forgotten.
\* (recordGovernorError and recordGovernorSuccess of synth-runtime.ts)
THEOREM GovernorTheorem == GovernorSpec => []GovernorIsSound
<1>1. GovernorInit => GovernorInv
  BY InitGovernorInv
<1>2. GovernorInv /\ [GovernorNext]_governorVars => GovernorInv'
  <2> SUFFICES ASSUME GovernorInv, [GovernorNext]_governorVars PROVE GovernorInv'
    OBVIOUS
  <2>1. CASE \E k \in 1 .. 3 : RecordGovernorErrors(k)
    BY <2>1, ErrorsKeepGovernorInv
  <2>2. CASE RecordGovernorSuccess
    BY <2>2, SuccessKeepsGovernorInv
  <2>3. CASE UNCHANGED governorVars
    BY <2>3 DEF governorVars, GovernorInv, GovernorTypeOK, CountsOK, GovernorIsSound, ModeFollowsRuns,
                ErrorsAreRemembered
  <2> QED BY <2>1, <2>2, <2>3 DEF GovernorNext
<1>3. GovernorInv => GovernorIsSound
  BY DEF GovernorInv
<1> QED BY <1>1, <1>2, <1>3, PTL DEF GovernorSpec

-----------------------------------------------------------------------------
(* What a call may still run is bounded by the attempts of the strategy it *)
(* is at and by the strategies behind it, whatever happens to the breaker. *)

CallRecord ==
    [at : {"idle", "choose", "run", "report", "recovered", "escalate", "fatal"}, strategies : Seq(Strategy),
     next : Nat, attempt : Nat, max : Nat, runs : Nat, succeeded : BOOLEAN]

\* The attempts that are left of the strategy of a call.
Left(k) ==
    CASE k.at = "run" -> k.max - k.attempt + 1
      [] k.at \in {"report", "recovered"} -> k.max - k.attempt
      [] OTHER -> 0

CallOK(k) ==
    /\ k \in CallRecord /\ k.attempt <= k.max
    /\ k.next \in 1..Len(k.strategies) + 1
    /\ k.runs + Left(k) + Allowance(k.strategies, k.next) <= Allowance(k.strategies, 1)

BreakerOK(b) ==
    /\ b \in [failures : Nat, open : BOOLEAN, cooled : BOOLEAN]
    /\ b.open <=> b.failures > 0 /\ b.failures >= Threshold

BoundaryInv ==
    /\ BreakerOK(breaker) /\ busErrors \in Nat
    /\ DOMAIN call = Caller
    /\ \A c \in Caller :
        /\ CallOK(call[c])
        /\ busErrors = 0 /\ call[c].at # "recovered" => ~call[c].succeeded

LEMMA AllowanceIsNumber ==
    ASSUME NEW list \in Seq(Strategy), NEW k \in Nat
    PROVE  Allowance(list, k) \in Nat
<1>1. IsFiniteSet(k..Len(list))
  BY FS_Interval
<1>2. IsFiniteSet({i \in k..Len(list) : list[i] \in {"retry", "circuit_break"}})
      /\ IsFiniteSet({i \in k..Len(list) : list[i] = "reset"})
  BY ONLY <1>1, FS_Subset
<1>3. Cardinality({i \in k..Len(list) : list[i] \in {"retry", "circuit_break"}}) \in Nat
      /\ Cardinality({i \in k..Len(list) : list[i] = "reset"}) \in Nat
  BY ONLY <1>2, FS_CardinalityType
<1> DEFINE n == Cardinality({i \in k..Len(list) : list[i] \in {"retry", "circuit_break"}})
           r == Cardinality({i \in k..Len(list) : list[i] = "reset"})
<1>4. Allowance(list, k) = MaxAttempts * n + r /\ n \in Nat /\ r \in Nat
  BY <1>3 DEF Allowance
<1> HIDE DEF n, r
<1> QED BY <1>4, BoundaryAssumption

\* One place further, the members of an interval with a property are one less or as many.
Among(P, k, n) == {i \in k..n : i \in P}

LEMMA OneLess ==
    ASSUME NEW P, NEW k \in Nat, NEW n \in Nat, k <= n
    PROVE  /\ Cardinality(Among(P, k, n)) \in Nat
           /\ Cardinality(Among(P, k + 1, n)) = Cardinality(Among(P, k, n)) - IF k \in P THEN 1 ELSE 0
<1> DEFINE S == Among(P, k, n)
           T == Among(P, k + 1, n)
<1>1. IsFiniteSet(k..n)
  BY FS_Interval
<1>2. IsFiniteSet(S)
  BY ONLY <1>1, FS_Subset DEF Among
<1>3. T = S \ {k} /\ (k \in S <=> k \in P)
  BY DEF Among
<1> HIDE DEF S, T
<1>4. Cardinality(S \ {k}) = IF k \in S THEN Cardinality(S) - 1 ELSE Cardinality(S)
  BY ONLY <1>2, FS_RemoveElement
<1>5. Cardinality(S) \in Nat
  BY ONLY <1>2, FS_CardinalityType
<1>6. Cardinality(S) \in Nat /\ Cardinality(T) = Cardinality(S) - IF k \in P THEN 1 ELSE 0
  BY ONLY <1>3, <1>4, <1>5
<1> QED BY <1>6 DEF S, T

LEMMA AllowanceAtNext ==
    ASSUME NEW list \in Seq(Strategy), NEW k \in 1..Len(list)
    PROVE  Allowance(list, k) = Tries(list[k]) + Allowance(list, k + 1)
<1> DEFINE n == Len(list)
           R == {i \in DOMAIN list : list[i] \in {"retry", "circuit_break"}}
           E == {i \in DOMAIN list : list[i] = "reset"}
<1>1. \A j \in {k, k + 1} :
        /\ {i \in j..n : list[i] \in {"retry", "circuit_break"}} = Among(R, j, n)
        /\ {i \in j..n : list[i] = "reset"} = Among(E, j, n)
  BY DEF Among
<1>2. Tries(list[k]) = (IF k \in R THEN MaxAttempts ELSE 0) + (IF k \in E THEN 1 ELSE 0)
  BY BoundaryAssumption DEF Tries
<1>3. k \in Nat /\ n \in Nat /\ k <= n
  OBVIOUS
<1>4. Allowance(list, k) = MaxAttempts * Cardinality(Among(R, k, n)) + Cardinality(Among(E, k, n))
  BY <1>1 DEF Allowance
<1>5. Allowance(list, k + 1)
        = MaxAttempts * Cardinality(Among(R, k + 1, n)) + Cardinality(Among(E, k + 1, n))
  BY <1>1 DEF Allowance
<1> HIDE DEF n, R, E
<1>6. /\ Cardinality(Among(R, k, n)) \in Nat
      /\ Cardinality(Among(R, k + 1, n)) = Cardinality(Among(R, k, n)) - IF k \in R THEN 1 ELSE 0
  BY ONLY <1>3, OneLess
<1>7. /\ Cardinality(Among(E, k, n)) \in Nat
      /\ Cardinality(Among(E, k + 1, n)) = Cardinality(Among(E, k, n)) - IF k \in E THEN 1 ELSE 0
  BY ONLY <1>3, OneLess
<1> DEFINE r == Cardinality(Among(R, k, n))
           r1 == Cardinality(Among(R, k + 1, n))
           e == Cardinality(Among(E, k, n))
           e1 == Cardinality(Among(E, k + 1, n))
<1>8. /\ r \in Nat /\ e \in Nat /\ r1 = r - (IF k \in R THEN 1 ELSE 0) /\ e1 = e - (IF k \in E THEN 1 ELSE 0)
      /\ Allowance(list, k) = MaxAttempts * r + e /\ Allowance(list, k + 1) = MaxAttempts * r1 + e1
  BY <1>4, <1>5, <1>6, <1>7
<1> HIDE DEF r, r1, e, e1
<1>9. MaxAttempts * r \in Int /\ MaxAttempts * (r - 1) = MaxAttempts * r - MaxAttempts
  BY <1>8, BoundaryAssumption
<1>10. MaxAttempts * r1 = MaxAttempts * r - IF k \in R THEN MaxAttempts ELSE 0
  BY <1>8, <1>9, BoundaryAssumption
<1> DEFINE x == MaxAttempts * r
           y == MaxAttempts * r1
<1>11. x \in Int /\ y = x - (IF k \in R THEN MaxAttempts ELSE 0)
       /\ Allowance(list, k) = x + e /\ Allowance(list, k + 1) = y + e1
  BY <1>8, <1>9, <1>10
<1> HIDE DEF x, y
<1> QED BY <1>2, <1>8, <1>11, BoundaryAssumption

LEMMA IdleIsOK == CallOK(IdleCall) /\ IdleCall.at = "idle" /\ ~IdleCall.succeeded
<1>1. IdleCall \in CallRecord /\ IdleCall.strategies = <<>> /\ IdleCall.next = 1 /\ IdleCall.runs = 0
      /\ Left(IdleCall) = 0 /\ IdleCall.attempt = 0 /\ IdleCall.max = 0
  BY DEF IdleCall, CallRecord, Left
<1>2. <<>> \in Seq(Strategy) /\ Len(<<>>) = 0
  OBVIOUS
<1>3. Allowance(<<>>, 1) \in Nat
  BY <1>2, AllowanceIsNumber
<1>4. IdleCall.at = "idle" /\ ~IdleCall.succeeded
  BY DEF IdleCall
<1> QED BY <1>1, <1>2, <1>3, <1>4 DEF CallOK

LEMMA BreakerStays ==
    ASSUME BreakerOK(breaker)
    PROVE  BreakerOK(Closed) /\ BreakerOK(AfterLook) /\ BreakerOK(RecordFailure(breaker))
           /\ BreakerOK([breaker EXCEPT !.cooled = TRUE])
<1>1. BreakerOK(Closed)
  BY BoundaryAssumption DEF BreakerOK, Closed
<1>2. BreakerOK(AfterLook)
  BY <1>1 DEF AfterLook
<1>3. BreakerOK(RecordFailure(breaker))
  <2> DEFINE b == RecordFailure(breaker)
  <2>1. breaker.failures \in Nat /\ breaker.open \in BOOLEAN /\ (breaker.open => breaker.failures >= Threshold)
    BY DEF BreakerOK
  <2>2. b.failures = breaker.failures + 1 /\ b.failures \in Nat /\ b.failures > 0
    BY <2>1 DEF RecordFailure
  <2>3. b.open = (breaker.open \/ breaker.failures + 1 >= Threshold)
    BY DEF RecordFailure
  <2>4. b \in [failures : Nat, open : BOOLEAN, cooled : BOOLEAN]
    BY <2>1 DEF RecordFailure
  <2>5. b.open <=> breaker.failures + 1 >= Threshold
    <3>1. breaker.open => breaker.failures + 1 >= Threshold
      BY <2>1, BoundaryAssumption
    <3> QED BY <2>1, <2>3, <3>1
  <2> HIDE DEF b
  <2>6. BreakerOK(b)
    BY <2>2, <2>4, <2>5 DEF BreakerOK
  <2> QED BY <2>6 DEF b
<1>4. BreakerOK([breaker EXCEPT !.cooled = TRUE])
  BY DEF BreakerOK
<1> QED BY <1>1, <1>2, <1>3, <1>4

Becomes(c, k) == call' = [call EXCEPT ![c] = k]

\* A call that takes a step, while the others stay where they are.
LEMMA OneCall ==
    ASSUME BoundaryInv, NEW c \in Caller, NEW k, Becomes(c, k), CallOK(k), BreakerOK(breaker'),
           busErrors' \in Nat, busErrors' >= busErrors, busErrors' = 0 /\ k.at # "recovered" => ~k.succeeded
    PROVE  BoundaryInv'
BY DEF BoundaryInv, Becomes

LEMMA BoundaryStart == BoundaryInit => BoundaryInv
<1> SUFFICES ASSUME BoundaryInit PROVE BoundaryInv
  OBVIOUS
<1>1. BreakerOK(Closed)
  BY BoundaryAssumption DEF BreakerOK, Closed
<1>2. DOMAIN call = Caller /\ \A c \in Caller : call[c] = IdleCall
  BY DEF BoundaryInit
<1> QED BY <1>1, <1>2, IdleIsOK DEF BoundaryInv, BoundaryInit

LEMMA BoundaryStep ==
    ASSUME BoundaryInv, NEW c \in Caller,
           Execute(c) \/ Try(c) \/ AllFailed(c) \/ Succeed(c) \/ Fail(c) \/ Emitted(c) \/ ReportFails(c)
    PROVE  BoundaryInv'
<1> DEFINE k == call[c]
<1>1. /\ k \in CallRecord /\ k.attempt <= k.max /\ k.next \in 1..Len(k.strategies) + 1
      /\ k.runs + Left(k) + Allowance(k.strategies, k.next) <= Allowance(k.strategies, 1)
      /\ busErrors = 0 /\ k.at # "recovered" => ~k.succeeded
      /\ BreakerOK(breaker) /\ busErrors \in Nat
  BY DEF BoundaryInv, CallOK
<1>2. /\ k.strategies \in Seq(Strategy) /\ k.next \in Nat /\ k.attempt \in Nat /\ k.max \in Nat /\ k.runs \in Nat
      /\ k.succeeded \in BOOLEAN
      /\ k.at \in {"idle", "choose", "run", "report", "recovered", "escalate", "fatal"}
  BY <1>1 DEF CallRecord
<1>3. Allowance(k.strategies, k.next) \in Nat /\ Allowance(k.strategies, 1) \in Nat
  BY <1>2, AllowanceIsNumber
<1> HIDE DEF k
\* The same strategies at the same place, with fewer attempts left or one more made.
<1> DEFINE Changed(at, attempt, runs, succeeded) ==
        [k EXCEPT !.at = at, !.attempt = attempt, !.runs = runs, !.succeeded = succeeded]
<1>4. ASSUME NEW at \in {"choose", "run", "report", "recovered", "escalate", "fatal"},
             NEW attempt \in Nat, NEW runs \in Nat, NEW succeeded \in BOOLEAN,
             attempt <= k.max, runs + (IF at = "run" THEN k.max - attempt + 1
                                       ELSE IF at \in {"report", "recovered"} THEN k.max - attempt ELSE 0)
                                   <= k.runs + Left(k)
      PROVE  CallOK(Changed(at, attempt, runs, succeeded))
  <2> DEFINE j == Changed(at, attempt, runs, succeeded)
  <2>1. j \in CallRecord
    BY <1>1, <1>2 DEF CallRecord
  <2>2. /\ j.at = at /\ j.attempt = attempt /\ j.runs = runs /\ j.max = k.max /\ j.next = k.next
        /\ j.strategies = k.strategies
    BY <1>1 DEF CallRecord
  <2> HIDE DEF j
  <2>3. Left(j) = IF at = "run" THEN k.max - attempt + 1
                  ELSE IF at \in {"report", "recovered"} THEN k.max - attempt ELSE 0
    BY <2>2 DEF Left
  <2>4. Left(j) \in Int /\ Left(k) \in Int
    BY <1>2, <2>3 DEF Left
  <2>5. runs + Left(j) <= k.runs + Left(k)
    BY <1>4, <2>3
  <2>6. j.runs + Left(j) + Allowance(j.strategies, j.next) <= Allowance(j.strategies, 1)
    <3> DEFINE a == Allowance(k.strategies, k.next)
               b == Allowance(k.strategies, 1)
    <3>1. a \in Nat /\ b \in Nat /\ k.runs + Left(k) + a <= b
      BY <1>1, <1>3
    <3>2. runs + Left(j) + a <= b
      <4> HIDE DEF a, b
      <4> QED BY <1>2, <1>4, <2>4, <2>5, <3>1
    <3> QED BY <2>2, <3>2
  <2>7. CallOK(j)
    BY <1>1, <1>4, <2>1, <2>2, <2>6 DEF CallOK
  <2> QED BY <2>7 DEF j
\* The next strategy, with the attempts it allows.
<1> DEFINE Past(at, attempt, max) ==
        [k EXCEPT !.next = @ + 1, !.at = at, !.attempt = attempt, !.max = max]
<1>5. ASSUME k.at = "choose", k.next <= Len(k.strategies),
             NEW at \in {"choose", "run", "escalate"}, NEW attempt \in Nat, NEW max \in Nat,
             attempt <= max, (IF at = "run" THEN max - attempt + 1 ELSE 0) <= Tries(k.strategies[k.next])
      PROVE  CallOK(Past(at, attempt, max))
  <2> DEFINE j == Past(at, attempt, max)
  <2>1. j \in CallRecord
    <3>1. k.next + 1 \in Nat /\ at \in {"idle", "choose", "run", "report", "recovered", "escalate", "fatal"}
      BY <1>2
    <3> QED BY ONLY <1>1, <3>1, attempt \in Nat, max \in Nat DEF CallRecord
  <2>2. /\ j.at = at /\ j.attempt = attempt /\ j.runs = k.runs /\ j.max = max /\ j.next = k.next + 1
        /\ j.strategies = k.strategies
    BY <1>1 DEF CallRecord
  <2> HIDE DEF j
  <2>3. Left(j) = (IF at = "run" THEN max - attempt + 1 ELSE 0) /\ Left(k) = 0
    BY <1>5, <2>2 DEF Left
  <2>4. k.next \in 1..Len(k.strategies)
    BY <1>1, <1>2, <1>5
  <2>5. Allowance(k.strategies, k.next) = Tries(k.strategies[k.next]) + Allowance(k.strategies, k.next + 1)
    BY ONLY <1>2, <2>4, AllowanceAtNext
  <2>6. Allowance(k.strategies, k.next + 1) \in Nat /\ Tries(k.strategies[k.next]) \in Nat
    <3>1. k.next + 1 \in Nat
      BY <1>2
    <3> QED BY <1>2, <3>1, AllowanceIsNumber, BoundaryAssumption DEF Tries
  <2>7. j.runs + Left(j) + Allowance(j.strategies, j.next) <= Allowance(j.strategies, 1)
    <3> DEFINE a == Allowance(k.strategies, k.next)
               a1 == Allowance(k.strategies, k.next + 1)
               b == Allowance(k.strategies, 1)
               x == Tries(k.strategies[k.next])
               l == Left(j)
    <3>1. a1 \in Nat /\ a \in Nat /\ b \in Nat /\ x \in Nat /\ a = x + a1 /\ k.runs + a <= b
      BY <1>1, <1>2, <1>3, <2>3, <2>5, <2>6
    <3>2. l \in Int /\ l <= x
      BY <1>5, <2>3
    <3>3. k.runs + l + a1 <= b
      <4> HIDE DEF a, a1, b, x, l
      <4> QED BY <1>2, <3>1, <3>2
    <3> QED BY <2>2, <3>3
  <2>8. CallOK(j)
    BY <1>1, <1>2, <1>5, <2>1, <2>2, <2>4, <2>7 DEF CallOK
  <2> QED BY <2>8 DEF j
<1>5a. /\ [k EXCEPT !.next = @ + 1, !.at = "run", !.attempt = 1, !.max = Tries(k.strategies[k.next])]
            = Past("run", 1, Tries(k.strategies[k.next]))
       /\ k.at = "choose" => [k EXCEPT !.next = @ + 1] = Past("choose", k.attempt, k.max)
       /\ [k EXCEPT !.next = @ + 1, !.at = "escalate"] = Past("escalate", k.attempt, k.max)
       /\ \A at, attempt, max : Past(at, attempt, max).succeeded = k.succeeded
  BY <1>1 DEF CallRecord
<1> HIDE DEF Past
<1>6. CASE Execute(c)
  <2>1. PICK s \in Strategies : Becomes(c, [IdleCall EXCEPT !.at = "choose", !.strategies = s])
    BY <1>6 DEF Execute, Becomes
  <2> DEFINE j == [IdleCall EXCEPT !.at = "choose", !.strategies = s]
  <2>2. s \in Seq(Strategy)
    BY BoundaryAssumption
  <2>3. /\ j \in CallRecord /\ j.at = "choose" /\ j.strategies = s /\ j.next = 1 /\ j.runs = 0 /\ ~j.succeeded
        /\ j.attempt = 0 /\ j.max = 0
    BY <2>2 DEF IdleCall, CallRecord
  <2> HIDE DEF j
  <2>4. Left(j) = 0 /\ Allowance(s, 1) \in Nat
    BY <2>2, <2>3, AllowanceIsNumber DEF Left
  <2>5. CallOK(j)
    BY <2>2, <2>3, <2>4 DEF CallOK
  <2>6. Becomes(c, j) /\ UNCHANGED <<breaker, busErrors>>
    BY <1>6, <2>1 DEF Execute, j, Becomes
  <2> QED BY <1>1, <2>3, <2>5, <2>6, OneCall
<1>7. CASE Try(c)
  <2> DEFINE s == k.strategies[k.next]
  <2>1. k.at = "choose" /\ k.next <= Len(k.strategies) /\ UNCHANGED busErrors
    BY <1>7 DEF Try, k, Becomes
  <2>2. BreakerOK(breaker')
    BY <1>1, <1>7, BreakerStays DEF Try
  <2>3. Tries(s) \in Nat
    BY BoundaryAssumption DEF Tries
  <2>4. ~k.succeeded \/ busErrors # 0
    BY <1>1, <2>1
  <2>5. ASSUME NEW at \in {"choose", "run", "escalate"}, NEW attempt \in Nat, NEW max \in Nat, attempt <= max,
               (IF at = "run" THEN max - attempt + 1 ELSE 0) <= Tries(s), Becomes(c, Past(at, attempt, max))
        PROVE  BoundaryInv'
    <3> DEFINE j == Past(at, attempt, max)
    <3>1. CallOK(j)
      BY <1>5, <2>1, <2>5
    <3>2. j.succeeded = k.succeeded /\ Becomes(c, j)
      BY <1>5a, <2>5
    <3> HIDE DEF j
    <3> QED BY <1>1, <2>1, <2>2, <2>4, <3>1, <3>2, OneCall
  <2>6. CASE Becomes(c, [k EXCEPT !.next = @ + 1])
    <3>1. Becomes(c, Past("choose", k.attempt, k.max))
      BY <1>5a, <2>1, <2>6
    <3> QED BY <1>1, <1>2, <2>3, <2>5, <3>1
  <2>7. CASE Tries(s) # 0 /\ Becomes(c, [k EXCEPT !.next = @ + 1, !.at = "run", !.attempt = 1, !.max = Tries(s)])
    <3>1. Becomes(c, Past("run", 1, Tries(s))) /\ 1 <= Tries(s) /\ Tries(s) - 1 + 1 <= Tries(s)
      BY <1>5a, <2>3, <2>7
    <3> QED BY <2>3, <2>5, <3>1
  <2>7a. CASE Becomes(c, [k EXCEPT !.next = @ + 1, !.at = "escalate"])
    <3>1. Becomes(c, Past("escalate", k.attempt, k.max))
      BY <1>5a, <2>7a
    <3> QED BY <1>1, <1>2, <2>3, <2>5, <3>1
  <2>8. CASE Becomes(c, IdleCall)
    BY <1>1, <2>1, <2>2, <2>8, IdleIsOK, OneCall
  <2> QED BY <1>7, <2>6, <2>7, <2>7a, <2>8 DEF Try, k, Becomes
\* The other steps change neither the strategies nor the place.
<1>8. ASSUME NEW at \in {"choose", "run", "report", "recovered", "escalate", "fatal"},
             NEW attempt \in Nat, NEW runs \in Nat, NEW succeeded \in BOOLEAN,
             Becomes(c, Changed(at, attempt, runs, succeeded)),
             attempt <= k.max, runs + (IF at = "run" THEN k.max - attempt + 1
                                       ELSE IF at \in {"report", "recovered"} THEN k.max - attempt ELSE 0)
                                   <= k.runs + Left(k),
             BreakerOK(breaker'), busErrors' \in Nat, busErrors' >= busErrors,
             busErrors' = 0 /\ at # "recovered" => ~succeeded
      PROVE  BoundaryInv'
  <2> DEFINE j == Changed(at, attempt, runs, succeeded)
  <2>1. CallOK(j)
    BY <1>4, <1>8
  <2>2. j.at = at /\ j.succeeded = succeeded
    BY <1>1 DEF CallRecord
  <2> HIDE DEF j
  <2>3. Becomes(c, j)
    BY <1>8 DEF j
  <2> QED BY <1>8, <2>1, <2>2, <2>3, OneCall
<1>9. \A at \in {"choose", "run", "report", "recovered", "escalate", "fatal"} :
        /\ [k EXCEPT !.at = at]
             = Changed(at, k.attempt, k.runs, k.succeeded)
        /\ [k EXCEPT !.at = at, !.runs = @ + 1]
             = Changed(at, k.attempt, k.runs + 1, k.succeeded)
        /\ [k EXCEPT !.at = at, !.attempt = @ + 1]
             = Changed(at, k.attempt + 1, k.runs, k.succeeded)
        /\ [k EXCEPT !.at = at, !.runs = @ + 1, !.succeeded = TRUE]
             = Changed(at, k.attempt, k.runs + 1, TRUE)
  BY <1>1 DEF CallRecord
<1> HIDE DEF Changed
<1>10. ASSUME Becomes(c, IdleCall), BreakerOK(breaker'), busErrors' \in Nat, busErrors' >= busErrors
       PROVE  BoundaryInv'
  BY <1>10, IdleIsOK, OneCall
<1>11. CASE AllFailed(c)
  <2>1. k.at = "choose" /\ Becomes(c, [k EXCEPT !.at = "fatal"]) /\ UNCHANGED <<breaker, busErrors>>
    BY <1>11 DEF AllFailed, k, Becomes
  <2>2. Left(k) = 0
    BY <2>1 DEF Left
  <2> QED BY <1>1, <1>2, <1>8, <1>9, <2>1, <2>2
<1>12. CASE Succeed(c)
  <2>1. k.at = "run" /\ breaker' = Closed /\ UNCHANGED busErrors
        /\ \/ Becomes(c, IdleCall)
           \/ Becomes(c, [k EXCEPT !.at = "recovered", !.runs = @ + 1, !.succeeded = TRUE])
    <3>1. /\ call[c].at = "run" /\ breaker' = Closed /\ UNCHANGED busErrors
          /\ call' = [call EXCEPT ![c] = IF call[c].attempt = 1 THEN IdleCall
                         ELSE [call[c] EXCEPT !.at = "recovered", !.runs = @ + 1, !.succeeded = TRUE]]
      BY <1>12 DEF Succeed
    <3>2. CASE call[c].attempt = 1
      <4>1. call' = [call EXCEPT ![c] = IdleCall]
        BY ONLY <3>1, <3>2
      <4> QED BY <3>1, <4>1 DEF k, Becomes
    <3>3. CASE call[c].attempt # 1
      <4>1. call' = [call EXCEPT ![c] = [call[c] EXCEPT !.at = "recovered", !.runs = @ + 1, !.succeeded = TRUE]]
        BY ONLY <3>1, <3>3
      <4> QED BY <3>1, <4>1 DEF k, Becomes
    <3> QED BY <3>2, <3>3
  <2>2. BreakerOK(breaker') /\ Left(k) = k.max - k.attempt + 1 /\ busErrors' >= busErrors /\ busErrors' \in Nat
    BY <1>1, <2>1, BreakerStays DEF Left
  <2>3. CASE Becomes(c, [k EXCEPT !.at = "recovered", !.runs = @ + 1, !.succeeded = TRUE])
    <3>1. Becomes(c, Changed("recovered", k.attempt, k.runs + 1, TRUE))
      BY <1>9, <2>3
    <3>2. k.runs + 1 \in Nat /\ k.runs + 1 + (k.max - k.attempt) <= k.runs + Left(k)
      BY <1>2, <2>2
    <3> QED BY <1>1, <1>2, <1>8, <2>2, <3>1, <3>2
  <2> QED BY <1>10, <2>1, <2>2, <2>3
<1>13. CASE Fail(c)
  <2>1. k.at = "run" /\ breaker' = RecordFailure(breaker) /\ UNCHANGED busErrors
        /\ Becomes(c, [k EXCEPT !.at = "report", !.runs = @ + 1])
    BY <1>13 DEF Fail, k, Becomes
  <2>2. BreakerOK(breaker') /\ Left(k) = k.max - k.attempt + 1 /\ busErrors' >= busErrors /\ busErrors' \in Nat
    BY <1>1, <2>1, BreakerStays DEF Left
  <2>3. Becomes(c, Changed("report", k.attempt, k.runs + 1, k.succeeded))
    BY <1>9, <2>1
  <2>4. k.runs + 1 \in Nat /\ k.runs + 1 + (k.max - k.attempt) <= k.runs + Left(k)
    BY <1>2, <2>2
  <2> QED BY <1>1, <1>2, <1>8, <2>1, <2>2, <2>3, <2>4
<1>14. CASE Emitted(c)
  <2>1. UNCHANGED <<breaker, busErrors>> /\ BreakerOK(breaker') /\ busErrors' >= busErrors /\ busErrors' \in Nat
    BY <1>1, <1>14 DEF Emitted
  <2>2. CASE k.at = "report" /\ k.attempt < k.max
    <3>1. Becomes(c, [k EXCEPT !.at = "run", !.attempt = @ + 1])
      BY <1>14, <2>2 DEF Emitted, NextAttempt, k, Becomes
    <3>2. Left(k) = k.max - k.attempt /\ k.attempt + 1 \in Nat /\ k.attempt + 1 <= k.max
      BY <1>2, <2>2 DEF Left
    <3> QED BY <1>1, <1>2, <1>8, <1>9, <2>1, <2>2, <3>1, <3>2
  <2>3. CASE (k.at = "report" /\ ~(k.attempt < k.max)) \/ k.at = "escalate"
    <3>1. Becomes(c, [k EXCEPT !.at = "choose"])
      BY <1>14, <2>3 DEF Emitted, NextAttempt, k, Becomes
    <3>2. Left(k) \in Int /\ Left(k) >= 0
      BY <1>1, <1>2, <2>3 DEF Left
    <3> QED BY <1>1, <1>2, <1>8, <1>9, <2>1, <2>3, <3>1, <3>2
  <2>4. CASE k.at \notin {"report", "escalate"}
    <3>1. Becomes(c, IdleCall)
      BY <1>14, <2>4 DEF Emitted, k, Becomes
    <3> QED BY <1>10, <2>1, <3>1
  <2> QED BY <2>2, <2>3, <2>4
<1>15. CASE ReportFails(c)
  <2>1. busErrors' \in Nat /\ busErrors' >= busErrors /\ busErrors' # 0
    BY <1>1, <1>15 DEF ReportFails
  <2>2. CASE k.at = "recovered"
    <3>1. Becomes(c, [k EXCEPT !.at = "report"]) /\ breaker' = RecordFailure(breaker)
      BY <1>15, <2>2 DEF ReportFails, k, Becomes
    <3>2. BreakerOK(breaker') /\ Left(k) = k.max - k.attempt
      BY <1>1, <2>2, <3>1, BreakerStays DEF Left
    <3> QED BY <1>1, <1>2, <1>8, <1>9, <2>1, <3>1, <3>2
  <2>3. CASE k.at # "recovered"
    <3>1. Becomes(c, IdleCall) /\ UNCHANGED breaker
      BY <1>15, <2>3 DEF ReportFails, k, Becomes
    <3>2. BreakerOK(breaker')
      BY <1>1, <3>1
    <3> QED BY <1>10, <2>1, <3>1, <3>2
  <2> QED BY <2>2, <2>3
<1> QED BY <1>6, <1>7, <1>11, <1>12, <1>13, <1>14, <1>15

\* RetriesAreBounded for any strategies, attempts, threshold and calls that overlap.
\* (execute(), tryStrategy(), tryRetry() and recordFailure() of error-boundary.ts)
THEOREM RetriesStayBounded == BoundarySpec => []RetriesAreBounded
<1>1. BoundaryInv /\ [BoundaryNext]_boundaryVars => BoundaryInv'
  <2> SUFFICES ASSUME BoundaryInv, [BoundaryNext]_boundaryVars PROVE BoundaryInv'
    OBVIOUS
  <2>1. CASE CoolDown
    <3>1. BreakerOK(breaker') /\ UNCHANGED <<call, busErrors>>
      BY <2>1, BreakerStays DEF CoolDown, BoundaryInv
    <3> QED BY <3>1 DEF BoundaryInv
  <2>2. CASE UNCHANGED boundaryVars
    BY <2>2 DEF boundaryVars, BoundaryInv
  <2> QED BY <2>1, <2>2, BoundaryStep DEF BoundaryNext
<1>2. BoundaryInv => RetriesAreBounded
  <2> SUFFICES ASSUME BoundaryInv PROVE RetriesAreBounded
    OBVIOUS
  <2>1. BoundaryTypes
    BY DEF BoundaryInv, BoundaryTypes, BreakerOK, CallOK
  <2>2. ASSUME NEW c \in Caller
        PROVE  call[c].runs <= Allowance(call[c].strategies, 1) /\ (busErrors = 0 /\ call[c].at = "run" => ~call[c].succeeded)
    <3> DEFINE k == call[c]
    <3>2. k.strategies \in Seq(Strategy) /\ k.next \in Nat /\ k.attempt \in Nat /\ k.max \in Nat /\ k.runs \in Nat
      BY DEF BoundaryInv, CallOK, CallRecord
    <3>3. Allowance(k.strategies, k.next) \in Nat /\ Allowance(k.strategies, 1) \in Nat
      BY <3>2, AllowanceIsNumber
    <3>4. k.attempt <= k.max /\ k.runs + Left(k) + Allowance(k.strategies, k.next) <= Allowance(k.strategies, 1)
          /\ (busErrors = 0 /\ k.at # "recovered" => ~k.succeeded)
      BY DEF BoundaryInv, CallOK
    <3> HIDE DEF k
    <3>5. Left(k) \in Nat
      BY <3>2, <3>4 DEF Left
    <3>6. k.runs <= Allowance(k.strategies, 1)
      <4> DEFINE a == Allowance(k.strategies, k.next)
                 b == Allowance(k.strategies, 1)
                 l == Left(k)
      <4>1. a \in Nat /\ b \in Nat /\ l \in Nat /\ k.runs \in Nat /\ k.runs + l + a <= b
        BY <3>2, <3>3, <3>4, <3>5
      <4> HIDE DEF a, b, l
      <4>2. k.runs <= b
        BY <4>1
      <4> QED BY <4>2 DEF b
    <3> QED BY <3>4, <3>6 DEF k
  <2> QED BY <2>1, <2>2 DEF RetriesAreBounded, AttemptsAreBounded
<1> QED BY <1>1, <1>2, BoundaryStart, PTL DEF BoundarySpec
===============================================================================
