---------------------------- MODULE RuntimeFacade ----------------------------
(***************************************************************************)
(* SynthRuntime.processInput: what a call remembers, asks the loops, waits *)
(* for, and puts on record. The session of a call is the millisecond it    *)
(* begins in, so that two calls may share one. The loops of the runtime    *)
(* work on a session's input, and ticks that overlap do so several times   *)
(* (TickScheduler); here each time is a run, which appends its outcomes to *)
(* the signals of the session one by one, while other runs append theirs.  *)
(***************************************************************************)
EXTENDS RuntimeGovernor, SequencesExt

CONSTANTS
    Call, None, Torn,
    Runs,                 \* what the loops may make of an input: [steps, result], None if they fail
    Opposite,             \* a fact that negates another, as far as the code can tell
    Similarity, Against,  \* how similar texts are; whether only one of two has a negation
    Archive,              \* memories of earlier days: a sequence of [of, days]
    MaxRanked,
    MaxRuns, MaxTime, MaxErrors, MaxCrashes    \* bounds

VARIABLES
    ms, processing,       \* the time, and how far each call is
    signals,              \* per session, what its log holds
    atWork,               \* per session, what each of its runs has still to append
    flashMemories, vectorMemories, semanticFacts,
    worldStates, manifests,   \* the two files of a session
    alive, cuts           \* whether the process runs, and how often it was cut off

logVars == <<signals, atWork>>
memoryVars == <<flashMemories, vectorMemories, semanticFacts>>
recordVars == <<worldStates, manifests>>
lifeVars == <<alive, cuts>>
facadeVars == <<governorVars, ms, processing, logVars, memoryVars, recordVars, lifeVars>>

Sessions == 0 .. MaxTime

EmptyWorld == [facts |-> <<>>, assumptions |-> <<>>, openGoals |-> <<>>]

NewCall == [pc |-> "idle", session |-> None, cursor |-> 0, context |-> <<>>, response |-> None,
            steps |-> <<>>, result |-> "partial", before |-> EmptyWorld]

\* A signal and the run that it is of, 0 if it is of none.
Outcome(type, of, run) == [type |-> type, of |-> of, run |-> run]
Signal(type, of) == Outcome(type, of, 0)

Goto(c, pc) == processing' = [processing EXCEPT ![c].pc = pc]

------------------------------------------------------------------------------
(* Memories *)

\* In hundredths: similarity, age and trust, less for what is stale or says the contrary.
FinalScore(query, memory) ==
    LET sum == 50 * Similarity[<<query, memory.of>>] + 25 \div (1 + memory.days) + 20
        penalty == (IF memory.days > 7 THEN 15 ELSE 0) + (IF Against[<<query, memory.of>>] THEN 25 ELSE 0)
    IN  IF sum > penalty THEN sum - penalty ELSE 0

RetrieveRankedMemories(query) ==
    LET order == SetToSortSeq(DOMAIN vectorMemories,
                    LAMBDA i, j : LET a == FinalScore(query, vectorMemories[i])
                                      b == FinalScore(query, vectorMemories[j])
                                  IN  a > b \/ (a = b /\ i < j))
        n == Len(order)
    IN  [k \in 1 .. (IF n < MaxRanked THEN n ELSE MaxRanked) |-> vectorMemories[order[k]]]

\* Two calls that embed in the same millisecond have the same key.
AddVector(c) ==
    LET entry == [of |-> c, days |-> 0, key |-> ms]
        same == {i \in DOMAIN vectorMemories : vectorMemories[i].key = ms}
    IN  IF same = {} THEN Append(vectorMemories, entry)
        ELSE [i \in DOMAIN vectorMemories |-> IF i \in same THEN entry ELSE vectorMemories[i]]

Remember(c, speaker) ==
    flashMemories' = Append(flashMemories, [session |-> processing[c].session, speaker |-> speaker, of |-> c])

------------------------------------------------------------------------------
(* The state of the world *)

Diff(type, step, value) == [type |-> type, step |-> step, value |-> value]

\* What a step says about the world: its output is a fact, that of an experiment twice; a failure
\* is something to recover from, its message an assumption.
DiffsOf(step) ==
    IF step.status = "executed"
    THEN IF step.output = None THEN <<>>
         ELSE <<Diff("fact_add", step.id, step.output)>>
              \o (IF step.experiment THEN <<Diff("fact_add", step.id, <<"experiment_result">> \o step.output)>>
                  ELSE <<>>)
    ELSE <<Diff("goal_add", step.id, <<"recover", step.id>>)>>
         \o (IF step.output = None THEN <<>> ELSE <<Diff("assumption_add", step.id, step.output)>>)

BuildWorldStateDiffs(steps) == FlattenSeq([i \in DOMAIN steps |-> DiffsOf(steps[i])])

Include(values, value) == IF value \in Range(values) THEN values ELSE Append(values, value)

Values(before, diffs, type) ==
    FoldLeft(Include, before, LET s == SelectSeq(diffs, LAMBDA d : d.type = type)
                              IN  [i \in DOMAIN s |-> s[i].value])

ApplyWorldStateDiffs(before, diffs) ==
    [facts |-> Values(before.facts, diffs, "fact_add"),
     assumptions |-> Values(before.assumptions, diffs, "assumption_add"),
     openGoals |-> Values(before.openGoals, diffs, "goal_add")]

\* A fact whose opposite was known before, or came before it.
DetectContradictions(before, diffs) ==
    SelectSeq([i \in DOMAIN diffs |->
                  [step |-> diffs[i].step,
                   found |-> /\ diffs[i].type = "fact_add" /\ diffs[i].value \in DOMAIN Opposite
                             /\ \/ Opposite[diffs[i].value] \in Range(before.facts)
                                \/ \E j \in 1 .. i - 1 : diffs[j].type = "fact_add"
                                                         /\ diffs[j].value = Opposite[diffs[i].value]]],
              LAMBDA d : d.found)

LoadSessionWorldState(s) == IF worldStates[s] \in {None, Torn} THEN EmptyWorld ELSE worldStates[s]

\* Each step's edge of the causal graph; a contradiction is about the one of its step.
CausalEdges(steps, contradictions) ==
    [i \in DOMAIN steps |->
        [step |-> steps[i].id, confidence |-> IF steps[i].status = "executed" THEN 80 ELSE 45,
         observed |-> IF steps[i].status = "executed" THEN 62 ELSE 22,
         contradicted |-> \E k \in DOMAIN contradictions : contradictions[k].step = steps[i].id]]

------------------------------------------------------------------------------
(* A call *)

Begin(c) ==
    /\ alive /\ processing[c].pc = "idle"
    /\ processing' = [processing EXCEPT ![c].pc = "storing", ![c].session = ms]
    /\ UNCHANGED <<governorVars, ms, logVars, memoryVars, recordVars, lifeVars>>

RememberInput(c) ==
    /\ processing[c].pc = "storing"
    /\ Goto(c, "ranking")
    /\ Remember(c, "user")
    /\ UNCHANGED <<governorVars, ms, logVars, vectorMemories, semanticFacts, recordVars, lifeVars>>

HasInput(s) == \E i \in DOMAIN signals[s] : signals[s][i].type = "INPUT_RECEIVED"

\* The context of a call is what is ranked best and what the session has said; its input is appended
\* unless the session has one.
AppendInput(s, c) == IF HasInput(s) THEN signals[s] ELSE Append(signals[s], Signal("INPUT_RECEIVED", c))

Ask(c) ==
    /\ processing[c].pc = "ranking"
    /\ LET s == processing[c].session
           ranked == RetrieveRankedMemories(c)
           said == SelectSeq(flashMemories, LAMBDA m : m.session = s)
           context == [i \in DOMAIN ranked |-> ranked[i].of] \o [i \in DOMAIN said |-> said[i].of]
       IN  /\ processing' = [processing EXCEPT
                  ![c].pc = "waiting", ![c].cursor = Len(signals[s]),
                  ![c].context = SubSeq(context, 1, IF Len(context) < 8 THEN Len(context) ELSE 8)]
           /\ signals' = [signals EXCEPT ![s] = AppendInput(s, c)]
    /\ UNCHANGED <<governorVars, ms, atWork, memoryVars, recordVars, lifeVars>>

Input(s) == signals[s][SelectInSeq(signals[s], LAMBDA m : m.type = "INPUT_RECEIVED")].of

\* What run n of a session appends: its steps, its evaluation and what is to be answered; or only
\* the failure of the loop.
Outcomes(s, run, n) ==
    [i \in DOMAIN run.steps |-> Outcome("STEP", run.steps[i], n)]
    \o IF run.result = None THEN <<>>
       ELSE <<Outcome("EVALUATION_COMPLETE", run.result, n), Outcome("OUTPUT_READY", Input(s), n)>>

\* The cortex works on the input of a session, once more for every tick that read it before the
\* cursor had moved; its requests to the model may degrade.
Work(s, run, errors) ==
    /\ alive /\ HasInput(s) /\ Len(atWork[s]) < MaxRuns
    /\ atWork' = [atWork EXCEPT ![s] = Append(@, Outcomes(s, run, Len(@) + 1))]
    /\ IF errors = 0 THEN UNCHANGED governorVars
       ELSE total + errors <= MaxErrors /\ RecordGovernorErrors(errors)
    /\ UNCHANGED <<ms, processing, signals, memoryVars, recordVars, lifeVars>>

\* The next outcome of a run is appended; or it and the rest are lost, because the tick has kept no
\* more, the loop is over its budget, or the append fails.
Emit(s, n) ==
    /\ alive /\ n \in DOMAIN atWork[s] /\ atWork[s][n] # <<>>
    /\ \/ /\ signals' = [signals EXCEPT ![s] = Append(@, Head(atWork[s][n]))]
          /\ atWork' = [atWork EXCEPT ![s][n] = Tail(@)]
       \/ atWork' = [atWork EXCEPT ![s][n] = <<>>] /\ UNCHANGED signals
    /\ UNCHANGED <<governorVars, ms, processing, memoryVars, recordVars, lifeVars>>

OfType(s, type) == SelectSeq(s, LAMBDA m : m.type = type)
OfRun(s, n) == SelectSeq(s, LAMBDA m : m.run = n)

\* The output loop publishes every output once, a tick later.
Publish(s, n) ==
    /\ alive /\ OfType(OfRun(signals[s], n), "OUTPUT_READY") # <<>>
    /\ OfType(OfRun(signals[s], n), "OUTPUT_SENT") = <<>>
    /\ signals' = [signals EXCEPT ![s] = Append(@, Outcome("OUTPUT_SENT", None, n))]
    /\ UNCHANGED <<governorVars, ms, processing, atWork, memoryVars, recordVars, lifeVars>>

Since(c) == SubSeq(signals[processing[c].session], processing[c].cursor + 1, Len(signals[processing[c].session]))

\* The last output that is ready, once any is sent; or five seconds are over.
WaitForOutputSignal(c) ==
    /\ processing[c].pc = "waiting"
    /\ LET ready == OfType(Since(c), "OUTPUT_READY")
       IN  \/ /\ ready # <<>> /\ OfType(Since(c), "OUTPUT_SENT") # <<>>
              /\ processing' = [processing EXCEPT ![c].pc = "summary",
                                    ![c].response = [of |-> Last(ready).of, run |-> Last(ready).run]]
           \/ Goto(c, "summary")
    /\ UNCHANGED <<governorVars, ms, logVars, memoryVars, recordVars, lifeVars>>

\* What the signals say is read once: the last evaluation, and the steps of all runs. What has not
\* been judged counts as a success.
CollectRunSummary(c) ==
    /\ processing[c].pc = "summary"
    /\ LET results == OfType(Since(c), "EVALUATION_COMPLETE")
           result == IF results = <<>> THEN "partial" ELSE Last(results).of
           steps == OfType(Since(c), "STEP")
       IN  /\ processing' = [processing EXCEPT ![c].pc = "loading", ![c].result = result,
                                ![c].steps = [i \in DOMAIN steps |-> steps[i].of]]
           /\ IF result = "failure" THEN RecordGovernorErrors(1) ELSE RecordGovernorSuccess
    /\ UNCHANGED <<ms, logVars, memoryVars, recordVars, lifeVars>>

LoadWorld(c) ==
    /\ processing[c].pc = "loading"
    /\ processing' = [processing EXCEPT ![c].pc = "manifest",
                                        ![c].before = LoadSessionWorldState(processing[c].session)]
    /\ UNCHANGED <<governorVars, ms, logVars, memoryVars, recordVars, lifeVars>>

Manifest(c, after, diffs, edges) ==
    [call |-> c, response |-> processing[c].response, result |-> processing[c].result,
     steps |-> processing[c].steps, before |-> processing[c].before, after |-> after, diffs |-> diffs,
     edges |-> edges, mode |-> governor.mode]

FirstManifest(c) ==
    /\ processing[c].pc = "manifest"
    /\ manifests' = [manifests EXCEPT ![processing[c].session] = Manifest(c, processing[c].before, <<>>, <<>>)]
    /\ Goto(c, "answer")
    /\ UNCHANGED <<governorVars, ms, logVars, memoryVars, worldStates, lifeVars>>

RememberAnswer(c) ==
    /\ processing[c].pc = "answer"
    /\ Goto(c, "embedding")
    /\ Remember(c, "assistant")
    /\ UNCHANGED <<governorVars, ms, logVars, vectorMemories, semanticFacts, recordVars, lifeVars>>

\* The input becomes a memory, and what its steps have found a fact.
EmbedInput(c) ==
    /\ processing[c].pc = "embedding"
    /\ vectorMemories' = AddVector(c)
    /\ semanticFacts' = semanticFacts \union
           {step.output : step \in {x \in Range(processing[c].steps) : x.status = "executed" /\ x.output # None}}
    /\ Goto(c, "saving")
    /\ UNCHANGED <<governorVars, ms, logVars, flashMemories, recordVars, lifeVars>>

\* The embedding fails, when memories are ranked or when the input becomes one: so does the call.
EmbedFails(c) ==
    /\ processing[c].pc \in {"ranking", "embedding"}
    /\ Goto(c, "rejected")
    /\ UNCHANGED <<governorVars, ms, logVars, memoryVars, recordVars, lifeVars>>

Diffs(c) == BuildWorldStateDiffs(processing[c].steps)
After(c) == ApplyWorldStateDiffs(processing[c].before, Diffs(c))

SaveSessionWorldState(c) ==
    /\ processing[c].pc = "saving"
    /\ worldStates' = [worldStates EXCEPT ![processing[c].session] = After(c)]
    /\ Goto(c, "reporting")
    /\ UNCHANGED <<governorVars, ms, logVars, memoryVars, manifests, lifeVars>>

\* A signal for each difference and one for each contradiction.
Report(c) ==
    /\ processing[c].pc = "reporting"
    /\ LET contradictions == DetectContradictions(processing[c].before, Diffs(c))
       IN  signals' = [signals EXCEPT ![processing[c].session] =
               @ \o [i \in DOMAIN Diffs(c) |-> Signal("BELIEF_UPDATED", Diffs(c)[i].value)]
                 \o [i \in DOMAIN contradictions |-> Signal("PREDICTION_MISMATCH", contradictions[i].step)]]
    /\ Goto(c, "final")
    /\ UNCHANGED <<governorVars, ms, atWork, memoryVars, recordVars, lifeVars>>

FinalManifest(c) ==
    /\ processing[c].pc = "final"
    /\ manifests' = [manifests EXCEPT ![processing[c].session] =
           Manifest(c, After(c), Diffs(c),
                    CausalEdges(processing[c].steps, DetectContradictions(processing[c].before, Diffs(c))))]
    /\ Goto(c, "done")
    /\ UNCHANGED <<governorVars, ms, logVars, memoryVars, worldStates, lifeVars>>

\* A millisecond, or a crash that may cut the write of a file.
NextMs ==
    /\ ms < MaxTime /\ ms' = ms + 1
    /\ UNCHANGED <<governorVars, processing, logVars, memoryVars, recordVars, lifeVars>>

CutOff(file, pcs) ==
    LET open == {processing[c].session : c \in {x \in Call : processing[x].pc \in pcs}}
    IN  \E torn \in SUBSET open : file' = [s \in Sessions |-> IF s \in torn THEN Torn ELSE file[s]]

Crash ==
    /\ alive /\ cuts < MaxCrashes
    /\ alive' = FALSE /\ cuts' = cuts + 1
    /\ CutOff(worldStates, {"saving"}) /\ CutOff(manifests, {"manifest", "final"})
    /\ processing' = [c \in Call |-> IF processing[c].pc \in {"idle", "done", "rejected"} THEN processing[c]
                                     ELSE [processing[c] EXCEPT !.pc = "cut"]]
    /\ UNCHANGED <<governorVars, ms, logVars, memoryVars>>

FacadeInit ==
    /\ GovernorInit
    /\ ms = 0 /\ processing = [c \in Call |-> NewCall]
    /\ signals = [s \in Sessions |-> <<>>] /\ atWork = [s \in Sessions |-> <<>>]
    /\ flashMemories = <<>> /\ semanticFacts = {}
    /\ vectorMemories = [i \in DOMAIN Archive |-> [of |-> Archive[i].of, days |-> Archive[i].days, key |-> None]]
    /\ worldStates = [s \in Sessions |-> None] /\ manifests = [s \in Sessions |-> None]
    /\ alive = TRUE /\ cuts = 0

FacadeNext ==
    \/ \E c \in Call :
          \/ Begin(c) \/ RememberInput(c) \/ Ask(c) \/ WaitForOutputSignal(c) \/ CollectRunSummary(c)
          \/ LoadWorld(c) \/ FirstManifest(c) \/ RememberAnswer(c) \/ EmbedInput(c) \/ EmbedFails(c)
          \/ SaveSessionWorldState(c) \/ Report(c) \/ FinalManifest(c)
    \/ \E s \in Sessions :
          \/ \E run \in Runs, errors \in 0 .. 2 : Work(s, run, errors)
          \/ \E n \in 1 .. MaxRuns : Emit(s, n) \/ Publish(s, n)
    \/ NextMs \/ Crash
------------------------------------------------------------------------------
FacadeTypeOK ==
    /\ GovernorTypeOK
    /\ \A c \in Call : processing[c].pc # "idle" => processing[c].session \in Sessions

Unshared(c) == \A d \in Call \ {c} : processing[d].session # processing[c].session

Mentions(s, type, of) == \E i \in DOMAIN signals[s] : signals[s][i].type = type /\ signals[s][i].of = of

\* What a call is answered was made of an input of its session, its own unless it shares the session
\* with another; of the inputs of one millisecond only the first reaches the loops; and if they
\* worked on it once, the answer was published. (With several runs another one's may have been.)
\* (processInput, waitForOutputSignal)
AnswersAreOwn ==
    /\ \A c \in Call : processing[c].response # None =>
          LET s == processing[c].session
              answer == processing[c].response
          IN  /\ processing[answer.of].session = s
              /\ Unshared(c) => answer.of = c
              /\ \E m \in Range(OfType(signals[s], "OUTPUT_SENT")) : Len(atWork[s]) = 1 => m.run = answer.run
    /\ \A s \in Sessions : Len(OfType(signals[s], "INPUT_RECEIVED")) <= 1

\* However runs and calls alternate, the manifest of a call that was answered tells of each step of
\* the run that the answer is of, and its result is that of a run whose steps it all tells; of
\* several runs it may not be the same. Once the call is done, the facts and the goals that followed
\* from what it tells are in the world, and the contradictions among them are signalled.
\* (collectRunSummary, writeRunManifest, saveSessionWorldState)
RecordsAgree ==
    \A s \in Sessions : manifests[s] \notin {None, Torn} /\ Unshared(manifests[s].call) =>
        LET m == manifests[s]
            steps == OfType(signals[s], "STEP")
            told(n) == \A i \in DOMAIN steps : steps[i].run = n => i <= Len(m.steps)
        IN  /\ \A i \in DOMAIN m.steps : m.steps[i] = steps[i].of
            /\ m.response # None =>
                  /\ told(m.response.run)
                  /\ \E e \in Range(OfType(signals[s], "EVALUATION_COMPLETE")) : e.of = m.result /\ told(e.run)
            /\ m.diffs # <<>> => worldStates[s] = m.after
            /\ processing[m.call].pc = "done" =>
                  /\ \A i \in DOMAIN m.steps :
                        LET step == m.steps[i]
                        IN  IF step.status = "executed" THEN step.output # None => step.output \in Range(m.after.facts)
                            ELSE <<"recover", step.id>> \in Range(m.after.openGoals)
                  /\ \A f \in Range(m.after.facts) \intersect DOMAIN Opposite :
                        Opposite[f] \in Range(m.after.facts) => OfType(signals[s], "PREDICTION_MISMATCH") # <<>>
                  /\ \A i \in DOMAIN m.edges :
                        m.edges[i].contradicted => Mentions(s, "PREDICTION_MISMATCH", m.edges[i].step)

\* A fact that a call has saved is lost only to another call of the same millisecond, which has
\* loaded the world without it. A call that is rejected because the embedding fails has not half
\* recorded what its run has done: its manifest and the world know of no change, and nothing of it
\* became a memory. (processInput, loadSessionWorldState, saveSessionWorldState)
ChangesAreKept ==
    \A c \in Call :
        LET s == processing[c].session
            saved(d) == processing[d].pc \in {"reporting", "final", "done"}
        IN  /\ saved(c) /\ worldStates[s] # Torn =>
                  \A f \in Range(After(c).facts) :
                      \/ f \in Range(worldStates[s].facts)
                      \/ \E d \in Call \ {c} : /\ processing[d].session = s /\ saved(d)
                                              /\ f \notin Range(processing[d].before.facts)
            /\ processing[c].pc = "rejected" /\ Unshared(c) =>
                  /\ worldStates[s] = None /\ (manifests[s] # None => manifests[s].diffs = <<>>)
                  /\ OfType(signals[s], "BELIEF_UPDATED") = <<>>
                  /\ \A i \in DOMAIN vectorMemories : vectorMemories[i].of # c

\* Who is done has left both sides of the conversation, in their order, and a memory for later
\* unless another call was embedded in the same millisecond. (addFlashEntry, vectorStore.add)
ConversationIsKept ==
    \A c \in Call : processing[c].pc = "done" =>
        LET said == SelectSeq(flashMemories, LAMBDA m : m.of = c)
        IN  /\ [i \in DOMAIN said |-> said[i].speaker] = <<"user", "assistant">>
            /\ \/ \E i \in DOMAIN vectorMemories : vectorMemories[i].of = c
               \/ \E d \in Call \ {c}, i \in DOMAIN vectorMemories : vectorMemories[i].of = d

\* Of two memories alike, of which the older one says the contrary, that one is never preferred.
\* (retrieveRankedMemories)
ContextIsRanked ==
    \A c \in Call, i, j \in DOMAIN Archive :
        /\ processing[c].context # <<>>
        /\ Similarity[<<c, Archive[i].of>>] = Similarity[<<c, Archive[j].of>>]
        /\ Archive[i].days >= Archive[j].days
        /\ Against[<<c, Archive[i].of>>] /\ ~Against[<<c, Archive[j].of>>]
        /\ Archive[i].of \in Range(processing[c].context)
        => Archive[j].of \in Range(processing[c].context)

RunsAreOnRecord ==
    ChangesAreKept /\ FacadeTypeOK /\ GovernorIsSound /\ AnswersAreOwn /\ RecordsAgree /\ ConversationIsKept /\ ContextIsRanked
===============================================================================
