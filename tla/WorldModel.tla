----------------------------- MODULE WorldModel -----------------------------
(***************************************************************************)
(* The beliefs of a session and the predictions about the steps of a plan  *)
(* (src/src/neuronwaves-v2/world-model): every change makes a new version  *)
(* of the graph of beliefs, a bounded number of versions is remembered,    *)
(* and a version may be written to a file of its own. A prediction is      *)
(* compared with what was observed of its step.                            *)
(***************************************************************************)
EXTENDS Naturals, Sequences, SequencesExt, FiniteSets

CONSTANTS
    Claim,        \* what a belief may state
    Denials,      \* <<c, d>>: d is c with a negation
    Clashes,      \* <<c, d>>: c and d give something different numbers
    Confidence,
    Stage,        \* steps that predictions are about
    Outcome,      \* what may be expected and observed: [value, changes], changes a function of paths
    Torn, None,
    MaxVersions,  \* versions of the graph that are remembered
    MaxChanges, MaxPredictions, MaxClears  \* bounds

VARIABLES
    graph,        \* [version, beliefs, contradictions]; a belief: [id, claim, confidence, retired, version]
    versions,     \* the remembered versions of the graph, the newest last
    epoch,        \* how often the session was cleared
    file,         \* file[v]: [graph, epoch] written as version v, Torn or None
    writer,       \* [pc, graph, epoch]: the writing of a version
    predictions,  \* [step, expected]; a cleared one is None
    outcome,      \* outcome[s]: what was observed of step s, or None
    observed,     \* history: observed[s]: the number of the first prediction after outcome[s] was recorded,
                  \* 0 when nothing was recorded since step s was cleared
    careless      \* history: steps predicted again without a call of clearStep()

vars == <<graph, versions, epoch, file, writer, predictions, outcome, observed, careless>>
graphVars == <<graph, versions, epoch>>
fileVars == <<file, writer>>
predictionVars == <<predictions, outcome, observed, careless>>

\* createEmptyGraph()
EmptyGraph == [version |-> 1, beliefs |-> <<>>, contradictions |-> {}]
Idle == [pc |-> "idle", graph |-> EmptyGraph, epoch |-> 0]

Init ==
    /\ graph = EmptyGraph /\ versions = <<EmptyGraph>> /\ epoch = 0
    /\ file = [v \in 1..MaxChanges + 1 |-> None] /\ writer = Idle
    /\ predictions = <<>> /\ careless = {}
    /\ outcome = [s \in Stage |-> None] /\ observed = [s \in Stage |-> 0]

(***************************************************************************)
(* Beliefs.                                                                *)
(***************************************************************************)

\* updateGraph(): a new version; when there are too many, the oldest is forgotten.
Remembered(history) == IF Len(history) > MaxVersions THEN Tail(history) ELSE history
Update(g) ==
    /\ graph.version <= MaxChanges
    /\ graph' = [g EXCEPT !.version = @ + 1]
    /\ versions' = Remembered(Append(versions, graph'))
    /\ UNCHANGED <<epoch, fileVars, predictionVars>>

\* areContradictory(): a statement that was retired is no longer denied by a new one, but a
\* denial or a number that was retired still contradicts.
Contradictory(new, old) ==
    \/ <<new, old.claim>> \in Denials \cup Clashes
    \/ <<old.claim, new>> \in Denials /\ ~old.retired

FindContradictions(claim, id) ==
    {<<id, graph.beliefs[k].id>> : k \in {i \in DOMAIN graph.beliefs : Contradictory(claim, graph.beliefs[i])}}

\* addBelief(): the id has no part that tells two beliefs of the same millisecond apart.
NextIds == IF graph.beliefs = <<>> THEN {1} ELSE {Last(graph.beliefs).id, Last(graph.beliefs).id + 1}
AddBelief ==
    \E claim \in Claim, confidence \in Confidence, id \in NextIds :
        Update([graph EXCEPT
            !.beliefs = Append(@, [id |-> id, claim |-> claim, confidence |-> confidence, retired |-> FALSE,
                                   version |-> 1]),
            !.contradictions = @ \cup FindContradictions(claim, id)])

\* The first belief with an id.
IndexOf(id) == SelectInSeq(graph.beliefs, LAMBDA b : b.id = id)

\* updateBeliefConfidence(), of a retired belief too.
UpdateConfidence ==
    \E b \in ToSet(graph.beliefs), confidence \in Confidence :
        Update([graph EXCEPT !.beliefs[IndexOf(b.id)] = [@ EXCEPT !.confidence = confidence, !.version = @ + 1]])

RetireBelief ==
    \E b \in ToSet(graph.beliefs) :
        Update([graph EXCEPT !.beliefs[IndexOf(b.id)] =
                   [@ EXCEPT !.confidence = 0, !.version = @ + 1, !.retired = TRUE]])

\* clearSession()
ClearSession ==
    /\ epoch < MaxClears /\ epoch' = epoch + 1
    /\ graph' = EmptyGraph /\ versions' = <<EmptyGraph>>
    /\ UNCHANGED <<fileVars, predictionVars>>

(***************************************************************************)
(* persistGraph(): the graph of the call is written to the file of its     *)
(* version.                                                                *)
(***************************************************************************)

PersistGraph ==
    /\ writer.pc = "idle"
    /\ writer' = [pc |-> "mkdir", graph |-> graph, epoch |-> epoch]
    /\ UNCHANGED <<graphVars, file, predictionVars>>

OpenFile ==
    /\ writer.pc = "mkdir"
    /\ file' = [file EXCEPT ![writer.graph.version] = Torn]
    /\ writer' = [writer EXCEPT !.pc = "write"]
    /\ UNCHANGED <<graphVars, predictionVars>>

WriteFile ==
    /\ writer.pc = "write"
    /\ file' = [file EXCEPT ![writer.graph.version] = [graph |-> writer.graph, epoch |-> writer.epoch]]
    /\ writer' = Idle
    /\ UNCHANGED <<graphVars, predictionVars>>

\* The process ends and starts again: nothing reads the files, the session starts over.
Restart ==
    /\ epoch < MaxClears /\ epoch' = epoch + 1
    /\ graph' = EmptyGraph /\ versions' = <<EmptyGraph>> /\ writer' = Idle
    /\ predictions' = <<>> /\ careless' = {}
    /\ outcome' = [s \in Stage |-> None] /\ observed' = [s \in Stage |-> 0]
    /\ UNCHANGED file

(***************************************************************************)
(* Predictions.                                                            *)
(***************************************************************************)

CreatePrediction ==
    /\ Len(predictions) < MaxPredictions
    /\ \E s \in Stage, o \in Outcome :
        /\ predictions' = Append(predictions, [step |-> s, expected |-> o])
        /\ careless' = IF observed[s] # 0 THEN careless \cup {s} ELSE careless
    /\ UNCHANGED <<graphVars, fileVars, outcome, observed>>

RecordOutcome ==
    /\ \E s \in Stage, o \in Outcome :
        /\ outcome' = [outcome EXCEPT ![s] = o]
        /\ observed' = [observed EXCEPT ![s] = Len(predictions) + 1]
    /\ UNCHANGED <<graphVars, fileVars, predictions, careless>>

Without(s) == [i \in DOMAIN predictions |->
                  IF predictions[i] # None /\ predictions[i].step = s THEN None ELSE predictions[i]]

ClearStep(s) ==
    /\ predictions' = Without(s)
    /\ outcome' = [outcome EXCEPT ![s] = None]
    /\ careless' = careless \ {s} /\ observed' = [observed EXCEPT ![s] = 0]
    /\ UNCHANGED <<graphVars, fileVars>>

\* checkPrediction(): what differs between what was expected and what was observed.
Mismatches(p) ==
    LET o == outcome[p.step]
        paths == DOMAIN p.expected.changes
    IN IF o = None THEN {"nothing observed"}
       ELSE {m \in {"outcome", "missing", "transition"} :
                CASE m = "outcome" -> p.expected.value # o.value
                  [] m = "missing" -> ~(paths \subseteq DOMAIN o.changes)
                  [] m = "transition" ->
                        \E k \in paths \cap DOMAIN o.changes : p.expected.changes[k] # o.changes[k]}

\* generateHypothesis() looks for words in lower case in texts that begin with a capital, so the
\* mismatches of outcome and transition suggest nothing of their own.
Hypotheses(mismatches) ==
    {"refine the model", "too confident"}
    \cup (IF "nothing observed" \in mismatches THEN {"outcome incorrect", "external factors"} ELSE {})
    \cup (IF "missing" \in mismatches THEN {"changes unforeseen"} ELSE {})

\* proposeExperiment()
Experiment(hypothesis) == IF hypothesis = "outcome incorrect" THEN "read_only" ELSE "small_step"

Next ==
    \/ AddBelief \/ UpdateConfidence \/ RetireBelief \/ ClearSession
    \/ PersistGraph \/ OpenFile \/ WriteFile \/ Restart
    \/ CreatePrediction \/ RecordOutcome \/ \E s \in Stage : ClearStep(s)

Spec == Init /\ [][Next]_vars

(***************************************************************************)
(* Properties.                                                             *)
(***************************************************************************)

TypeOK ==
    /\ graph.version \in 1..MaxChanges + 1 /\ epoch \in 0..MaxClears
    /\ \A b \in ToSet(graph.beliefs) : b.claim \in Claim /\ b.confidence \in Confidence \cup {0}
    /\ writer.pc \in {"idle", "mkdir", "write"}
    /\ \A s \in Stage : outcome[s] \in Outcome \cup {None}

\* What the graph says against itself is on record, and nothing else is.
ContradictionsAreKnown ==
    LET b == graph.beliefs
        Against(c, d) == <<c, d>> \in Denials \cup Clashes \/ <<d, c>> \in Denials
    IN /\ \A i, j \in DOMAIN b :
            i < j /\ ~b[i].retired /\ ~b[j].retired /\ Against(b[j].claim, b[i].claim) =>
                <<b[j].id, b[i].id>> \in graph.contradictions
       /\ \A pair \in graph.contradictions : \E i, j \in DOMAIN b :
            i < j /\ b[j].id = pair[1] /\ b[i].id = pair[2] /\ Against(b[j].claim, b[i].claim)

\* A version that is remembered, or in a file of this session, is what the graph was then: two
\* versions of the graph with the same version of a belief agree about that belief.
VersionsAreFaithful ==
    LET remembered == ToSet(versions)
        written == {file[v].graph : v \in {w \in DOMAIN file : file[w] \notin {Torn, None} /\ file[w].epoch = epoch}}
    IN /\ Last(versions) = graph /\ Len(versions) <= MaxVersions
       /\ \A v \in DOMAIN file : file[v] \notin {Torn, None} => file[v].graph.version = v
       /\ \A i \in DOMAIN versions : versions[i].version = graph.version - Len(versions) + i
       /\ \A g, h \in remembered \cup written :
            /\ g.version = h.version => g = h
            /\ g.version < h.version =>
                \A i \in DOMAIN g.beliefs :
                    /\ i \in DOMAIN h.beliefs /\ g.beliefs[i].version <= h.beliefs[i].version
                    /\ g.beliefs[i].version = h.beliefs[i].version => g.beliefs[i] = h.beliefs[i]

\* A prediction is compared with an outcome that was observed after it was made, if steps are
\* cleared before they are predicted again; and what was observed as expected is no mismatch.
PredictionsAreTested ==
    \A i \in DOMAIN predictions :
        predictions[i] # None =>
            LET p == predictions[i] IN
            /\ p.step \notin careless /\ outcome[p.step] # None => i < observed[p.step]
            /\ outcome[p.step] = p.expected => Mismatches(p) = {}
            /\ "nothing observed" \notin Mismatches(p) =>
                \A h \in Hypotheses(Mismatches(p)) : Experiment(h) # "read_only"

WorldIsConsistent == ContradictionsAreKnown /\ VersionsAreFaithful /\ PredictionsAreTested
=============================================================================
