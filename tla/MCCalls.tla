------------------------------- MODULE MCCalls -------------------------------
(***************************************************************************)
(* A call and what it stands on: the ticks that work on its input          *)
(* (TickScheduler), what the runtime puts on record (RuntimeFacade), the   *)
(* governor it reports to (RuntimeGovernor), its language model            *)
(* (LanguageModel) and its vectors (VectorStore). The families share no    *)
(* state; a behaviour is about one of them.                                *)
(***************************************************************************)
EXTENDS TickScheduler

VARIABLES family,
    governor, streak, total, upgrades,
    provider, request, http, embeddings, asked,
    ms, processing, logs, atWork, flashMemories, vectorMemories, semanticFacts, worldStates, manifests,
    alive, outages,
    dimension, vectors, persistScheduled, writers, vectorFile, tempFiles, running, changes, losses, overtaken

CONSTANTS Torn, a1, a2, old, contrary, other

------------------------------------------------------------------------------
(* Instances *)

Governor == INSTANCE RuntimeGovernor
MaxErrors == 7
MaxStreak == 6

\* A short text, one as long as may be, and two of the same beginning that are too long.
Lengths == [t \in {"s", "p", "l", "k"} |-> CASE t = "s" -> 1 [] t = "p" -> 4 [] OTHER -> 6]

Model == INSTANCE LanguageModel WITH
    Caller <- {a1, a2}, Length <- Lengths,
    Prefix <- [t \in DOMAIN Lengths |-> IF Lengths[t] > 4 THEN "p" ELSE t],
    Hash <- [t \in DOMAIN Lengths |-> IF t \in {"s", "k"} THEN 1 ELSE 2],
    Contexts <- {<<>>, <<"l", "p", "s">>, <<"s", "p">>}, Batches <- {<<"l", "s">>},
    Tokens <- {4096}, MaxPromptChars <- 4, MaxContextChars <- 4, MaxInputTokens <- 1, CacheSize <- 1,
    MaxAsked <- 2

Executed(id, result, experiment) ==
    [id |-> id, status |-> "executed", output |-> result, experiment |-> experiment]
Failed(id, result) == [id |-> id, status |-> "failed", output |-> result, experiment |-> FALSE]
Yes == <<"p">>
No == <<"not", "p">>
Contradiction == [steps |-> <<Executed("1", Yes, TRUE), Executed("2", No, FALSE)>>, result |-> "success"]
Failure == [steps |-> <<Executed("1", Yes, FALSE), Failed("2", <<"e">>)>>, result |-> "failure"]
Denial == [steps |-> <<Executed("1", No, FALSE)>>, result |-> "success"]
SomeRuns == {Contradiction, Failure,
             [steps |-> <<Executed("1", None, FALSE), Failed("2", None)>>, result |-> "partial"],
             [steps |-> <<Failed("v1-loop", <<"e">>)>>, result |-> None]}
Texts == {a1, a2, old, contrary, other}
Likeness == [t \in Texts \X Texts |-> IF t[2] \in {old, contrary} THEN 1 ELSE 0]
Denials == [t \in Texts \X Texts |-> t[2] = contrary]
Memories == <<[of |-> contrary, days |-> 9], [of |-> old, days |-> 1], [of |-> other, days |-> 0]>>

\* One call, with every run, degradations of the model and a crash ...
OneCall == INSTANCE RuntimeFacade WITH
    Call <- {a1}, Runs <- SomeRuns, Opposite <- [f \in {Yes, No} |-> IF f = Yes THEN No ELSE Yes],
    Similarity <- Likeness, Against <- Denials, Archive <- Memories, MaxRanked <- 1,
    MaxRuns <- 1, MaxTime <- 1, MaxErrors <- 4, MaxCrashes <- 1, signals <- logs, cuts <- outages

\* ... one whose input is worked on by two ticks at once ...
TwoRuns == INSTANCE RuntimeFacade WITH
    Call <- {a1}, Runs <- {Denial, Failure}, Opposite <- [f \in {Yes, No} |-> IF f = Yes THEN No ELSE Yes],
    Similarity <- Likeness, Against <- Denials, Archive <- Memories, MaxRanked <- 1,
    MaxRuns <- 2, MaxTime <- 0, MaxErrors <- 0, MaxCrashes <- 0, signals <- logs, cuts <- outages

\* ... and two in the same millisecond. (In these two no embedding fails.)
TwoCalls == INSTANCE RuntimeFacade WITH
    Call <- {a1, a2}, Runs <- {Denial}, Opposite <- [f \in {Yes, No} |-> IF f = Yes THEN No ELSE Yes],
    Similarity <- Likeness, Against <- Denials, Archive <- Memories, MaxRanked <- 1,
    MaxRuns <- 1, MaxTime <- 0, MaxErrors <- 0, MaxCrashes <- 0, signals <- logs, cuts <- outages

Vectors == INSTANCE VectorStore WITH
    Id <- {1, 2}, Vector <- {"x", "y", "z"}, Note <- {a1},
    DimensionOf <- [v \in {"x", "y", "z"} |-> IF v = "z" THEN 2 ELSE 1],
    Similarity <- [p \in {"x", "y", "z"} \X {"x", "y", "z"} |-> IF p[1] = p[2] THEN 9 ELSE 4],
    Dimensions <- {1, 2}, Writer <- {a1, a2}, MaxChanges <- 3, MaxCrashes <- 1,
    crashes <- losses, mixed <- overtaken

------------------------------------------------------------------------------
(* The suite *)

governorVars == <<governor, streak, total, upgrades>>
modelVars == <<provider, request, http, embeddings, asked>>
facadeVars == <<ms, processing, logs, atWork, flashMemories, vectorMemories, semanticFacts, worldStates,
                manifests, alive, outages>>
storeVars == <<dimension, vectors, persistScheduled, writers, vectorFile, tempFiles, running, changes,
               losses, overtaken>>
callVars == <<governorVars, modelVars, facadeVars, storeVars>>
suiteVars == <<family, vars, callVars>>

SuiteInit ==
    /\ family \in {"tick", "governor", "model", "input", "runs", "inputs", "vectors"}
    /\ Init /\ (family # "tick" => faulty = FALSE /\ steps = 0)
    /\ Model!ModelInit /\ (family # "model" => provider = [name |-> "ollama", fallback |-> TRUE])
    /\ IF family \in {"input", "runs"} THEN OneCall!FacadeInit ELSE TwoCalls!FacadeInit
    /\ Vectors!VectorInit /\ (family # "vectors" => dimension = 1)

CallNext ==
    \/ /\ family = "governor" /\ Governor!GovernorNext /\ total' <= MaxErrors /\ streak' <= MaxStreak
       /\ UNCHANGED <<modelVars, facadeVars, storeVars>>
    \/ family = "model" /\ Model!ModelNext /\ UNCHANGED <<facadeVars, storeVars>>
    \/ family = "input" /\ OneCall!FacadeNext /\ UNCHANGED <<modelVars, storeVars>>
    \/ /\ \/ family = "runs" /\ TwoRuns!FacadeNext
          \/ family = "inputs" /\ TwoCalls!FacadeNext
       /\ UNCHANGED <<modelVars, storeVars>>
       /\ \A c \in DOMAIN processing : processing'[c].pc # "rejected"
    \/ family = "vectors" /\ Vectors!VectorNext /\ UNCHANGED <<governorVars, modelVars, facadeVars>>

SuiteNext ==
    /\ UNCHANGED family
    /\ \/ family = "tick" /\ Next /\ UNCHANGED callVars
       \/ CallNext /\ UNCHANGED vars
       \/ family # "tick" /\ UNCHANGED suiteVars

\* The ticks are scheduled fairly; in the other families nothing has to happen,
\* and a step that changes nothing keeps their end from being a deadlock.
SuiteSpec == SuiteInit /\ [][SuiteNext]_suiteVars /\ Fairness

\* What a run did is on record, and once: no echo of an input is worked on again, and no caller is
\* answered with what was not published, whichever calls share its session, its model and its memories.
RunsAreOnRecord ==
    CASE family = "tick" -> EchoIsAbsorbed /\ AnswerWasPublished
      [] family = "governor" -> Governor!GovernorTypeOK /\ Governor!GovernorIsSound
      [] family = "model" -> Model!ModelIsReliable
      [] family = "input" -> OneCall!RunsAreOnRecord
      [] family = "runs" -> TwoRuns!RunsAreOnRecord
      [] family = "inputs" -> TwoCalls!RunsAreOnRecord
      [] family = "vectors" -> Vectors!VectorsAreKept
===============================================================================
