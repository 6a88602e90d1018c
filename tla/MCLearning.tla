----------------------------- MODULE MCLearning -----------------------------
(***************************************************************************)
(* What the program learns and the versions it keeps of it: the versions   *)
(* of a resource on disk (VersionedStorage), proposals and their approval  *)
(* (LearningCategories), knowledge from experiences (ContinualLearning),   *)
(* skills from solved tasks (LearningSubstrate), traces and skills of the  *)
(* second version (TransferLearning), its beliefs and predictions          *)
(* (WorldModel), its registries (Abstractions). The families share no      *)
(* state; a behaviour is about one of them.                                *)
(***************************************************************************)
EXTENDS VersionedStorage, LearningCategories

VARIABLES family,
    hour, mind, interactions, mindFile, learner, stale, queries, mindCrashes,
    substrateFile, client, induced, decided, disturbed, operations, cuts,
    index, loaded, indexFile, traceFile, skillFile, active, worker, approved, retired, overlapped, calls, ends,
    graph, versions, epoch, graphFile, writer, predictions, outcome, observed, careless,
    registry, read, registryFile, user, found, reconnaissance, registered, mingled, uses, breaks

CONSTANTS c1, c2, None

\* A resource of every category; the second gap is too large for a fact. A skill with the name of a
\* resource may degrade, and one without.
MCResource == {<<"memory", "m">>, <<"core", "c">>, <<"skills", "s">>, <<"behavior", "b">>}
MCGap == {[terms |-> TRUE, drop |-> 2, about |-> "other"], [terms |-> FALSE, drop |-> 8, about |-> "other"],
          [terms |-> FALSE, drop |-> 6, about |-> "skills"]}
MCSkill == {<<"memory", "m">>, <<"tool", "t">>}

\* The input p is similar to q and to r, which are not similar to each other. Decay takes two
\* steps of the clock.
Mind == INSTANCE ContinualLearning WITH
    Client <- {c1, c2},
    Input <- {"p", "q", "r"},
    Words <- [i \in {"p", "q", "r"} |->
                CASE i = "p" -> <<"a", "b">> [] i = "q" -> <<"c">> [] i = "r" -> <<"b", "d", "e">>],
    Embedding <- [i \in {"p", "q", "r"} |-> CASE i = "p" -> 2 [] i = "q" -> 4 [] i = "r" -> 0],
    Near <- 2, ReplaySize <- 2, SavedSize <- 1, KeptSources <- 6, MinSamples <- 2,
    TrainEvery <- 1, ConsolidateEvery <- 1, DecayPercent <- 45, FrequentUse <- 3, KeptInteractions <- 2,
    MaxTotal <- 3, MaxQueries <- 1, MaxTime <- 3, MaxCrashes <- 1,
    clock <- hour, file <- mindFile, task <- learner, crashes <- mindCrashes

\* The first two tasks have a word in common; the first and the last have a constraint.
Substrate == INSTANCE LearningSubstrate WITH
    Client <- {c1, c2},
    Solved <- {[task |-> "t", domain |-> "d", terms |-> {"x"}, constraints |-> {"k"}],
               [task |-> "u", domain |-> "d", terms |-> {"x", "y"}, constraints |-> {"l"}],
               [task |-> "v", domain |-> "d", terms |-> {"z"}, constraints |-> {"k"}]},
    MaxOperations <- 3, MaxCrashes <- 1,
    file <- substrateFile, crashes <- cuts

\* Two tasks of one signature, one of which fails.
Transfers == INSTANCE TransferLearning WITH
    Client <- {c1, c2},
    Task <- {[signature |-> "s", result |-> "success", concepts |-> {"x"}],
             [signature |-> "s", result |-> "failure", concepts |-> {"y"}]},
    Signature <- {"s"}, Concept <- {"x", "y"},
    MaxTraces <- 2, MinOccurrences <- 1, MinSuccessPercent <- 60, MaxOperations <- 4, MaxCrashes <- 1,
    client <- worker, disturbed <- overlapped, operations <- calls, crashes <- ends

\* A statement, its denial, and a number that may be another ...
Beliefs == INSTANCE WorldModel WITH
    Claim <- {"p", "not p", "5", "7"}, Denials <- {<<"p", "not p">>}, Clashes <- {<<"5", "7">>, <<"7", "5">>},
    Confidence <- {9}, Stage <- {}, Outcome <- {}, MaxVersions <- 3,
    MaxChanges <- 4, MaxPredictions <- 0, MaxClears <- 1, file <- graphFile

\* ... and predictions about two steps; a change that was expected may be missing or different.
Predictions == INSTANCE WorldModel WITH
    Claim <- {}, Denials <- {}, Clashes <- {}, Confidence <- {},
    Stage <- {"s", "t"},
    Outcome <- {[value |-> 1, changes |-> [x \in {} |-> 0]], [value |-> 1, changes |-> [x \in {"k"} |-> 1]],
                [value |-> 2, changes |-> [x \in {"k"} |-> 2]]},
    MaxVersions <- 3, MaxChanges <- 4, MaxPredictions <- 2, MaxClears <- 1, file <- graphFile

PlanStep(class, status, words) ==
    [class |-> class, status |-> status, words |-> words, tool |-> FALSE, justified |-> FALSE]
Registries == INSTANCE Abstractions WITH
    Client <- {c1},
    ConceptItem <- {[name |-> "k", patterns |-> {"p", "q", "r", "s"}, threshold |-> 50]},
    SchemaItem <- {[concept |-> "k", required |-> {"u"}, optional |-> {"v"}]},
    InvariantItem <- {[rule |-> "irreversible", classes |-> {"irreversible"}, concepts |-> {}],
                      [rule |-> "order", classes |-> {}, concepts |-> {"k"}],
                      [rule |-> "concurrent", classes |-> {"irreversible"}, concepts |-> {"k"}]},
    Content <- {{"p"}, {"p", "q", "r", "s", "u"}},
    Plan <- {<<PlanStep("irreversible", "allowed", {"delete", "second"}),
               PlanStep("irreversible", "allowed", {"delete", "first"})>>,
             <<PlanStep("irreversible", "awaiting_approval", {}), PlanStep("local_only", "allowed", {"delete"})>>},
    MaxReconnaissance <- 2, MaxOperations <- 3, MaxCrashes <- 1,
    loaded <- read, file <- registryFile, client <- user, disturbed <- mingled, operations <- uses, crashes <- breaks

storageVars == vars
proposalVars == learningVars
mindVars == <<hour, mind, interactions, mindFile, learner, stale, queries, mindCrashes>>
substrateVars == <<substrateFile, client, induced, decided, disturbed, operations, cuts>>
transferVars == <<index, loaded, indexFile, traceFile, skillFile, active, worker, approved, retired,
                  overlapped, calls, ends>>
worldVars == <<graph, versions, epoch, graphFile, writer, predictions, outcome, observed, careless>>
registryVars == <<registry, read, registryFile, user, found, reconnaissance, registered, mingled, uses, breaks>>
firstVars == <<storageVars, proposalVars, mindVars, substrateVars>>
secondVars == <<transferVars, worldVars, registryVars>>
suiteVars == <<family, firstVars, secondVars>>

SuiteInit ==
    /\ family \in {"storage", "proposals", "degradation", "reset", "mind", "overlapping minds",
                  "substrate", "overlapping substrates", "transfers", "overlapping transfers",
                  "beliefs", "persisted beliefs", "predictions", "registries"}
    /\ Init /\ Mind!Init /\ Substrate!Init /\ Transfers!Init /\ Registries!Init
    /\ IF family = "predictions" THEN Predictions!Init ELSE Beliefs!Init
    /\ LearningInit

\* Two callers propose, approve and reject; a resource degrades; two are reset, to a date or to
\* their beginning.
ProposalsNext ==
    /\ LearningNext /\ UNCHANGED <<storageVars, mindVars, substrateVars>>
    /\ family = "proposals" =>
        /\ clock' = 1 /\ results' = results
        /\ Count' <= 2 /\ Len(state'.rollbacks) <= 1 /\ \A r \in Resource : Len(state'.versions[r]) <= 2
    /\ family # "proposals" => task'[c2].pc = "idle"
    /\ family = "degradation" =>
        clock' = 1 /\ Count' <= 2 /\ \A i \in 1..Count' : state'.proposals[i].resource = <<"memory", "m">>
    /\ family = "reset" =>
        /\ stops' = 0 /\ results' = results
        /\ \A i \in 1..Count' : state'.proposals[i].resource[1] \in {"memory", "core"}

MindNext ==
    /\ Mind!Next /\ UNCHANGED <<storageVars, proposalVars, substrateVars>>
    /\ family = "mind" => learner'[c2].pc = "idle" /\ (mindCrashes' > 0 => mind'.total <= 2)
    /\ family = "overlapping minds" => hour' = hour /\ queries' = 0 /\ mind'.total <= 2

SubstrateNext ==
    /\ Substrate!Next /\ UNCHANGED <<storageVars, proposalVars, mindVars>>
    /\ family = "substrate" => client'[c2].pc = "idle" /\ (cuts' > 0 => operations' <= 2)
    /\ family = "overlapping substrates" =>
        /\ operations' <= 2 /\ cuts' = 0
        /\ \A c \in {c1, c2} : client'[c].pc # "idle" => client'[c].doing = "induce" /\ client'[c].solved.task = "t"

TransferNext ==
    /\ Transfers!Next /\ UNCHANGED <<worldVars, registryVars>>
    /\ family = "transfers" => worker'[c2].pc = "idle"
    /\ family = "overlapping transfers" => calls' <= 3 /\ ends' = 0

WorldNext ==
    /\ UNCHANGED <<transferVars, registryVars>>
    /\ CASE family = "beliefs" -> Beliefs!Next /\ UNCHANGED <<writer, epoch>>
         [] family = "persisted beliefs" -> Beliefs!Next /\ graph'.version <= 3
         [] family = "predictions" -> Predictions!Next /\ UNCHANGED graph

FirstNext ==
    /\ \/ family = "storage" /\ Next /\ UNCHANGED <<proposalVars, mindVars, substrateVars>>
       \/ family \in {"proposals", "degradation", "reset"} /\ ProposalsNext
       \/ family \in {"mind", "overlapping minds"} /\ MindNext
       \/ family \in {"substrate", "overlapping substrates"} /\ SubstrateNext
    /\ UNCHANGED secondVars

SecondNext ==
    /\ \/ family \in {"transfers", "overlapping transfers"} /\ TransferNext
       \/ family \in {"beliefs", "persisted beliefs", "predictions"} /\ WorldNext
       \/ family = "registries" /\ Registries!Next /\ UNCHANGED <<transferVars, worldVars>>
    /\ UNCHANGED firstVars

SuiteNext == UNCHANGED family /\ (FirstNext \/ SecondNext)
SuiteSpec == SuiteInit /\ [][SuiteNext]_suiteVars

\* What was learnt stays known.
KnowledgeIsKept ==
    /\ Mind!TypeOK /\ Mind!KnowledgeIsKept
    /\ Substrate!TypeOK /\ Substrate!SubstrateIsKept /\ Substrate!SkillsAreCoherent

\* What the second version knows is what it was told, on record and approved.
KnowledgeIsSound ==
    /\ Transfers!TypeOK /\ Transfers!TransfersAreSound
    /\ Registries!TypeOK /\ Registries!AbstractionsAreKept
    /\ IF family = "predictions" THEN Predictions!TypeOK /\ Predictions!WorldIsConsistent
       ELSE Beliefs!TypeOK /\ Beliefs!WorldIsConsistent
=============================================================================
