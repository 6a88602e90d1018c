------------------------------- MODULE MCRuntime -------------------------------
(***************************************************************************)
(* What happens around an answer: the plan of the pipeline (ToolPipeline), *)
(* the goals (GoalAutonomy) and the attention (Attention) of the           *)
(* autonomous systems, and what they learn from the model (LearningLoop).  *)
(* The families share no state; a behaviour is about one of them.          *)
(***************************************************************************)
EXTENDS ToolPipeline, Integers

VARIABLES family,
    goals, activeGoalIds, achievements, knowledgeGaps, file, saves, beat, up, batches, beats, crashes,
    overlapped, saved,
    attentionTime, currentFocus, focusQueue, resources, conflicts, requested, inverted, released, inputs,
    monitoring, effectiveness, strategies, outcomes, lastCheck,
    objectives, knowledge, graph, gaps, store, call, review, online, ids, reviews, cuts,
    learned, forgotten, collided

CONSTANTS Torn, a1, a2

------------------------------------------------------------------------------
(* Plans: three nodes of every kind that is treated differently, on every shape *)
(* of dependencies, and longer plans for the cut and the limits.               *)

A(class, target, supported) ==
    [class |-> class, target |-> target, supported |-> supported, dependsOn |-> {}]

Local == A("local_only", "none", FALSE)
Read == A("external_read", "listed", FALSE)
ReadOther == A("external_read", "other", FALSE)
Write == A("external_write", "listed", FALSE)
WriteOther == A("external_write", "other", FALSE)
Delete == A("irreversible", "none", FALSE)
Pay == A("money_movement", "listed", FALSE)
Confirmed == A("experiment", "none", TRUE)
Refuted == A("experiment", "none", FALSE)

\* No dependencies, a chain, a fork, a join,
\* dependencies on two levels, a later node first, a cycle.
Shapes == {<<{}, {}, {}>>, <<{}, {1}, {2}>>, <<{}, {1}, {1}>>, <<{}, {}, {1, 2}>>,
           <<{}, {1}, {1, 2}>>, <<{2, 3}, {}, {}>>, <<{}, {3}, {2}>>}

With(actions, shape) ==
    [n \in DOMAIN actions |-> [actions[n] EXCEPT !.dependsOn = shape[n]]]

Triples == {<<a, b, c>> : a \in {Local, ReadOther, Read, Refuted},
                          b \in {Local, Delete, WriteOther, Confirmed},
                          c \in {Local, Read, Pay}}

MCPlans ==
    {With(actions, shape) : actions \in Triples, shape \in Shapes}
    \cup {<<>>,
          With(<<Read, Read, Read>>, <<{}, {1}, {1}>>),
          With(<<Confirmed, Refuted, Confirmed, Confirmed>>, <<{}, {}, {1, 2}, {3}>>),
          With(<<Local, Delete, Write, Delete>>, <<{}, {}, {2}, {1, 3}>>),
          With(<<Local, WriteOther, Local, Local, Local, Local>>,
               <<{}, {}, {2}, {3}, {4}, {}>>)}

MCConfigs ==
    {[level |-> l, mode |-> m, budget |-> 1, denied |-> d] :
         l \in Level, m \in Mode, d \in {{}, {"listed"}}}

\* The limits of DefaultLimits, scaled down to plans of a few steps.
MCMaxActions == [l \in Level |-> 4]
MCMaxExternal == <<0, 2, 2>>
MCMaxIrreversible == <<0, 1, 1>>

------------------------------------------------------------------------------
(* Instances *)

Proposal(about, type, score, priority) ==
    [about |-> about, type |-> type, score |-> score, priority |-> priority]
Proposals == {Proposal("x", "exploration", 6, 6), Proposal("u", "social", 7, 8), Proposal("c", "skill", 2, 6)}

\* The goals of the runtime, which reports goals as done ...
RuntimeGoals == INSTANCE GoalAutonomy WITH
    Template <- Proposals, GapImpact <- {5, 9}, MaxActive <- 1, Beat <- {a1, a2},
    Reports <- [x \in {"knowledge", "exploration"} |-> 10],
    MaxGoals <- 2, MaxGaps <- 1, MaxBatches <- 2, MaxBeats <- 2, MaxCrashes <- 1

\* ... and of the autonomous system, which reports a little progress.
SystemGoals == INSTANCE GoalAutonomy WITH
    Template <- Proposals, GapImpact <- {5, 9}, MaxActive <- 2, Beat <- {a1, a2},
    Reports <- [x \in {"knowledge", "exploration", "skill"} |-> 3],
    MaxGoals <- 2, MaxGaps <- 1, MaxBatches <- 2, MaxBeats <- 2, MaxCrashes <- 0

Ask(type, target, priority, duration) ==
    [type |-> type, target |-> target, priority |-> priority, duration |-> duration]

\* A priority decays below the threshold of removal after two ticks, at once, or is below it.
Focus == INSTANCE Attention WITH
    Request <- {Ask("goal", "g", 6, 9), Ask("goal", "h", 2, 9), Ask("external", "i", 8, 1), Ask("process", "e", 7, 2)},
    Patience <- [p \in 0 .. 10 |-> IF p < 2 THEN -1 ELSE IF p = 2 THEN 0 ELSE 2],
    MaxConcurrentFocus <- 3, ConflictThreshold <- 6,
    Severity <- [x \in {"resource", "goal"} |-> IF x = "goal" THEN 6 ELSE 7],
    Strategy <- {"s", "t"}, Domain <- {"d", "e"}, FatigueThreshold <- 2, MaxResults <- 2,
    MaxTime <- 2, MaxRequests <- 4, MaxOutcomes <- 3, time <- attentionTime

Relations == [t \in {"a", "b"} |-> IF t = "a" THEN {"b", "c"} ELSE {"c"}]

\* Two calls of learn() and a crash ...
Learns == INSTANCE LearningLoop WITH
    Topic <- {"a", "b"}, Related <- Relations, LearningBatchSize <- 2, MaxExamples <- 1, MaxContent <- 4,
    Learner <- {a1, a2}, Reviewer <- {a1, a2}, MaxObjectives <- 2, MaxKnowledge <- 2, MaxReviews <- 0,
    MaxCrashes <- 1, file <- store, up <- online, crashes <- cuts

\* ... or one, and two of review().
Reviews == INSTANCE LearningLoop WITH
    Topic <- {"a", "b"}, Related <- Relations, LearningBatchSize <- 2, MaxExamples <- 2, MaxContent <- 1,
    Learner <- {a1}, Reviewer <- {a1, a2}, MaxObjectives <- 1, MaxKnowledge <- 3, MaxReviews <- 2,
    MaxCrashes <- 0, file <- store, up <- online, crashes <- cuts

\* What the theorem about LearningLoop assumes.
ASSUME LearningAssumption == Learns!LearningParameters /\ Reviews!LearningParameters

------------------------------------------------------------------------------
(* The suite *)

goalVars == <<goals, activeGoalIds, achievements, knowledgeGaps, file, saves, beat, up, batches, beats,
              crashes, overlapped, saved>>
attentionVars == <<attentionTime, currentFocus, focusQueue, resources, conflicts, requested, inverted,
                   released, inputs, monitoring, effectiveness, strategies, outcomes, lastCheck>>
learningVars == <<objectives, knowledge, graph, gaps, store, call, review, online, ids, reviews, cuts,
                  learned, forgotten, collided>>
suiteVars == <<family, vars, goalVars, attentionVars, learningVars>>

SuiteInit ==
    /\ family \in {"pipeline", "runtime goals", "system goals", "attention", "outcomes", "learn", "review"}
    /\ Init /\ (family # "pipeline" => plan = <<>> /\ config.level = 1 /\ config.mode = "full" /\ config.denied = {})
    /\ RuntimeGoals!Init /\ Focus!Init
    /\ IF family = "review" THEN Reviews!Init ELSE Learns!Init

GoalsNext ==
    \/ family = "runtime goals" /\ RuntimeGoals!Next
    \/ family = "system goals" /\ SystemGoals!Next

\* The outcomes of strategies have nothing to do with the attention.
AttentionNext == Focus!Next /\ (family = "attention" <=> outcomes' = outcomes)

\* The second call of learn() saves nothing when there is nothing to learn, and ends with a crash.
\* Nothing is read back where nothing crashes.
LearningNext ==
    \/ /\ family = "learn" /\ Learns!Next
       /\ call'[a2].at # "idle" => cuts' = 0 /\ (call[a2].at = "idle" => call'[a2].at = "asking")
    \/ /\ family = "review" /\ Reviews!Next
       /\ gaps' = {} /\ store' = store /\ (call[a1].at = "idle" => call'[a1].at # "saving")

SuiteNext ==
    /\ UNCHANGED family
    /\ \/ family = "pipeline" /\ Next /\ UNCHANGED <<goalVars, attentionVars, learningVars>>
       \/ GoalsNext /\ UNCHANGED <<vars, attentionVars, learningVars>>
       \/ /\ family \in {"attention", "outcomes"} /\ AttentionNext
          /\ UNCHANGED <<vars, goalVars, learningVars>>
       \/ LearningNext /\ UNCHANGED <<vars, goalVars, attentionVars>>

SuiteSpec == SuiteInit /\ [][SuiteNext]_suiteVars /\ Fairness

\* Goals, attention and what was learnt agree with what was asked for, however the heartbeats overlap.
AutonomyIsKept ==
    CASE family = "runtime goals" -> RuntimeGoals!TypeOK /\ RuntimeGoals!GoalsAgree
      [] family = "system goals" -> SystemGoals!TypeOK /\ SystemGoals!GoalsAgree
      [] family \in {"attention", "outcomes"} -> Focus!TypeOK /\ Focus!AttentionIsKept
      [] family = "learn" -> Learns!TypeOK /\ Learns!LearningIsKept
      [] family = "review" -> Reviews!TypeOK /\ Reviews!LearningIsKept
      [] OTHER -> TRUE
===============================================================================
