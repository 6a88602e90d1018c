------------------------------- MODULE MCMinds -------------------------------
(***************************************************************************)
(* What the program reads (ExternalRead), thinks with and remembers: the   *)
(* loops beside the answer on the working state (CognitiveLoops), the      *)
(* layers of the memory (CoreMemories), the semantic facts                 *)
(* (SemanticMemory), the error boundary around the background work of the  *)
(* runtime (ErrorBoundary), the drives and the senses of the integrated    *)
(* systems (IntrinsicDrive, SensorimotorLoop), what they make of others    *)
(* (SocialModel) and change of themselves (SelfModifier), and the second   *)
(* runtime (NeuronWavesV2). The families share no state; a behaviour is    *)
(* about one of them.                                                      *)
(***************************************************************************)
EXTENDS ExternalRead, ErrorBoundary

VARIABLES family,
    bus, planned, outside, cursor, tick, state, attempts, revisions, goals, requested, met,
    clock, file, moves, lastCompression, lastConsolidation, added, dropped, searches, coreCrashes, disturbed,
    facts, index, factsFile, indexFile, candidates, saving, up, runs, ids, crashes, cutShort,
    awake, prepared, now, duty, drive, driveFile, collided, unsaved, safe, invoked, breaks,
    loopUp, initialized, loading, found, running, texts, available, cycle, cycles, affordances, stateFile, overlap,
    learnt, submitted, attended, effects, base, since, breakdowns,
    alert, known, inits, reads, hour, agents, patterns, modelFile, keeping, mingled, kept, observed, stated, wanted,
    recorded, events, decays, falls,
    modifying, opened, instant, store, pending, measuring, modifierFile, saves, together, lastSaved, orderly,
    revived, operations, measures, ends,
    v2faulty, life, v2bus, session, v2cursor, ready, submits, submitting, due, queue, v2ticks, v2tick,
    v2state, v2attempts, interrupted, published, records, offered, tooLate, v2met, slow, v2requested

CONSTANTS t1, t2, p1, p2, p3

\* Requests in time, with at most three in four ticks, and to places inside and outside,
\* with patterns of every type.
Site == <<"www", "ex", "com">>
MCUrl == {[host |-> Site, place |-> "public"], [host |-> <<"ex", "org">>, place |-> "public"],
          [host |-> <<"10">>, place |-> "private"]}
MCAllowlists ==
    {{}, {[type |-> "prefixed", labels |-> <<"ex", "com">>]},
     {[type |-> "suffixed", labels |-> <<"ex">>], [type |-> "exact", labels |-> Site]},
     {[type |-> "regex", labels |-> {<<"ex", "org">>}]}}
MCOptions ==
    {[timeout |-> "valid", raw |-> FALSE, extract |-> TRUE, markdown |-> TRUE],
     [timeout |-> "huge", raw |-> FALSE, extract |-> TRUE, markdown |-> FALSE],
     [timeout |-> "negative", raw |-> FALSE, extract |-> FALSE, markdown |-> TRUE],
     [timeout |-> "valid", raw |-> TRUE, extract |-> FALSE, markdown |-> TRUE],
     [timeout |-> "valid", raw |-> FALSE, extract |-> FALSE, markdown |-> TRUE]}

Loops == INSTANCE CognitiveLoops WITH
    Tick <- {t1, t2}, Plan <- {p1, p2, p3},
    Steps <- [p \in {p1, p2, p3} |-> IF p = p1 THEN {"a", "b"} ELSE IF p = p2 THEN {"b"} ELSE {"c"}],
    Class <- [s \in {"a", "b", "c"} |-> IF s = "c" THEN "external_write" ELSE "local_only"],
    Vague <- {p3},
    MaxSecondary <- 1, MaxReplans <- 1, MaxRevisions <- 1, MaxOutside <- 4

\* Two similar memories; hours and weeks shrink to the ticks of a small clock.
Core == INSTANCE CoreMemories WITH
    Memory <- {1, 2}, Word <- [m \in {1, 2} |-> "w"], crashes <- coreCrashes, todo <- moves,
    TwoHours <- 1, TwoDays <- 2, Week <- 0, Month <- 0, CompressEvery <- 0, ConsolidateEvery <- 0,
    MaxFlash <- 1, MaxWarm <- 2, MaxRecent <- 2, MaxTime <- 4, MaxCrashes <- 1, MaxSearches <- 1

Read(id, says) == [id |-> id, status |-> "executed", tool |-> "local_read", says |-> says]
\* The statements share a word, so that a recall by one finds the other.
Semantic == INSTANCE SemanticMemory WITH
    Statement <- {"s", "t", "u"},
    Words <- [s \in {"s", "t", "u"} |-> IF s = "s" THEN {"x", "y"} ELSE {"y"}],
    Run <- {<<Read(1, "s"), Read(2, "t")>>, <<Read(1, "s"), Read(2, "s")>>, <<Read(1, "u")>>,
            <<[Read(1, "u") EXCEPT !.status = "failed"], [Read(2, "t") EXCEPT !.tool = "shell"]>>},
    MaxFacts <- 2, RecallLimit <- 1, MaxRuns <- 4, MaxCrashes <- 2, cut <- cutShort

BoundaryStrategies == {<<"retry", "reset", "skip">>, <<"circuit_break", "escalate">>}

Drive == INSTANCE IntrinsicDrive WITH
    Caller <- {t1, t2}, Topic <- {p1}, Steps <- {4, 6}, MaxTime <- 1, MaxCalls <- 3, MaxCrashes <- 1

\* One cycle after the other, over a restart, with a text that is more salient than the files and one
\* that is not ...
Motor == INSTANCE SensorimotorLoop WITH
    Cycle <- {t1}, Text <- {p1, p2}, Long <- {p2}, SituationOf <- [t \in {p1, p2} |-> t],
    Actuator <- {"api_call"}, Watching <- TRUE, RetryCount <- 1, MaxCycles <- 1, MaxTexts <- 1,
    MaxEffects <- 2, MaxCrashes <- 1, up <- loopUp, queue <- texts

\* ... and cycles that overlap.
Motors == INSTANCE SensorimotorLoop WITH
    Cycle <- {t1, t2}, Text <- {p2}, Long <- {p2}, SituationOf <- [t \in {p1, p2} |-> t],
    Actuator <- {"text_output"}, Watching <- FALSE, RetryCount <- 0, MaxCycles <- 2, MaxTexts <- 2,
    MaxEffects <- 2, MaxCrashes <- 0, up <- loopUp, queue <- texts

\* Messages that say two things, and a plan of two steps.
Social == INSTANCE SocialModel WITH
    Agent <- {"a", "b"}, Situation <- {p1}, Action <- {"read", "analyze"},
    Message <- {[beliefs |-> <<"p">>, goals |-> <<"g", "h">>], [beliefs |-> <<"q", "r">>, goals |-> <<"h">>]},
    PlanNext <- [p \in {<<"read", "analyze">>} |-> "summarize"], Often <- 2,
    Fading <- [age \in 0 .. 1 |-> IF age = 0 THEN 100 ELSE 30],
    MaxBeliefs <- 2, MaxHistory <- 2, MaxTime <- 1, MaxEvents <- 4, MaxDecays <- 2, MaxCrashes <- 1, mixed <- mingled

\* Changes of one property, one after the other ...
Modifier == INSTANCE SelfModifier WITH
    Caller <- {"a"}, Key <- {"k"}, Value <- {1, 2}, Strategies <- <<>>, MaxActive <- 2,
    MaxTime <- 1, MaxOps <- 5, MaxMeasures <- 0, MaxCrashes <- 0,
    active <- modifying, initialized <- opened, ms <- instant, call <- pending, stateFile <- modifierFile,
    saving <- saves, overlapped <- together, ops <- operations, crashes <- ends

\* ... and of two properties, which two strategies change as well, with measurements and a restart.
Modifiers == INSTANCE SelfModifier WITH
    Caller <- {"a", "b"}, Key <- {"k", "l"}, Value <- {1},
    Strategies <- <<[key |-> "k", to |-> 2], [key |-> "l", to |-> 2]>>, MaxActive <- 1,
    MaxTime <- 1, MaxOps <- 3, MaxMeasures <- 1, MaxCrashes <- 1,
    active <- modifying, initialized <- opened, ms <- instant, call <- pending, stateFile <- modifierFile,
    saving <- saves, overlapped <- together, ops <- operations, crashes <- ends

\* The second runtime beside the first, as in the shadow comparison ...
Shadowed == INSTANCE NeuronWavesV2 WITH
    Tick <- {t1, t2}, Enabled <- {"InputLoop", "OutputLoop", "ShadowBridgeLoop"}, External <- {},
    Invalid <- {}, Risky <- {}, InputChain <- "input", Global <- "global",
    MaxReplans <- 1, MaxSecondary <- 1, MaxSignalsOut <- 2,
    MaxTicks <- 2, MaxSubmits <- 2, MaxClears <- 1, FaultChoices <- {FALSE},
    faulty <- v2faulty, bus <- v2bus, cursor <- v2cursor, ticks <- v2ticks, tick <- v2tick,
    state <- v2state, attempts <- v2attempts, met <- v2met, requested <- v2requested

\* ... its outputs, with publishers that may be slow ...
OutputReady(chain, content) == [type |-> "OUTPUT_READY", about |-> [chain |-> chain, content |-> content]]
Outputs == INSTANCE NeuronWavesV2 WITH
    Tick <- {t1, t2}, Enabled <- {"OutputLoop"},
    External <- {OutputReady("c", "x"), OutputReady("d", "x"), [type |-> "CHAIN_PAUSE", about |-> "c"]},
    Invalid <- {}, Risky <- {}, InputChain <- "input", Global <- "global",
    MaxReplans <- 1, MaxSecondary <- 1, MaxSignalsOut <- 2,
    MaxTicks <- 3, MaxSubmits <- 3, MaxClears <- 0, FaultChoices <- {TRUE},
    faulty <- v2faulty, bus <- v2bus, cursor <- v2cursor, ticks <- v2ticks, tick <- v2tick,
    state <- v2state, attempts <- v2attempts, met <- v2met, requested <- v2requested

\* ... and on its own, one tick after the other.
Alone == INSTANCE NeuronWavesV2 WITH
    Tick <- {t1}, Enabled <- {"InputLoop", "OutputLoop", "ExecutiveLoop", "CriticLoop"},
    External <- {[type |-> "PLAN_CREATED", about |-> "p"], [type |-> "PLAN_CREATED", about |-> "q"],
                 [type |-> "MODEL_ERROR_DETECTED", about |-> "e"], OutputReady("p", "x")},
    Invalid <- {"q"}, Risky <- {"q"}, InputChain <- "input", Global <- "global",
    MaxReplans <- 1, MaxSecondary <- 1, MaxSignalsOut <- 2,
    MaxTicks <- 4, MaxSubmits <- 3, MaxClears <- 0, FaultChoices <- {FALSE},
    faulty <- v2faulty, bus <- v2bus, cursor <- v2cursor, ticks <- v2ticks, tick <- v2tick,
    state <- v2state, attempts <- v2attempts, met <- v2met, requested <- v2requested

loopVars == <<bus, planned, outside, cursor, tick, state, attempts, revisions, goals, requested, met>>
coreVars == <<clock, file, moves, lastCompression, lastConsolidation, added, dropped, searches,
              coreCrashes, disturbed>>
semanticVars == <<facts, index, factsFile, indexFile, candidates, saving, up, runs, ids, crashes, cutShort>>
v2Vars == <<v2faulty, life, v2bus, session, v2cursor, ready, submits, submitting, due, queue, v2ticks, v2tick,
            v2state, v2attempts, interrupted, published, records, offered, tooLate, v2met, slow, v2requested>>
driveVars == <<awake, prepared, now, duty, drive, driveFile, collided, unsaved, safe, invoked, breaks>>
motorVars == <<loopUp, initialized, loading, found, running, texts, available, cycle, cycles, affordances, stateFile,
               overlap, learnt, submitted, attended, effects, base, since, breakdowns>>
socialVars == <<alert, known, inits, reads, hour, agents, patterns, modelFile, keeping, mingled, kept, observed, stated,
                wanted, recorded, events, decays, falls>>
modifierVars == <<modifying, opened, instant, store, pending, measuring, modifierFile, saves, together,
                  lastSaved, orderly, revived, operations, measures, ends>>
bodyVars == <<driveVars, motorVars, socialVars, modifierVars>>
mindVars == <<loopVars, coreVars, semanticVars, boundaryVars, v2Vars>>
suiteVars == <<family, vars, mindVars, bodyVars>>

SuiteInit ==
    /\ family \in {"rate", "policy", "fetch", "audit", "loops", "overlapping loops", "core", "semantic",
                  "boundary", "drive", "motor", "motors", "social", "modifier", "modifiers",
                  "v2 shadow", "v2 outputs", "v2 alone"}
    /\ Init /\ (family # "policy" => policy.allowed = {})
    /\ (family \notin {"rate", "policy"} => policy.max = 1)
    /\ Loops!Init /\ Core!Init /\ Semantic!Init /\ BoundaryInit
    /\ Drive!DriveInit /\ Social!SocialInit
    /\ IF family = "modifiers" THEN Modifiers!ModifierInit ELSE Modifier!ModifierInit
    /\ IF family = "motors" THEN Motors!MotorInit ELSE Motor!MotorInit
    /\ CASE family = "v2 outputs" -> Outputs!Init [] family = "v2 alone" -> Alone!Init [] OTHER -> Shadowed!Init

\* Many requests to one site, or some to all of them.
ReadNext ==
    \/ /\ family = "rate" /\ PolicyNext
       /\ policy'.allowed = {} /\ \A h \in Host \ {Site} : bucket'[h] = None
    \/ family = "policy" /\ PolicyNext /\ time' <= 2 /\ checks' <= 3
    \/ family = "fetch" /\ FetchNext
    \/ family = "audit" /\ AuditNext

LoopsNext ==
    /\ Loops!Next /\ UNCHANGED <<coreVars, semanticVars, boundaryVars, v2Vars>>
    /\ family = "loops" => tick'[t2].at = "idle" /\ (outside' > outside => \A t \in {t1, t2} : tick[t].at = "idle")
    /\ family = "overlapping loops" => outside' <= 2

MindNext ==
    /\ \/ family \in {"loops", "overlapping loops"} /\ LoopsNext
       \/ /\ family = "core" /\ Core!Next /\ UNCHANGED <<loopVars, semanticVars, boundaryVars, v2Vars>>
          /\ disturbed' => clock' <= 1
       \/ family = "semantic" /\ Semantic!Next /\ UNCHANGED <<loopVars, coreVars, boundaryVars, v2Vars>>
       \/ family = "boundary" /\ BoundaryNext /\ UNCHANGED <<loopVars, coreVars, semanticVars, v2Vars>>
       \/ /\ \/ family = "v2 shadow" /\ Shadowed!Next
             \/ family = "v2 outputs" /\ Outputs!Next
             \/ family = "v2 alone" /\ Alone!Next
          /\ UNCHANGED <<loopVars, coreVars, semanticVars, boundaryVars>>

\* Maintenance, starts and crashes with one agent and few events.
SocialNext ==
    /\ Social!SocialNext
    /\ decays' + falls' + inits' + Len(reads') > 0 => agents'["b"] = None /\ events' <= 2

BodyNext ==
    \/ family = "drive" /\ Drive!DriveNext /\ UNCHANGED <<motorVars, socialVars, modifierVars>>
    \/ family = "motor" /\ Motor!MotorNext /\ UNCHANGED <<driveVars, socialVars, modifierVars>>
    \/ family = "motors" /\ Motors!MotorNext /\ UNCHANGED <<driveVars, socialVars, modifierVars>>
    \/ family = "social" /\ SocialNext /\ UNCHANGED <<driveVars, motorVars, modifierVars>>
    \/ /\ \/ family = "modifier" /\ Modifier!ModifierNext
          \/ family = "modifiers" /\ Modifiers!ModifierNext
       /\ UNCHANGED <<driveVars, motorVars, socialVars>>

SuiteNext ==
    /\ UNCHANGED family
    /\ \/ ReadNext /\ UNCHANGED <<mindVars, bodyVars>>
       \/ MindNext /\ UNCHANGED <<vars, bodyVars>>
       \/ BodyNext /\ UNCHANGED <<vars, mindVars>>

SuiteSpec == SuiteInit /\ [][SuiteNext]_suiteVars

TypesOK ==
    /\ TypeOK /\ Loops!TypeOK /\ Core!TypeOK /\ Semantic!TypeOK /\ BoundaryTypes
    /\ CASE family = "v2 outputs" -> Outputs!TypeOK [] family = "v2 alone" -> Alone!TypeOK [] OTHER -> Shadowed!TypeOK
MonitorCanRun == Loops!MonitorCanRun

\* The plans of a session and its goal stack agree over its ticks, and none is replanned for ever.
ChainsAreKept == Loops!ChainsAreKept /\ [](Loops!GoalStackIsConsistent /\ Loops!ReplansAreBounded)

\* What was learnt is found: a memory in one of the layers, and a fact by its words.
\* What was read is on record. What the drives, the senses and the models of others have made of it is in their files, and what
\* the program has changed of itself can be taken back.
MemoryIsKept ==
    /\ TypesOK /\ AuditIsKept /\ Core!NoMemoryIsLost /\ Semantic!FactsAreFound
    /\ CASE family = "drive" -> Drive!DriveIsSound
         [] family = "motor" -> Motor!SensorimotorIsSound
         [] family = "motors" -> Motors!SensorimotorIsSound
         [] family = "social" -> Social!SocialIsSound
         [] family = "modifier" -> Modifier!ModificationsAreSound
         [] family = "modifiers" -> Modifiers!ModificationsAreSound
         [] OTHER -> TRUE

\* The second runtime passes over no signal, silences paused chains, leaves records that verify, and
\* replans no chain for ever.
SessionIsInOrder ==
    /\ Alone!ReplansAreBounded
    /\ CASE family = "v2 shadow" -> Shadowed!NothingIsPassedOver /\ Shadowed!RecordsAreChained
         [] family = "v2 outputs" -> Outputs!NothingIsPassedOver /\ Outputs!PauseComesFirst
         [] family = "v2 alone" -> Alone!NothingIsPassedOver /\ Alone!PauseComesFirst /\ Alone!RecordsAreChained
         [] OTHER -> TRUE
=============================================================================
