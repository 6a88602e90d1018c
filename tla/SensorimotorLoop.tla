--------------------------- MODULE SensorimotorLoop ---------------------------
(***************************************************************************)
(* The perception-action loop: a timer starts a cycle, whether or not the  *)
(* one before has ended; a cycle reads all sensors, chooses an action from *)
(* what it has learned, has it executed, learns and saves. The sensors are *)
(* a queue of texts and, if there is one, that of the file system, which   *)
(* always has something to say.                                            *)
(***************************************************************************)
EXTENDS Naturals, SequencesExt

CONSTANTS
    Cycle,              \* cycles that may be under way at once
    Text, Long,         \* Long \subseteq Text: more salient than the state of the file system
    SituationOf,        \* what the representation makes of a text
    Actuator,           \* of "text_output", "api_call" and "file_operation"
    Watching,           \* whether there is a sensor of the file system
    RetryCount, MaxCycles,
    None, Torn,
    MaxTexts, MaxEffects, MaxCrashes   \* bounds

VARIABLES
    up, initialized, loading,  \* the process, initialize() and how many of its calls are under way
    found,                     \* what those of them have read that have not ended
    running, queue, available,
    cycle,                     \* the cycles under way
    cycles, affordances,
    stateFile, overlap,        \* the file, and whether two writes of it have overlapped
    learnt,                    \* the experiences handed to the network
    submitted, attended,       \* history: the texts, and those read
    effects,                   \* history: how often a handler has done its work in this life
    base, since,               \* history: what the last load found, and after which cycle
    breakdowns

motorVars == <<up, initialized, loading, found, running, queue, available, cycle, cycles, affordances, stateFile,
               overlap, learnt, submitted, attended, effects, base, since, breakdowns>>

\* Rates and rewards in 625ths: a reward is twice the rate less one.
One == 625

Idle == [pc |-> "idle", situation |-> None, action |-> None, confidence |-> 0, attempts |-> 0,
         success |-> FALSE, saved |-> None]

------------------------------------------------------------------------------
(* What has been learned *)

Successes(cs) == SelectSeq(cs, LAMBDA x : x.success)

\* A moving average over the outcomes of an action in a situation.
Outcome(success) == IF success THEN One ELSE 0

Updated(known, situation, action, success) ==
    LET key == <<situation, action>>
    IN  IF key \in DOMAIN known
        THEN [known EXCEPT ![key].rate = (4 * @ + Outcome(success)) \div 5, ![key].count = @ + 1]
        ELSE (key :> [rate |-> Outcome(success), count |-> 1]) @@ known

Applicable(situation) == {key \in DOMAIN affordances : key[1] = situation}

\* The best known action, or any that is available; none if nothing is.
Exploit(situation) ==
    {[action |-> key[2], confidence |-> affordances[key].rate] :
        key \in {k \in Applicable(situation) :
                    \A other \in Applicable(situation) : affordances[k].rate >= affordances[other].rate}}
Explore ==
    IF available = {} THEN {[action |-> None, confidence |-> (3 * One) \div 10]}
    ELSE {[action |-> a, confidence |-> (3 * One) \div 10] : a \in available}

------------------------------------------------------------------------------
(* A cycle *)

Submit(text) ==
    /\ up /\ Len(submitted) < MaxTexts
    /\ queue' = Append(queue, text) /\ submitted' = Append(submitted, text)
    /\ UNCHANGED <<up, initialized, loading, found, running, available, cycle, cycles, affordances, stateFile,
                   overlap, learnt, attended, effects, base, since, breakdowns>>

\* A cycle too many.
HasRoomForOneMore == Len(cycles) <= MaxCycles
HasRoom == Len(cycles) < MaxCycles

\* What the file system says is the most salient of what the sensors have.
FilesWin == queue = <<>> \/ (Watching /\ Head(queue) \notin Long)

\* All sensors are read and the most salient of what they say is kept; the rest is gone.
Perceive(c) ==
    /\ running /\ HasRoom /\ cycle[c].pc = "idle" /\ effects < MaxEffects
    /\ queue # <<>> \/ Watching
    /\ IF queue = <<>> THEN UNCHANGED <<queue, attended>>
       ELSE queue' = Tail(queue) /\ attended' = Append(attended, Head(queue))
    /\ cycle' = [cycle EXCEPT ![c] =
           IF FilesWin
           THEN [Idle EXCEPT !.pc = "deciding", !.situation = "files"]
           ELSE [Idle EXCEPT !.pc = "representing", !.situation = SituationOf[Head(queue)]]]
    /\ UNCHANGED <<up, initialized, loading, found, running, available, cycles, affordances, stateFile, overlap,
                   learnt, submitted, effects, base, since, breakdowns>>

\* The limit stops the timer; cycles under way go on.
StopAtLimit ==
    /\ running /\ ~HasRoom
    /\ running' = FALSE
    /\ UNCHANGED <<up, initialized, loading, found, queue, available, cycle, cycles, affordances, stateFile,
                   overlap, learnt, submitted, attended, effects, base, since, breakdowns>>

\* The builder of representations answers or fails, and with it the cycle.
Represent(c) ==
    /\ cycle[c].pc = "representing"
    /\ cycle' \in {[cycle EXCEPT ![c].pc = "deciding"], [cycle EXCEPT ![c] = Idle]}
    /\ UNCHANGED <<up, initialized, loading, found, running, queue, available, cycles, affordances, stateFile,
                   overlap, learnt, submitted, attended, effects, base, since, breakdowns>>

\* Whether there is an actuator of that type. Nobody asks if it is available.
CanExecute(action) == action \in Actuator

\* An action that was learned is chosen even if nobody offers it any longer.
Decide(c) ==
    /\ cycle[c].pc = "deciding"
    /\ \E choice \in Exploit(cycle[c].situation) \union Explore :
          cycle' = [cycle EXCEPT ![c].pc = IF CanExecute(choice.action) THEN "acting" ELSE "learning",
                                 ![c].action = choice.action, ![c].confidence = choice.confidence]
    /\ UNCHANGED <<up, initialized, loading, found, running, queue, available, cycles, affordances, stateFile,
                   overlap, learnt, submitted, attended, effects, base, since, breakdowns>>

\* Only the calls of an API are retried. (The timeouts of the actuators are never looked at.)
MayRetry(c) == cycle[c].action = "api_call" /\ cycle[c].attempts < RetryCount

Succeeds(c) ==
    /\ cycle[c].pc = "acting"
    /\ cycle' = [cycle EXCEPT ![c].pc = "learning", ![c].success = TRUE, ![c].attempts = @ + 1]
    /\ effects' = effects + 1
    /\ UNCHANGED <<up, initialized, loading, found, running, queue, available, cycles, affordances, stateFile,
                   overlap, learnt, submitted, attended, base, since, breakdowns>>

Fails(c) ==
    /\ cycle[c].pc = "acting"
    /\ cycle' = [cycle EXCEPT ![c].pc = IF MayRetry(c) THEN "acting" ELSE "learning", ![c].attempts = @ + 1]
    /\ UNCHANGED <<up, initialized, loading, found, running, queue, available, cycles, affordances, stateFile,
                   overlap, learnt, submitted, attended, effects, base, since, breakdowns>>

\* What was expected against what happened.
Surprising(c) == (2 * cycle[c].confidence > One) # cycle[c].success

Learn(c) ==
    /\ cycle[c].pc = "learning"
    /\ \/ /\ cycle' = [cycle EXCEPT ![c].pc = "recording"]
          /\ learnt' = Append(learnt, [action |-> cycle[c].action, success |-> cycle[c].success])
       \/ cycle' = [cycle EXCEPT ![c] = Idle] /\ UNCHANGED learnt
    /\ UNCHANGED <<up, initialized, loading, found, running, queue, available, cycles, affordances, stateFile,
                   overlap, submitted, attended, effects, base, since, breakdowns>>

Saving == {c \in Cycle : cycle[c].saved # None}

\* The cycle is recorded and all that is known begins to be written, over the only copy.
Record(c) ==
    /\ cycle[c].pc = "recording"
    /\ cycles' = Append(cycles, [situation |-> cycle[c].situation, action |-> cycle[c].action,
                                 success |-> cycle[c].success, surprising |-> Surprising(c),
                                 secure |-> loading = 0 /\ found = <<>>])
    /\ affordances' = Updated(affordances, cycle[c].situation, cycle[c].action, cycle[c].success)
    /\ cycle' = [cycle EXCEPT ![c].pc = "saving", ![c].saved = affordances']
    /\ stateFile' = Torn
    /\ overlap' = (overlap \/ Saving # {})
    /\ UNCHANGED <<up, initialized, loading, found, running, queue, available, learnt, submitted, attended, effects,
                   base, since, breakdowns>>

SaveEnds(c) ==
    /\ cycle[c].pc = "saving"
    /\ cycle' = [cycle EXCEPT ![c] = Idle]
    /\ \/ stateFile' = cycle[c].saved
       \/ Saving # {c} /\ stateFile' = Torn
    /\ UNCHANGED <<up, initialized, loading, found, running, queue, available, cycles, affordances, overlap, learnt,
                   submitted, attended, effects, base, since, breakdowns>>

------------------------------------------------------------------------------
(* The life of the loop *)

\* start() asks nobody whether initialize() has ended, or begun.
StartLoop ==
    /\ up /\ ~running
    /\ running' = TRUE
    /\ UNCHANGED <<up, initialized, loading, found, queue, available, cycle, cycles, affordances, stateFile,
                   overlap, learnt, submitted, attended, effects, base, since, breakdowns>>

StopLoop ==
    /\ running /\ running' = FALSE
    /\ UNCHANGED <<up, initialized, loading, found, queue, available, cycle, cycles, affordances, stateFile,
                   overlap, learnt, submitted, attended, effects, base, since, breakdowns>>

\* A second call finds the first one not ended and loads as well.
Initialize ==
    /\ up /\ ~initialized /\ loading + Len(found) < 2
    /\ loading' = loading + 1
    /\ UNCHANGED <<up, initialized, found, running, queue, available, cycle, cycles, affordances, stateFile,
                   overlap, learnt, submitted, attended, effects, base, since, breakdowns>>

ReadState ==
    /\ up /\ loading > 0 /\ loading' = loading - 1
    /\ found' = Append(found, stateFile)
    /\ UNCHANGED <<up, initialized, running, queue, available, cycle, cycles, affordances, stateFile,
                   overlap, learnt, submitted, attended, effects, base, since, breakdowns>>

\* What the file held when it was read takes the place of what has been learned, and saved, meanwhile.
ApplyState ==
    /\ up /\ initialized' = TRUE
    /\ available' = Actuator
    /\ \E k \in DOMAIN found :
          /\ found' = RemoveAt(found, k)
          /\ IF found[k] \in {None, Torn} THEN UNCHANGED <<affordances, base, since>>
             ELSE affordances' = found[k] /\ base' = found[k] /\ since' = Len(cycles)
    /\ UNCHANGED <<up, loading, running, queue, cycle, cycles, stateFile, overlap, learnt, submitted, attended,
                   effects, breakdowns>>

Shutdown(a) ==
    /\ up /\ a \in available /\ available' = available \ {a}
    /\ UNCHANGED <<up, initialized, loading, found, running, queue, cycle, cycles, affordances, stateFile, overlap,
                   learnt, submitted, attended, effects, base, since, breakdowns>>

Crash ==
    /\ up /\ breakdowns < MaxCrashes
    /\ up' = FALSE /\ breakdowns' = breakdowns + 1
    /\ running' = FALSE /\ cycle' = [c \in Cycle |-> Idle]
    /\ UNCHANGED <<initialized, loading, found, queue, available, cycles, affordances, stateFile, overlap, learnt,
                   submitted, attended, effects, base, since>>

Restart ==
    /\ ~up /\ up' = TRUE
    /\ initialized' = FALSE /\ loading' = 0 /\ found' = <<>> /\ queue' = <<>> /\ available' = Actuator
    /\ cycles' = <<>> /\ affordances' = <<>> /\ overlap' = FALSE /\ learnt' = <<>>
    /\ submitted' = <<>> /\ attended' = <<>> /\ effects' = 0 /\ base' = <<>> /\ since' = 0
    /\ UNCHANGED <<running, cycle, stateFile, breakdowns>>

MotorInit ==
    /\ up = TRUE /\ initialized = FALSE /\ loading = 0 /\ found = <<>> /\ running = FALSE
    /\ queue = <<>> /\ available = Actuator /\ cycle = [c \in Cycle |-> Idle]
    /\ cycles = <<>> /\ affordances = <<>> /\ stateFile = None /\ overlap = FALSE /\ learnt = <<>>
    /\ submitted = <<>> /\ attended = <<>> /\ effects = 0 /\ base = <<>> /\ since = 0
    /\ breakdowns = 0

MotorNext ==
    \/ \E text \in Text : Submit(text)
    \/ \E c \in Cycle :
          \/ Perceive(c) \/ Represent(c) \/ Decide(c) \/ Succeeds(c) \/ Fails(c) \/ Learn(c) \/ Record(c)
          \/ SaveEnds(c)
    \/ StopAtLimit \/ StartLoop \/ StopLoop \/ Initialize \/ ReadState \/ ApplyState \/ Crash \/ Restart
    \/ \E a \in Actuator : Shutdown(a)

------------------------------------------------------------------------------
MotorTypeOK ==
    /\ \A c \in Cycle : cycle[c].saved # None <=> cycle[c].pc = "saving"
    /\ \A key \in DOMAIN affordances : affordances[key].rate \in 0 .. One /\ affordances[key].count > 0
    /\ since <= Len(cycles)

\* What is known of an action in a situation is what the last load found and every cycle recorded
\* since, whichever of them overlapped: none is counted twice or not at all, and an action that has
\* only failed, or never, is known as such. (updateAffordances)
AffordancesAgree ==
    LET new == SubSeq(cycles, since + 1, Len(cycles))
        Of(key) == SelectSeq(new, LAMBDA x : <<x.situation, x.action>> = key)
    IN  /\ DOMAIN affordances = DOMAIN base \union {<<new[i].situation, new[i].action>> : i \in DOMAIN new}
        /\ \A key \in DOMAIN affordances :
              /\ affordances[key].count = Len(Of(key)) + (IF key \in DOMAIN base THEN base[key].count ELSE 0)
              /\ key \notin DOMAIN base =>
                    /\ affordances[key].rate = One <=> Successes(Of(key)) = Of(key)
                    /\ affordances[key].rate = 0 <=> Successes(Of(key)) = <<>>

\* Every text is read once and in its order, whichever cycles overlap; a cycle that acts on what
\* was said acts on something that was. (TextSensor.read, perceive)
TextsAreReadOnce ==
    /\ attended \o queue = submitted
    /\ \A i \in DOMAIN cycles :
          cycles[i].situation # "files" => \E k \in DOMAIN attended : SituationOf[attended[k]] = cycles[i].situation

\* A handler does the work of an action at most once, and is asked at most RetryCount times more:
\* every success on record, or about to be, is one that happened. (APICallActuator.execute)
ActionsAreBounded ==
    /\ \A c \in Cycle : cycle[c].attempts <= RetryCount + 1
    /\ Len(Successes(cycles)) + Cardinality({c \in Cycle : cycle[c].success /\ cycle[c].pc # "saving"}) <= effects

\* The session ends near its limit: only cycles that were under way come on top of it. What is on
\* record has been learned, and the other way round but for those. (runCycle)
CyclesAreBounded ==
    /\ Len(cycles) < MaxCycles + Cardinality(Cycle)
    /\ Len(learnt) = Len(cycles) + Cardinality({c \in Cycle : cycle[c].pc = "recording"}) \/ ~up

\* Once nothing is written any more and none of two writes has overtaken the other, the file holds
\* what was learned last, but for what a load that ended late has taken back. A load takes back no
\* cycle but those recorded while it, or another, was under way. (saveState, loadState)
LearningIsSaved ==
    /\ up /\ Saving = {} /\ ~overlap /\ since < Len(cycles) => stateFile = affordances
    /\ up /\ ~overlap => \A i \in DOMAIN cycles : cycles[i].secure =>
          LET key == <<cycles[i].situation, cycles[i].action>>
          IN  /\ key \in DOMAIN affordances
              /\ affordances[key].count >= Len(SelectSeq(cycles, LAMBDA x :
                                               x.secure /\ <<x.situation, x.action>> = key))

SensorimotorIsSound ==
    MotorTypeOK /\ AffordancesAgree /\ TextsAreReadOnce /\ ActionsAreBounded /\ CyclesAreBounded /\ LearningIsSaved
===============================================================================
