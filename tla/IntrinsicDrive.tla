---------------------------- MODULE IntrinsicDrive ----------------------------
(***************************************************************************)
(* The intrinsic motivation: goals made from what is uncertain, isolated,  *)
(* new or surprising, the progress of what is learned, and the file all of *)
(* it is saved in. Any first call loads that file, the others of the time  *)
(* as well, and what a load has read takes effect when the read has ended, *)
(* whatever was changed and saved meanwhile. Amounts are in tenths.        *)
(***************************************************************************)
EXTENDS Integers, SequencesExt

CONSTANTS
    Caller, Topic, Steps,   \* by how much the uncertainty of a topic is reduced
    None, Torn,
    MaxTime, MaxCalls, MaxCrashes

VARIABLES
    awake, prepared, now,     \* the process, initialize(), the time
    duty,                     \* what each caller is about to do
    drive,                    \* [goals, targets, progress, surprises]
    driveFile, collided,      \* the file, and whether two of its writes have overlapped
    unsaved,                  \* history: a surprise, or what an older load put back, is not saved yet
    safe,                     \* history: what a complete write has saved of a change that no load could undo
    invoked, breaks

driveVars == <<awake, prepared, now, duty, drive, driveFile, collided, unsaved, safe, invoked, breaks>>

NoDrive == [goals |-> <<>>, targets |-> <<>>, progress |-> <<>>, surprises |-> 0]

Idle == [pc |-> "idle", what |-> None, topic |-> None, amount |-> 0, read |-> None, saved |-> None, secure |-> FALSE]

Goal(type, topic, priority) == [type |-> type, topic |-> topic, made |-> now, priority |-> priority]

Goals == Range(drive.goals)
Key(goal) == <<goal.type, goal.topic, goal.made>>

------------------------------------------------------------------------------
(* Goals *)

\* A goal of the same kind, topic and millisecond is the same, and begins anew.
Put(goals, goal) ==
    LET new == [key |-> Key(goal), topic |-> goal.topic, priority |-> goal.priority, status |-> "active"]
    IN  IF \E i \in DOMAIN goals : goals[i].key = new.key
        THEN [i \in DOMAIN goals |-> IF goals[i].key = new.key THEN new ELSE goals[i]]
        ELSE Append(goals, new)

Improvement(topic) == drive.progress[topic].improvement
Known(topic) == topic \in DOMAIN drive.progress

\* What is uncertain becomes a target, and stays as uncertain and as new as it was.
WithTarget(targets, topic) == IF topic \in Range(targets) THEN targets ELSE Append(targets, topic)

\* The goals of one call, in the order of their priorities: exploration, mastery of what goes slowly,
\* connections of what is isolated, and the first two of all targets, which are new for ever.
NewGoals(uncertain, known, slow) ==
    LET targets == WithTarget(drive.targets, uncertain)
        n == IF Len(targets) < 2 THEN Len(targets) ELSE 2
    IN  <<Goal("explore", uncertain, 12)>>
        \o (IF slow /\ Known(known) /\ Improvement(known) < 1 THEN <<Goal("master", known, 6)>> ELSE <<>>)
        \o (IF ~Known(known) \/ Improvement(known) < 2 THEN <<Goal("connect", known, 5)>> ELSE <<>>)
        \o [i \in 1 .. n |-> Goal("novel", targets[i], 5)]

GenerateGoals(uncertain, known, slow) ==
    [drive EXCEPT !.goals = FoldLeft(Put, @, NewGoals(uncertain, known, slow)),
                  !.targets = WithTarget(@, uncertain)]

\* A great surprise is a goal.
ReportSurprise(topic, magnitude) ==
    [drive EXCEPT !.surprises = @ + 1,
                  !.goals = IF magnitude > 7 THEN Put(@, Goal("surprise", topic, magnitude)) ELSE @]

------------------------------------------------------------------------------
(* Progress *)

IsLearned(p) == p.current < 1

CompleteGoals(goals, topic) ==
    [i \in DOMAIN goals |-> IF goals[i].topic = topic /\ goals[i].status = "active"
                            THEN [goals[i] EXCEPT !.status = "completed"] ELSE goals[i]]

\* Only a later step of a topic may complete its goals; its first is not looked at, however great.
UpdateProgress(topic, step) ==
    IF Known(topic)
    THEN LET left == drive.progress[topic].current - step
             after == [current |-> IF left > 0 THEN left ELSE 0, improvement |-> 10 - left]
         IN  [drive EXCEPT !.progress[topic] = after,
                           !.goals = IF IsLearned(after) THEN CompleteGoals(@, topic) ELSE @]
    ELSE [drive EXCEPT !.progress = (topic :> [current |-> 10 - step, improvement |-> step]) @@ @]

\* The active goal of the highest priority, the oldest of several.
Recommended ==
    LET active == SelectSeq(drive.goals, LAMBDA g : g.status = "active")
        top == {i \in DOMAIN active : \A j \in DOMAIN active :
                    active[i].priority > active[j].priority
                    \/ (active[i].priority = active[j].priority /\ i <= j)}
    IN  IF active = <<>> THEN None ELSE active[CHOOSE i \in top : TRUE]

------------------------------------------------------------------------------
(* Calls *)

\* A call loads the file first unless a load has ended before.
Invoke(c, what, topic, amount) ==
    /\ awake /\ duty[c].pc = "idle"
    /\ invoked < MaxCalls /\ invoked' = invoked + 1
    /\ duty' = [duty EXCEPT ![c] = [Idle EXCEPT !.pc = IF prepared THEN "working" ELSE "loading",
                                                !.what = what, !.topic = topic, !.amount = amount]]
    /\ UNCHANGED <<awake, prepared, now, drive, driveFile, collided, unsaved, safe, breaks>>

\* The file is read as it is now ...
ReadState(c) ==
    /\ duty[c].pc = "loading"
    /\ duty' = [duty EXCEPT ![c].pc = "applying", ![c].read = driveFile]
    /\ UNCHANGED <<awake, prepared, now, drive, driveFile, collided, unsaved, safe, invoked, breaks>>

\* ... and takes the place of what is known then, unless it cannot be parsed.
ApplyState(c) ==
    /\ duty[c].pc = "applying"
    /\ duty' = [duty EXCEPT ![c].pc = "working", ![c].read = None]
    /\ prepared' = TRUE
    /\ drive' = IF duty[c].read \in {None, Torn} THEN drive ELSE duty[c].read
    /\ unsaved' = IF drive' = drive THEN unsaved ELSE drive' # driveFile
    /\ UNCHANGED <<awake, now, driveFile, collided, safe, invoked, breaks>>

Loading == {c \in Caller : duty[c].pc \in {"loading", "applying"}}
Saving == {c \in Caller : duty[c].pc = "saving"}

\* The file is opened, and torn until it is written.
Save(c, changed) ==
    /\ drive' = changed
    /\ duty' = [duty EXCEPT ![c].pc = "saving", ![c].saved = changed, ![c].secure = Loading = {}]
    /\ driveFile' = Torn
    /\ collided' = (collided \/ Saving # {})
    /\ unsaved' = FALSE

Work(c) ==
    /\ duty[c].pc = "working"
    /\ \/ /\ duty[c].what = "generate"
          /\ \E known \in Topic, slow \in BOOLEAN : Save(c, GenerateGoals(duty[c].topic, known, slow))
       \/ duty[c].what = "progress" /\ Save(c, UpdateProgress(duty[c].topic, duty[c].amount))
       \/ /\ duty[c].what = "surprise"
          /\ drive' = ReportSurprise(duty[c].topic, duty[c].amount)
          /\ duty' = [duty EXCEPT ![c] = Idle]
          /\ unsaved' = TRUE
          /\ UNCHANGED <<driveFile, collided>>
    /\ UNCHANGED <<awake, prepared, now, safe, invoked, breaks>>

SaveEnds(c) ==
    /\ duty[c].pc = "saving"
    /\ duty' = [duty EXCEPT ![c] = Idle]
    /\ \/ driveFile' = duty[c].saved
       \/ Saving # {c} /\ driveFile' = Torn
    /\ safe' = IF duty[c].secure /\ ~collided THEN duty[c].saved ELSE safe
    /\ UNCHANGED <<awake, prepared, now, drive, collided, unsaved, invoked, breaks>>

Elapse ==
    /\ now < MaxTime /\ now' = now + 1
    /\ UNCHANGED <<awake, prepared, duty, drive, driveFile, collided, unsaved, safe, invoked, breaks>>

\* A file that is being written is lost.
Crash ==
    /\ awake /\ breaks < MaxCrashes
    /\ awake' = FALSE /\ breaks' = breaks + 1
    /\ duty' = [c \in Caller |-> Idle]
    /\ safe' = IF driveFile = Torn \/ collided THEN NoDrive ELSE safe
    /\ UNCHANGED <<prepared, now, drive, driveFile, collided, unsaved, invoked>>

Restart ==
    /\ ~awake /\ awake' = TRUE
    /\ prepared' = FALSE /\ drive' = NoDrive
    /\ collided' = FALSE /\ unsaved' = FALSE
    /\ UNCHANGED <<now, duty, driveFile, safe, invoked, breaks>>

DriveInit ==
    /\ awake = TRUE /\ prepared = FALSE /\ now = 0
    /\ duty = [c \in Caller |-> Idle]
    /\ drive = NoDrive /\ driveFile = None
    /\ collided = FALSE /\ unsaved = FALSE /\ safe = NoDrive
    /\ invoked = 0 /\ breaks = 0

DriveNext ==
    \/ \E c \in Caller :
          \/ \E topic \in Topic :
                \/ Invoke(c, "generate", topic, 0)
                \/ \E step \in Steps : Invoke(c, "progress", topic, step)
                \/ \E magnitude \in {3, 9} : Invoke(c, "surprise", topic, magnitude)
          \/ ReadState(c) \/ ApplyState(c) \/ Work(c) \/ SaveEnds(c)
    \/ Elapse \/ Crash \/ Restart

------------------------------------------------------------------------------
DriveTypeOK ==
    /\ \A i, j \in DOMAIN drive.goals : drive.goals[i].key = drive.goals[j].key => i = j
    /\ \A topic \in DOMAIN drive.progress : drive.progress[topic].current >= 0

\* A goal is completed once its topic has been learned, by whatever call and before whatever restart,
\* and not sooner. (completeGoalForTopic)
CompletedIsLearned ==
    \A goal \in Goals : goal.status = "completed" =>
        Known(goal.topic) /\ drive.progress[goal.topic].current = 0

\* Progress and what is left are two sides of the same, but for progress beyond the end.
\* (updateProgress)
ProgressAgrees ==
    \A topic \in DOMAIN drive.progress :
        LET p == drive.progress[topic]
        IN  p.improvement = 10 - p.current \/ (p.current = 0 /\ p.improvement > 10)

\* Nobody is told to pursue what is done, and an exploration comes before anything else.
\* (getRecommendedAction)
RecommendationFits ==
    /\ Recommended = None <=> \A goal \in Goals : goal.status = "completed"
    /\ Recommended # None /\ (\E goal \in Goals : goal.status = "active" /\ goal.key[1] = "explore") =>
          Recommended.key[1] = "explore"

\* What one state of the drive has of another.
Holds(d) ==
    /\ drive.surprises >= d.surprises
    /\ \A topic \in DOMAIN d.progress : Known(topic) /\ drive.progress[topic].current <= d.progress[topic].current
    /\ {g.key : g \in Range(d.goals)} \subseteq {g.key : g \in Goals}
    /\ Range(d.targets) \subseteq Range(drive.targets)

\* Once nothing is being written, and no two writes have overlapped, the file holds all there is but
\* surprises and what a load that ended late has put back, which wait for the next change. What was
\* changed while nobody was loading, and written completely, is never taken back, not by a restart
\* and not by the loads of several first calls after it; what a first call changes itself may be, by
\* another that has read the file before. (saveState, initialize, loadState)
DriveIsKept ==
    /\ awake /\ prepared /\ Saving = {} /\ ~collided =>
          \/ unsaved \/ drive = driveFile
          \/ driveFile \in {None, Torn} /\ drive = NoDrive
    /\ awake /\ prepared /\ ~collided => Holds(safe)

DriveIsSound == DriveTypeOK /\ CompletedIsLearned /\ ProgressAgrees /\ RecommendationFits /\ DriveIsKept
===============================================================================
