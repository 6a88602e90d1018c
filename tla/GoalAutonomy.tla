----------------------------- MODULE GoalAutonomy -----------------------------
(***************************************************************************)
(* The goals the program sets itself (goal-autonomy.ts) and their pursuit  *)
(* by the heartbeat of a runtime, which is started every second whether or *)
(* not the last one has ended: synth-runtime.ts asks the language model    *)
(* and reports a goal complete, autonomous-cognitive-system.ts reports a   *)
(* first part of it. A template stands for what generateGoals() makes of   *)
(* one request, failure, capability, unknown word or knowledge gap.        *)
(***************************************************************************)
EXTENDS Naturals, Sequences, FiniteSets, SequencesExt

CONSTANTS
    Template,           \* records [about, type, score, priority]
    GapImpact,          \* the impacts a knowledge gap may have, in tenths
    MaxActive,
    Beat,               \* heartbeats that may be under way at once
    Reports,            \* per pursued type, the progress in tenths that the runtime reports
    None, Torn,
    MaxGoals, MaxGaps, MaxBatches, MaxBeats, MaxCrashes   \* bounds

VARIABLES
    goals, activeGoalIds, achievements, knowledgeGaps,
    file, saves,        \* the file, and the writes of it that are under way
    beat,               \* beat[b]: None, or the goal the model is asked about
    up,
    batches, beats, crashes,
    overlapped, saved   \* history: whether two writes overlapped, the last state saved

memory == <<goals, activeGoalIds, achievements, knowledgeGaps>>
disk == <<file, saves, overlapped, saved>>
vars == <<memory, disk, beat, up, batches, beats, crashes>>

Pursued == DOMAIN Reports
Ids == DOMAIN goals
Snapshot == [goals |-> goals', achievements |-> achievements', gaps |-> knowledgeGaps', active |-> activeGoalIds']
Nothing == [goals |-> <<>>, achievements |-> {}, gaps |-> <<>>, active |-> <<>>]

\* saveState() serialises the state at once and empties the file before it writes.
SaveState ==
    /\ overlapped' = (overlapped \/ saves # {})
    /\ saves' = saves \cup {Snapshot}
    /\ file' = Torn
    /\ saved' = Snapshot

\* A write that met another one may leave a mixture.
SaveEnds ==
    /\ up
    /\ \E s \in saves :
          /\ saves' = saves \ {s}
          /\ file' \in IF overlapped THEN {s, Torn} ELSE {s}
    /\ UNCHANGED <<memory, overlapped, saved, beat, up, batches, beats, crashes>>

------------------------------------------------------------------------------
(* Generation *)

Gap(g) == [about |-> g.about, type |-> "knowledge", score |-> 3, priority |-> g.impact]

\* Gaps that matter become goals.
GenerateGapFillingGoals ==
    {Gap(knowledgeGaps[i]) : i \in {j \in DOMAIN knowledgeGaps : knowledgeGaps[j].impact > 5}}

NotAbandoned(g) == g.status # "abandoned"
FilterRedundantGoals(batch) ==
    {t \in batch : ~\E i \in Ids : goals[i].about = t.about /\ NotAbandoned(goals[i])}

Proposed(t) == [about |-> t.about, type |-> t.type, score |-> t.score, priority |-> t.priority,
                status |-> "proposed", progress |-> 0, batch |-> batches]

GenerateGoals(context) ==
    /\ up /\ batches < MaxBatches /\ batches' = batches + 1
    /\ LET new == FilterRedundantGoals(context \cup GenerateGapFillingGoals)
           sorted == SetToSortSeq(new, LAMBDA a, b : a.score > b.score)
       IN  /\ Len(goals) + Len(sorted) <= MaxGoals
           /\ goals' = goals \o [i \in 1 .. Len(sorted) |-> Proposed(sorted[i])]
    /\ UNCHANGED <<activeGoalIds, achievements, knowledgeGaps>>
    /\ SaveState
    /\ UNCHANGED <<beat, up, beats, crashes>>

\* The identifier of a gap is the millisecond: a second one in it takes its place.
\* Nothing is saved.
DetectKnowledgeGap(gap) ==
    /\ up /\ Len(knowledgeGaps) < MaxGaps
    /\ \/ knowledgeGaps' = Append(knowledgeGaps, gap)
       \/ knowledgeGaps # <<>> /\ knowledgeGaps' = Append(Front(knowledgeGaps), gap)
    /\ UNCHANGED <<goals, activeGoalIds, achievements, disk, beat, up, batches, beats, crashes>>

------------------------------------------------------------------------------
(* Selection and activation *)

\* In tenths: what was started counts a fifth more. Dependencies are never generated.
ComputeGoalScore(i) == goals[i].score * (IF goals[i].progress > 0 THEN 12 ELSE 10)
Candidates == {i \in Ids : goals[i].status \in {"proposed", "active"}}
\* Age takes at most a fifth of a score.
SelectNextGoal == {i \in Candidates : \A j \in Candidates : ComputeGoalScore(i) * 10 >= ComputeGoalScore(j) * 8}

Lowest == CHOOSE i \in ToSet(activeGoalIds) :
    \A j \in ToSet(activeGoalIds) : goals[i].priority <= goals[j].priority

Without(i) == SelectSeq(activeGoalIds, LAMBDA j : j # i)
Full == Len(activeGoalIds) >= MaxActive

\* The wrong way round: the goal that makes room stays marked as active.
ActivateKeepingStatus(i) ==
    LET others == IF Full THEN Without(Lowest) ELSE activeGoalIds
    IN  /\ goals' = [goals EXCEPT ![i].status = "active"]
        /\ activeGoalIds' = IF Contains(others, i) THEN others ELSE Append(others, i)
\* deactivateLowestPriorityGoal() may hit the goal itself, or another when the goal is active already.
Activate(i) ==
    LET others == IF Full THEN Without(Lowest) ELSE activeGoalIds
        left == IF Full THEN [goals EXCEPT ![Lowest].status = "proposed"] ELSE goals
    IN  /\ goals' = [left EXCEPT ![i].status = "active"]
        /\ activeGoalIds' = IF Contains(others, i) THEN others ELSE Append(others, i)

\* Nothing is saved until progress is reported.
Heartbeat(b) ==
    /\ up /\ beat[b] = None /\ beats < MaxBeats /\ beats' = beats + 1
    /\ \E i \in SelectNextGoal :
          /\ Activate(i)
          /\ IF goals[i].type \in Pursued
             THEN beat' = [beat EXCEPT ![b] = i]
             ELSE UNCHANGED beat
    /\ UNCHANGED <<achievements, knowledgeGaps, disk, up, batches, crashes>>

\* Only complete progress changes the status.
ReportProgress(i, progress) ==
    /\ goals' = [goals EXCEPT ![i].progress = progress,
                              ![i].status = IF progress = 10 THEN "completed" ELSE @]
    /\ activeGoalIds' = IF progress = 10 THEN Without(i) ELSE activeGoalIds
    /\ achievements' = IF progress = 10 THEN achievements \cup {i} ELSE achievements
    /\ UNCHANGED knowledgeGaps
    /\ SaveState

\* The answer of the model, for a goal that may be complete by now.
Answered(b) ==
    /\ up /\ beat[b] # None
    /\ ReportProgress(beat[b], Reports[goals[beat[b]].type])
    /\ beat' = [beat EXCEPT ![b] = None]
    /\ UNCHANGED <<up, batches, beats, crashes>>

\* The error boundary of the heartbeat takes the error.
NotAnswered(b) ==
    /\ up /\ beat[b] # None
    /\ beat' = [beat EXCEPT ![b] = None]
    /\ UNCHANGED <<memory, disk, up, batches, beats, crashes>>

------------------------------------------------------------------------------
(* Crash and restart *)

Crash ==
    /\ up /\ crashes < MaxCrashes /\ crashes' = crashes + 1
    /\ up' = FALSE
    /\ goals' = <<>> /\ activeGoalIds' = <<>> /\ achievements' = {} /\ knowledgeGaps' = <<>>
    /\ beat' = [b \in Beat |-> None] /\ saves' = {}
    /\ UNCHANGED <<file, overlapped, saved, batches, beats>>

\* A file that cannot be parsed is no file.
LoadState ==
    /\ ~up /\ up' = TRUE
    /\ LET state == IF file = Torn THEN Nothing ELSE file
       IN  /\ goals' = state.goals /\ activeGoalIds' = state.active
           /\ achievements' = state.achievements /\ knowledgeGaps' = state.gaps
    /\ UNCHANGED <<disk, beat, batches, beats, crashes>>

------------------------------------------------------------------------------
Init ==
    /\ goals = <<>> /\ activeGoalIds = <<>> /\ achievements = {} /\ knowledgeGaps = <<>>
    /\ file = Nothing /\ saves = {} /\ overlapped = FALSE /\ saved = Nothing
    /\ beat = [b \in Beat |-> None] /\ up = TRUE
    /\ batches = 0 /\ beats = 0 /\ crashes = 0

Next ==
    \/ \E context \in SUBSET Template : GenerateGoals(context)
    \/ \E t \in Template, impact \in GapImpact : DetectKnowledgeGap([about |-> t.about, impact |-> impact])
    \/ \E b \in Beat : Heartbeat(b) \/ Answered(b) \/ NotAnswered(b)
    \/ SaveEnds \/ Crash \/ LoadState
Spec == Init /\ [][Next]_vars

TypeOK ==
    /\ \A i \in Ids : goals[i].status \in {"proposed", "active", "completed"} /\ goals[i].progress \in 0 .. 10
    /\ Range(activeGoalIds) \subseteq Ids

\* Through overlapping heartbeats, late answers and restarts the list of active goals and
\* the statuses of the goals agree, no goal is listed twice and there are no more than
\* configured. (activateGoal, deactivateLowestPriorityGoal, reportProgress)
ActiveGoalsAgree ==
    /\ ToSet(activeGoalIds) = {i \in Ids : goals[i].status = "active"}
    /\ Len(activeGoalIds) <= MaxActive /\ IsInjective(activeGoalIds)

\* A goal is complete if and only if it has its achievement, whatever a late answer says.
AchievementsAgree == achievements = {i \in Ids : goals[i].status = "completed"}

\* Two goals about the same thing come from one call of generateGoals(): a goal that is
\* known in whatever status is not set a second time. (filterRedundantGoals)
NoGoalTwice ==
    \A i, j \in Ids : i # j /\ goals[i].about = goals[j].about => goals[i].batch = goals[j].batch

\* While writes do not overlap, the file is what was saved last, and it is readable unless
\* a write is under way or was cut off. (saveState)
FileIsLatest == ~overlapped /\ saves = {} => file = saved \/ (crashes > 0 /\ file = Torn)

GoalsAgree == ActiveGoalsAgree /\ AchievementsAgree /\ NoGoalTwice /\ FileIsLatest
=============================================================================
