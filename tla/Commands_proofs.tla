-------------------------- MODULE Commands_proofs --------------------------
(***************************************************************************)
(* What the four components of the commands keep, whatever the values of   *)
(* their constants: the rollout file, the goals and their budget, the      *)
(* profiles and the routes, the deadlines of the operators' services.      *)
(***************************************************************************)
EXTENDS CanaryRollout, AgenticOps, MultiAgent, Governance,
        FiniteSetTheorems, SequenceTheorems, WellFoundedInduction, TLAPS

-----------------------------------------------------------------------------
(* The canary rollout: the file counts what it says for any commands that  *)
(* overlap, and without overlaps the percentage moves in the steps of      *)
(* promoteRollout().                                                       *)

Artifact == [stage : Stage, zeroPass : BOOLEAN, decision : Decision]
Step == {"idle", "previous", "truncate artifact", "write artifact", "truncate report", "write report",
         "update", "truncate rollout", "write rollout",
         "read gate", "route", "load rollout", "load policy"}
Job == [step : Step, stage : Stage \cup {None}, windows : Windows \cup {<<>>},
        artifact : Artifact \cup {Torn}, mode : {"promote", "rollback", None},
        next : Rollout \cup {Torn}, session : Session \cup {None},
        gate : Decision \cup {None}, v2 : BOOLEAN]

Gating == {"truncate artifact", "write artifact", "truncate report", "write report"}
Saving == {"truncate rollout", "write rollout"}
Running == {"read gate", "route", "load rollout", "load policy"}

-----------------------------------------------------------------------------
(* What a change makes of a rollout.                                        *)

\* Every run of a cohort was on one runtime, and no more were decided than ran.
Counts(h) == h.total = h.v1 + h.v2 /\ h.decided <= h.total /\ (h.decided > 0 <=> h.last # None)
CohortsCount(r) == \A s \in Session : Counts(r.cohorts[s])
\* Stage D begins at 50 percent; a default rollout may have more in stage C.
StageIsEarned(r) == r.stage = "D" => r.percent >= 50
StageIsGiven(r) == r.percent >= 50 => r.stage = "D"

LEMMA MinOfTwo ==
    ASSUME NEW a \in Int, NEW b \in Int
    PROVE  Min({a, b}) = IF a <= b THEN a ELSE b
<1> DEFINE m == IF a <= b THEN a ELSE b
<1>1. m \in {a, b} /\ \A y \in {a, b} : m <= y
  OBVIOUS
<1>2. \A x \in {a, b} : (\A y \in {a, b} : x <= y) => x = m
  OBVIOUS
<1> HIDE DEF m
<1>3. Min({a, b}) = m
  BY <1>1, <1>2 DEF Min
<1> QED BY <1>3 DEF m

LEMMA RolloutFields ==
    ASSUME NEW r \in Rollout
    PROVE  /\ r.stage \in {"C", "D"} /\ r.percent \in 0..100
           /\ r.cohorts \in [Session -> Health]
BY DEF Rollout

LEMMA Promoted ==
    ASSUME NEW r \in Rollout
    PROVE  /\ Promote(r) \in Rollout
           /\ Promote(r).cohorts = r.cohorts
           /\ StageIsEarned(Promote(r)) /\ StageIsGiven(Promote(r))
           /\ StageIsEarned(r) =>
                /\ Promote(r).percent \in r.percent .. r.percent + 15
                /\ r.percent < 50 => Promote(r).percent <= 50
<1> DEFINE up == IF r.percent >= 50 THEN "D" ELSE r.stage
           goal == IF up = "C" THEN 50 ELSE 100
           more == r.percent + (IF up = "C" THEN 10 ELSE 15)
           next == Min({goal, more})
<1>1. up \in {"C", "D"} /\ goal \in {50, 100} /\ more \in 0..115 /\ more > r.percent
  BY RolloutFields
<1>2. next = IF goal <= more THEN goal ELSE more
  BY <1>1, MinOfTwo
<1>3. next \in 0..100
  BY <1>1, <1>2
<1>4. Promote(r) = [r EXCEPT !.stage = IF next >= 50 THEN "D" ELSE "C", !.percent = next]
  BY DEF Promote
<1>5. StageIsEarned(r) => next \in r.percent .. r.percent + 15 /\ (r.percent < 50 => next <= 50)
  BY <1>1, <1>2, RolloutFields DEF StageIsEarned
<1> HIDE DEF next
<1>6. /\ Promote(r) \in Rollout /\ Promote(r).cohorts = r.cohorts
      /\ Promote(r).percent = next /\ Promote(r).stage = IF next >= 50 THEN "D" ELSE "C"
  BY <1>3, <1>4 DEF Rollout
<1> QED BY <1>3, <1>5, <1>6 DEF StageIsEarned, StageIsGiven

LEMMA RolledBack ==
    ASSUME NEW r \in Rollout
    PROVE  /\ Rollback(r) \in Rollout
           /\ Rollback(r).cohorts = r.cohorts
           /\ StageIsEarned(Rollback(r)) /\ StageIsGiven(Rollback(r))
           /\ Rollback(r).percent = 0
<1>1. Rollback(r) = [r EXCEPT !.stage = "C", !.percent = 0]
  BY DEF Rollback
<1>2. /\ Rollback(r) \in Rollout /\ Rollback(r).cohorts = r.cohorts
      /\ Rollback(r).stage = "C" /\ Rollback(r).percent = 0
  <2>1. 0 \in 0..100 /\ r.cohorts \in [Session -> Health]
    BY RolloutFields
  <2> QED BY <1>1, <2>1 DEF Rollout
<1> QED BY <1>2 DEF StageIsEarned, StageIsGiven

LEMMA Defaulted ==
    ASSUME NEW percent \in 0..100
    PROVE  /\ DefaultRollout(percent) \in Rollout
           /\ CohortsCount(DefaultRollout(percent))
           /\ StageIsEarned(DefaultRollout(percent))
           /\ percent < 50 => StageIsGiven(DefaultRollout(percent))
           /\ DefaultRollout(percent).percent = percent
<1>1. NoHealth \in Health /\ Counts(NoHealth)
  BY DEF NoHealth, Health, Counts
<1> QED BY <1>1 DEF DefaultRollout, Rollout, CohortsCount, StageIsEarned, StageIsGiven

LEMMA Recorded ==
    ASSUME NEW r \in Rollout, NEW s \in Session, NEW v2 \in BOOLEAN, NEW gate \in Decision \cup {None}
    PROVE  LET n == RecordHealth(r, s, v2, gate)
           IN  /\ n \in Rollout /\ n.stage = r.stage /\ n.percent = r.percent
               /\ CohortsCount(r) => CohortsCount(n)
<1> DEFINE h == r.cohorts[s]
           g == [total |-> h.total + 1,
                 v2 |-> h.v2 + (IF v2 THEN 1 ELSE 0), v1 |-> h.v1 + (IF v2 THEN 0 ELSE 1),
                 decided |-> h.decided + (IF gate = None THEN 0 ELSE 1),
                 last |-> IF gate = None THEN h.last ELSE gate]
           c == [r.cohorts EXCEPT ![s] = g]
           n == RecordHealth(r, s, v2, gate)
<1>1. h \in Health
  BY RolloutFields
<1>2. g \in Health /\ (Counts(h) => Counts(g))
  BY <1>1 DEF Health, Counts
<1>3. n = [r EXCEPT !.cohorts = c]
  BY DEF RecordHealth
<1> HIDE DEF g
<1>4. c \in [Session -> Health] /\ c[s] = g /\ \A t \in Session \ {s} : c[t] = r.cohorts[t]
  BY <1>2, RolloutFields
<1> HIDE DEF c, n
<1>5. n \in Rollout /\ n.stage = r.stage /\ n.percent = r.percent /\ n.cohorts = c
  BY <1>3, <1>4 DEF Rollout
<1>6. CohortsCount(r) => CohortsCount(n)
  BY <1>2, <1>4, <1>5 DEF CohortsCount
<1> QED BY <1>5, <1>6 DEF n

-----------------------------------------------------------------------------
(* Types, and rollouts that commands are about to write.                    *)

JobOK(j) ==
    /\ j.step = "previous" => j.stage \in Stage
    /\ j.step \in Gating => j.artifact \in Artifact
    /\ j.step \in Saving => j.next \in Rollout
    /\ j.step \in Running => j.session \in Session

Sound(r) == CohortsCount(r) /\ StageIsEarned(r)

TypeInv ==
    /\ report \in Decision \cup {Torn}
    /\ artifact \in Artifact \cup {Torn}
    /\ rollout \in Rollout \cup {Torn} /\ lastRollout \in Rollout \cup {Torn}
    /\ rollout # Torn => Sound(rollout)
    /\ lastRollout # Torn => Sound(lastRollout)
    /\ overlap \in BOOLEAN
    /\ job \in [Process -> Job]
    /\ \A p \in Process : JobOK(job[p]) /\ (job[p].step \in Saving => Sound(job[p].next))

LEMMA IdleJob == Idle \in Job /\ Idle.step = "idle"
<1>1. /\ "idle" \in Step /\ None \in Stage \cup {None} /\ <<>> \in Windows \cup {<<>>}
      /\ Torn \in Artifact \cup {Torn} /\ None \in {"promote", "rollback", None}
      /\ Torn \in Rollout \cup {Torn} /\ None \in Session \cup {None}
      /\ None \in Decision \cup {None} /\ FALSE \in BOOLEAN
  BY DEF Step
<1> QED BY <1>1 DEF Idle, Job

\* p goes on with the job j; the files stay in their types.
LEMMA TypeStep ==
    ASSUME TypeInv, NEW p \in Process, NEW j \in Job, Continue(p, j),
           JobOK(j), j.step \in Saving => Sound(j.next),
           report' \in Decision \cup {Torn}, artifact' \in Artifact \cup {Torn},
           rollout' \in Rollout \cup {Torn}, rollout' # Torn => Sound(rollout'),
           lastRollout' \in Rollout \cup {Torn}, lastRollout' # Torn => Sound(lastRollout'),
           overlap' \in BOOLEAN
    PROVE  TypeInv'
<1>1. job' = [job EXCEPT ![p] = j]
  BY DEF Continue
<1>2. job' \in [Process -> Job] /\ job'[p] = j /\ \A q \in Process \ {p} : job'[q] = job[q]
  BY <1>1 DEF TypeInv
<1>3. \A q \in Process : JobOK(job[q])' /\ (job'[q].step \in Saving => Sound(job'[q].next))
  <2> SUFFICES ASSUME NEW q \in Process
               PROVE  JobOK(job[q])' /\ (job'[q].step \in Saving => Sound(job'[q].next))
    OBVIOUS
  <2>1. CASE q = p
    BY <1>2, <2>1 DEF JobOK
  <2>2. CASE q # p
    <3>1. JobOK(job[q]) /\ (job[q].step \in Saving => Sound(job[q].next)) /\ job'[q] = job[q]
      BY <1>2, <2>2 DEF TypeInv
    <3> QED BY <3>1 DEF JobOK
  <2> QED BY <2>1, <2>2
<1>4. (rollout # Torn => Sound(rollout))' /\ (lastRollout # Torn => Sound(lastRollout))'
  BY DEF Sound, CohortsCount, StageIsEarned
<1>5. \A q \in Process : (job[q].step \in Saving => Sound(job[q].next))'
  BY <1>3 DEF Sound, CohortsCount, StageIsEarned
<1> QED BY <1>2, <1>3, <1>4, <1>5 DEF TypeInv

\* What p has read and computed so far.
LEMMA JobFields ==
    ASSUME TypeInv, NEW p \in Process
    PROVE  /\ job[p] \in Job /\ JobOK(job[p])
           /\ job[p].step \in Saving => job[p].next \in Rollout /\ Sound(job[p].next)
BY DEF TypeInv, JobOK

\* The next step of the same command, with the same fields.
LEMMA SameJob ==
    ASSUME NEW j \in Job, NEW step \in Step
    PROVE  LET k == [j EXCEPT !.step = step]
           IN  /\ k \in Job /\ k.step = step /\ k.stage = j.stage /\ k.artifact = j.artifact
               /\ k.next = j.next /\ k.session = j.session
BY DEF Job

\* A rollout is computed and is written next.
LEMMA SavingJob ==
    ASSUME NEW j \in Job, NEW r \in Rollout, Sound(r)
    PROVE  LET k == [j EXCEPT !.step = "truncate rollout", !.next = r]
           IN  k \in Job /\ k.step = "truncate rollout" /\ k.next = r /\ JobOK(k)
<1> DEFINE k == [j EXCEPT !.step = "truncate rollout", !.next = r]
<1>1. k \in Job /\ k.step = "truncate rollout" /\ k.next = r
  BY DEF Job, Step
<1> HIDE DEF k
<1>2. JobOK(k)
  BY <1>1 DEF JobOK, Gating, Saving, Running
<1> QED BY <1>1, <1>2 DEF k

\* Choose() decides something for every stage and window.
LEMMA Decided ==
    ASSUME NEW stage, NEW ws, NEW pass
    PROVE  Choose(stage, ws, pass) \in Decision /\ ZeroMismatchPass(ws) \in BOOLEAN
BY DEF Choose, Decision, ZeroMismatchPass

\* The rollout a command computes.
LEMMA Updated ==
    ASSUME TypeInv, NEW p \in Process, At(p, "update")
    PROVE  LET r == IF rollout = Torn THEN DefaultRollout(PolicyPercent) ELSE rollout
               n == IF job[p].mode = "promote" THEN Promote(r) ELSE Rollback(r)
           IN  r \in Rollout /\ Sound(r) /\ n \in Rollout /\ Sound(n)
<1> DEFINE r == IF rollout = Torn THEN DefaultRollout(PolicyPercent) ELSE rollout
           n == IF job[p].mode = "promote" THEN Promote(r) ELSE Rollback(r)
<1>1. r \in Rollout /\ Sound(r)
  BY RolloutAssumption, Defaulted DEF TypeInv, Sound
<1> HIDE DEF r
<1>2. /\ Promote(r) \in Rollout /\ StageIsEarned(Promote(r)) /\ Promote(r).cohorts = r.cohorts
      /\ Rollback(r) \in Rollout /\ StageIsEarned(Rollback(r)) /\ Rollback(r).cohorts = r.cohorts
  BY <1>1, Promoted, RolledBack
<1>3. Sound(Promote(r)) /\ Sound(Rollback(r))
  BY <1>1, <1>2 DEF Sound, CohortsCount
<1> QED BY <1>1, <1>2, <1>3 DEF r

LEMMA Counted ==
    ASSUME TypeInv, NEW p \in Process, job[p].step \in {"load rollout", "load policy"},
           NEW r \in Rollout, Sound(r)
    PROVE  LET n == RecordHealth(r, job[p].session, job[p].v2, job[p].gate)
           IN  n \in Rollout /\ Sound(n) /\ n.stage = r.stage /\ n.percent = r.percent
<1>1. job[p].session \in Session /\ job[p].v2 \in BOOLEAN /\ job[p].gate \in Decision \cup {None}
  <2>1. job[p] \in Job /\ JobOK(job[p])
    BY JobFields
  <2>2. job[p].session \in Session
    BY <2>1 DEF JobOK, Running
  <2> QED BY <2>1, <2>2 DEF Job
<1> DEFINE n == RecordHealth(r, job[p].session, job[p].v2, job[p].gate)
<1>2. n \in Rollout /\ n.stage = r.stage /\ n.percent = r.percent /\ (CohortsCount(r) => CohortsCount(n))
  BY <1>1, Recorded
<1> HIDE DEF n
<1>3. Sound(n)
  BY <1>2 DEF Sound, StageIsEarned
<1> QED BY <1>2, <1>3 DEF n

LEMMA RoutingRange == TypeInv => RoutingPercent \in 0..100
BY RolloutAssumption, RolloutFields DEF TypeInv, RoutingPercent

LEMMA TypeNext ==
    ASSUME TypeInv, NEW p \in Process,
           \/ BeginGate(p) \/ ReadPrevious(p) \/ TruncateArtifact(p) \/ WriteArtifact(p)
           \/ TruncateReport(p) \/ WriteReport(p)
           \/ BeginUpdate(p) \/ LoadForUpdate(p) \/ TruncateRollout(p) \/ WriteRollout(p)
           \/ BeginRun(p) \/ ReadGate(p) \/ Route(p) \/ LoadForHealth(p) \/ LoadPolicy(p)
    PROVE  TypeInv'
<1>0. /\ job[p] \in Job /\ JobOK(job[p])
      /\ job[p].step \in Saving => job[p].next \in Rollout /\ Sound(job[p].next)
      /\ report \in Decision \cup {Torn} /\ artifact \in Artifact \cup {Torn}
      /\ rollout \in Rollout \cup {Torn} /\ (rollout # Torn => Sound(rollout))
      /\ lastRollout \in Rollout \cup {Torn} /\ (lastRollout # Torn => Sound(lastRollout))
      /\ overlap \in BOOLEAN
      /\ Idle \in Job /\ Idle.step = "idle"
  BY JobFields, IdleJob DEF TypeInv
\* A command begins ...
<1>1. ASSUME NEW j \in Job, Begin(p, j), j.step \notin Gating \cup Saving, JobOK(j)
      PROVE  TypeInv'
  <2>1. Continue(p, j) /\ UNCHANGED <<report, artifact, rollout, lastRollout>> /\ overlap' \in BOOLEAN
    BY <1>1 DEF Begin, files
  <2> QED BY <1>0, <1>1, <2>1, TypeStep
\* ... goes on without a change of the files ...
<1>2. ASSUME NEW j \in Job, Continue(p, j), JobOK(j), j.step \in Saving => Sound(j.next),
             UNCHANGED <<report, artifact, rollout, lastRollout, overlap>>
      PROVE  TypeInv'
  BY <1>0, <1>2, TypeStep
\* ... or ends.
<1>3. JobOK(Idle) /\ Idle.step \notin Saving
  BY <1>0 DEF JobOK, Gating, Saving, Running
<1>4. CASE BeginGate(p)
  <2>1. PICK stage \in GateStages, ws \in Windows :
           Begin(p, [Idle EXCEPT !.step = "previous", !.stage = stage, !.windows = ws])
    BY <1>4 DEF BeginGate
  <2> DEFINE j == [Idle EXCEPT !.step = "previous", !.stage = stage, !.windows = ws]
  <2>2. j \in Job /\ j.step = "previous" /\ j.stage \in Stage
    BY <1>0, RolloutAssumption DEF Job, Step
  <2>3. Begin(p, j)
    BY <2>1
  <2> HIDE DEF j
  <2> QED BY <1>1, <2>2, <2>3 DEF JobOK, Gating, Saving, Running
<1>5. CASE BeginUpdate(p)
  <2>1. PICK mode \in {"promote", "rollback"} : Begin(p, [Idle EXCEPT !.step = "update", !.mode = mode])
    BY <1>5 DEF BeginUpdate
  <2> DEFINE j == [Idle EXCEPT !.step = "update", !.mode = mode]
  <2>2. j \in Job /\ j.step = "update"
    <3>1. "update" \in Step /\ mode \in {"promote", "rollback", None}
      BY DEF Step
    <3>2. j \in Job
      BY <1>0, <3>1 DEF Job
    <3>3. j.step = "update"
      BY <1>0 DEF Job
    <3> QED BY <3>2, <3>3
  <2>3. Begin(p, j)
    BY <2>1
  <2> HIDE DEF j
  <2> QED BY <1>1, <2>2, <2>3 DEF JobOK, Gating, Saving, Running
<1>6. CASE BeginRun(p)
  <2>1. PICK s \in Session : Begin(p, [Idle EXCEPT !.step = "read gate", !.session = s])
    BY <1>6 DEF BeginRun
  <2> DEFINE j == [Idle EXCEPT !.step = "read gate", !.session = s]
  <2>2. j \in Job /\ j.step = "read gate" /\ j.session = s
    <3>1. "read gate" \in Step /\ s \in Session \cup {None} /\ Idle \in Job
      BY <1>0 DEF Step
    <3> QED BY ONLY <3>1 DEF Job
  <2>3. Begin(p, j)
    BY <2>1
  <2> HIDE DEF j
  <2> QED BY <1>1, <2>2, <2>3 DEF JobOK, Gating, Saving, Running
<1>7. CASE ReadPrevious(p)
  <2> DEFINE a == [stage |-> job[p].stage, zeroPass |-> ZeroMismatchPass(job[p].windows),
                   decision |-> Choose(job[p].stage, job[p].windows, PreviousPass)]
             j == [job[p] EXCEPT !.step = "truncate artifact", !.artifact = a]
  <2>1. job[p].stage \in Stage
    BY <1>0, <1>7 DEF ReadPrevious, At, JobOK
  <2>2. a \in Artifact
    BY <2>1, Decided DEF Artifact
  <2>3. Continue(p, j) /\ UNCHANGED <<report, artifact, rollout, lastRollout, overlap>>
    BY <1>7 DEF ReadPrevious, files
  <2> HIDE DEF a
  <2>4. j \in Job /\ j.step = "truncate artifact" /\ j.artifact = a
    BY <1>0, <2>2 DEF Job, Step
  <2> HIDE DEF j
  <2> QED BY <1>2, <2>2, <2>3, <2>4 DEF JobOK, Gating, Saving, Running
<1>8. CASE TruncateArtifact(p) \/ WriteArtifact(p) \/ TruncateReport(p)
  <2>1. PICK step \in Gating : Goto(p, step)
    BY <1>8 DEF TruncateArtifact, WriteArtifact, TruncateReport, Gating
  <2>2. job[p].step \in Gating /\ job[p].artifact \in Artifact
    BY <1>0, <1>8 DEF TruncateArtifact, WriteArtifact, TruncateReport, At, Gating, JobOK
  <2> DEFINE j == [job[p] EXCEPT !.step = step]
  <2>3. j \in Job /\ j.step = step /\ j.artifact = job[p].artifact /\ Continue(p, j)
    <3>1. step \in Step
      BY DEF Gating, Step
    <3>2. Continue(p, j)
      BY <2>1 DEF Goto
    <3> QED BY <1>0, <3>1, <3>2, SameJob
  <2> HIDE DEF j
  <2>4. JobOK(j) /\ j.step \notin Saving
    BY <2>2, <2>3 DEF JobOK, Gating, Saving, Running
  <2>5. /\ artifact' \in Artifact \cup {Torn} /\ report' \in Decision \cup {Torn}
        /\ UNCHANGED <<rollout, lastRollout, overlap>>
    BY <1>0, <1>8, <2>2 DEF TruncateArtifact, WriteArtifact, TruncateReport
  <2> QED BY <1>0, <2>3, <2>4, <2>5, TypeStep
<1>9. CASE WriteReport(p)
  <2>1. job[p].artifact \in Artifact
    BY <1>0, <1>9 DEF WriteReport, At, Gating, JobOK
  <2>2. /\ report' \in Decision \cup {Torn} /\ Continue(p, Idle)
        /\ UNCHANGED <<artifact, rollout, lastRollout, overlap>>
    BY <1>9, <2>1 DEF WriteReport, Finish, Artifact
  <2> QED BY <1>0, <1>3, <2>2, TypeStep
<1>10. CASE LoadForUpdate(p)
  <2> DEFINE r == IF rollout = Torn THEN DefaultRollout(PolicyPercent) ELSE rollout
             n == IF job[p].mode = "promote" THEN Promote(r) ELSE Rollback(r)
             j == [job[p] EXCEPT !.step = "truncate rollout", !.next = n]
  <2>1. Continue(p, j) /\ UNCHANGED <<report, artifact, rollout, lastRollout, overlap>>
    BY <1>10 DEF LoadForUpdate, files
  <2>2. n \in Rollout /\ Sound(n)
    BY <1>10, Updated DEF LoadForUpdate
  <2> HIDE DEF n
  <2>3. j \in Job /\ j.step = "truncate rollout" /\ j.next = n /\ JobOK(j)
    BY <1>0, <2>2, SavingJob
  <2> HIDE DEF j
  <2> QED BY <1>2, <2>1, <2>2, <2>3
<1>11. CASE TruncateRollout(p)
  <2>1. job[p].step \in Saving
    BY <1>11 DEF TruncateRollout, At, Saving
  <2> DEFINE j == [job[p] EXCEPT !.step = "write rollout"]
  <2>2. j \in Job /\ j.step = "write rollout" /\ j.next = job[p].next /\ Continue(p, j)
    BY <1>0, <1>11, SameJob DEF TruncateRollout, Goto, Step
  <2> HIDE DEF j
  <2>3. JobOK(j) /\ Sound(j.next)
    BY <1>0, <2>1, <2>2 DEF JobOK, Gating, Saving, Running
  <2>4. rollout' = Torn /\ UNCHANGED <<report, artifact, lastRollout, overlap>>
    BY <1>11 DEF TruncateRollout
  <2> QED BY <1>0, <2>2, <2>3, <2>4, TypeStep
<1>12. CASE WriteRollout(p)
  <2>1. job[p].next \in Rollout /\ Sound(job[p].next)
    BY <1>0, <1>12 DEF WriteRollout, At, Saving
  <2>2. /\ rollout' = job[p].next /\ lastRollout' = job[p].next /\ Continue(p, Idle)
        /\ UNCHANGED <<report, artifact, overlap>>
    BY <1>12 DEF WriteRollout, Finish
  <2> QED BY <1>0, <1>3, <2>1, <2>2, TypeStep
<1>13. CASE ReadGate(p)
  <2> DEFINE gate == IF report = Torn THEN None ELSE report
             j == [job[p] EXCEPT !.step = "route", !.gate = gate]
  <2>1. UNCHANGED <<report, artifact, rollout, lastRollout, overlap>> /\ (Continue(p, Idle) \/ Continue(p, j))
    BY <1>13 DEF ReadGate, Finish, files
  <2>2. job[p].session \in Session
    BY <1>0, <1>13 DEF ReadGate, At, JobOK, Running
  <2>3. j \in Job /\ j.step = "route" /\ j.session = job[p].session
    <3>1. "route" \in Step /\ gate \in Decision \cup {None}
      BY <1>0 DEF Step
    <3> HIDE DEF gate
    <3> QED BY <1>0, <3>1 DEF Job
  <2> HIDE DEF j
  <2>4. JobOK(j) /\ j.step \notin Saving
    BY <2>2, <2>3 DEF JobOK, Gating, Saving, Running
  <2> QED BY <1>0, <1>2, <1>3, <2>1, <2>3, <2>4
<1>14. CASE Route(p)
  <2> DEFINE v2 == RoutesToV2(job[p].session, RoutingPercent, job[p].gate) \/ DefaultV2
             j == [job[p] EXCEPT !.step = "load rollout", !.v2 = v2]
  <2>1. UNCHANGED <<report, artifact, rollout, lastRollout, overlap>> /\ Continue(p, j)
    BY <1>14 DEF Route, files
  <2>2. job[p].session \in Session
    BY <1>0, <1>14 DEF Route, At, JobOK, Running
  <2>3. v2 \in BOOLEAN
    OBVIOUS
  <2> HIDE DEF v2
  <2>4. j \in Job /\ j.step = "load rollout" /\ j.session = job[p].session
    BY <1>0, <2>3 DEF Job, Step
  <2> HIDE DEF j
  <2>5. JobOK(j) /\ j.step \notin Saving
    BY <2>2, <2>4 DEF JobOK, Gating, Saving, Running
  <2> QED BY <1>2, <2>1, <2>4, <2>5
<1>15. CASE LoadForHealth(p)
  <2>1. UNCHANGED <<report, artifact, rollout, lastRollout, overlap>> /\ job[p].step = "load rollout"
    BY <1>15 DEF LoadForHealth, files, At
  <2>2. CASE rollout = Torn
    <3> DEFINE j == [job[p] EXCEPT !.step = "load policy"]
    <3>1. j \in Job /\ j.step = "load policy" /\ j.session = job[p].session /\ Continue(p, j)
      BY <1>0, <1>15, <2>2, SameJob DEF LoadForHealth, Goto, Step
    <3> HIDE DEF j
    <3>2. JobOK(j) /\ j.step \notin Saving
      BY <1>0, <2>1, <3>1 DEF JobOK, Gating, Saving, Running
    <3> QED BY <1>2, <2>1, <3>1, <3>2
  <2>3. CASE rollout # Torn
    <3> DEFINE n == RecordHealth(rollout, job[p].session, job[p].v2, job[p].gate)
               j == [job[p] EXCEPT !.step = "truncate rollout", !.next = n]
    <3>1. Continue(p, j)
      BY <1>15, <2>3 DEF LoadForHealth
    <3>2. n \in Rollout /\ Sound(n)
      BY <1>0, <2>1, <2>3, Counted
    <3> HIDE DEF n
    <3>3. j \in Job /\ j.step = "truncate rollout" /\ j.next = n /\ JobOK(j)
      BY <1>0, <3>2, SavingJob
    <3> HIDE DEF j
    <3> QED BY <1>2, <2>1, <3>1, <3>2, <3>3
  <2> QED BY <2>2, <2>3
<1>16. CASE LoadPolicy(p)
  <2>1. UNCHANGED <<report, artifact, rollout, lastRollout, overlap>> /\ job[p].step = "load policy"
    BY <1>16 DEF LoadPolicy, files, At
  <2> DEFINE r == DefaultRollout(RoutingPercent)
             n == RecordHealth(r, job[p].session, job[p].v2, job[p].gate)
             j == [job[p] EXCEPT !.step = "truncate rollout", !.next = n]
  <2>2. Continue(p, j)
    BY <1>16 DEF LoadPolicy
  <2>3. r \in Rollout /\ Sound(r)
    BY RoutingRange, Defaulted DEF Sound
  <2> HIDE DEF r
  <2>4. n \in Rollout /\ Sound(n)
    BY <2>1, <2>3, Counted
  <2> HIDE DEF n
  <2>5. j \in Job /\ j.step = "truncate rollout" /\ j.next = n /\ JobOK(j)
    BY <1>0, <2>4, SavingJob
  <2> HIDE DEF j
  <2> QED BY <1>2, <2>1, <2>2, <2>4, <2>5
<1> QED BY <1>4, <1>5, <1>6, <1>7, <1>8, <1>9, <1>10, <1>11, <1>12, <1>13, <1>14, <1>15, <1>16

LEMMA InitTypeInv == Init => TypeInv
<1> SUFFICES ASSUME Init PROVE TypeInv
  OBVIOUS
<1>1. job \in [Process -> Job] /\ \A p \in Process : job[p] = Idle
  BY IdleJob DEF Init
<1>2. \A p \in Process : JobOK(job[p]) /\ job[p].step \notin Saving
  BY <1>1, IdleJob DEF JobOK, Gating, Saving, Running
<1> QED BY <1>1, <1>2 DEF Init, TypeInv

LEMMA NextTypeInv == TypeInv /\ [Next]_vars => TypeInv'
<1> SUFFICES ASSUME TypeInv, [Next]_vars PROVE TypeInv'
  OBVIOUS
<1>1. CASE UNCHANGED vars
  BY <1>1 DEF vars, files, TypeInv, JobOK, Sound, CohortsCount, StageIsEarned
<1> QED BY <1>1, TypeNext DEF Next

\* The files hold decisions, artifacts and rollouts, or are torn, whatever
\* gates, updates and runs are about to write them.
THEOREM TypeCorrect == Spec => []TypeOK
<1>1. TypeInv => TypeOK
  BY DEF TypeInv, TypeOK, Artifact
<1> QED BY <1>1, InitTypeInv, NextTypeInv, PTL DEF Spec

-----------------------------------------------------------------------------
(* As long as no two commands have overlapped.                              *)

\* The percentage that the next rollout starts from, and what it may become.
LastPercent == IF lastRollout = Torn THEN PolicyPercent ELSE lastRollout.percent
Follows(old, r) == r.percent = 0 \/ (r.percent \in old .. old + 15 /\ (old < 50 => r.percent <= 50))

SerialInv ==
    ~overlap =>
        /\ \A p, q \in Process : ~At(p, "idle") /\ ~At(q, "idle") => p = q
        /\ rollout = lastRollout \/ \E p \in Process : At(p, "write rollout")
        /\ \A p \in Process :
            /\ At(p, "load policy") => rollout = Torn
            /\ job[p].step \in Saving => Follows(LastPercent, job[p].next)

\* The only command there is goes on with the job j.
LEMMA SerialStep ==
    ASSUME TypeInv, NEW p \in Process, NEW j, Continue(p, j),
           \A q \in Process \ {p} : At(q, "idle"),
           j.step = "write rollout" \/ rollout' = lastRollout',
           j.step = "load policy" => rollout' = Torn,
           j.step \in Saving => Follows(LastPercent', j.next)
    PROVE  SerialInv'
<1>1. job'[p] = j /\ \A q \in Process \ {p} : job'[q].step = "idle"
  BY DEF TypeInv, Continue, At
<1>2. \A q \in Process : job'[q].step # "idle" => q = p
  BY <1>1
<1>3. "idle" \notin Saving /\ "idle" # "load policy"
  BY DEF Saving
<1>4. \A q \in Process : job'[q].step = "load policy" => rollout' = Torn
  BY <1>1, <1>2
<1>5. \A q \in Process : job'[q].step \in Saving => Follows(LastPercent, job[q].next)'
  BY <1>1, <1>2, <1>3 DEF Follows
<1>6. rollout' = lastRollout' \/ \E q \in Process : job'[q].step = "write rollout"
  BY <1>1
<1> QED BY <1>2, <1>4, <1>5, <1>6 DEF SerialInv, At

\* Rollouts with the old percentage follow, and so do promoted and withdrawn ones.
LEMMA SamePercent ==
    ASSUME NEW old \in 0..100, NEW r, r.percent = old
    PROVE  Follows(old, r)
BY DEF Follows

LEMMA UpdateFollows ==
    ASSUME NEW r \in Rollout, StageIsEarned(r)
    PROVE  Follows(r.percent, Promote(r)) /\ Follows(r.percent, Rollback(r))
BY Promoted, RolledBack DEF Follows

LEMMA SerialNext ==
    ASSUME TypeInv, SerialInv, NEW p \in Process,
           \/ BeginGate(p) \/ ReadPrevious(p) \/ TruncateArtifact(p) \/ WriteArtifact(p)
           \/ TruncateReport(p) \/ WriteReport(p)
           \/ BeginUpdate(p) \/ LoadForUpdate(p) \/ TruncateRollout(p) \/ WriteRollout(p)
           \/ BeginRun(p) \/ ReadGate(p) \/ Route(p) \/ LoadForHealth(p) \/ LoadPolicy(p)
    PROVE  SerialInv'
<1> SUFFICES ASSUME ~overlap' PROVE SerialInv'
  BY DEF SerialInv
<1>0. /\ job[p] \in Job /\ Idle \in Job /\ Idle.step = "idle"
      /\ LastPercent \in 0..100
  BY JobFields, IdleJob, RolloutFields, RolloutAssumption DEF TypeInv, LastPercent
\* A command begins: all others are idle, or there is an overlap from now on.
<1>1. ASSUME NEW j, Begin(p, j), j.step \notin Saving \cup {"load policy"}
      PROVE  SerialInv'
  <2>1. /\ Continue(p, j) /\ UNCHANGED <<rollout, lastRollout>> /\ ~overlap
        /\ job[p].step = "idle" /\ \A q \in Process \ {p} : At(q, "idle")
    BY <1>1 DEF Begin, files, Others, At
  <2>2. rollout = lastRollout
    BY <2>1 DEF SerialInv, At
  <2> QED BY <1>1, <2>1, <2>2, SerialStep
<1>2. ASSUME ~At(p, "idle"), UNCHANGED overlap
      PROVE  /\ \A q \in Process \ {p} : At(q, "idle")
             /\ ~At(p, "write rollout") => rollout = lastRollout
             /\ At(p, "load policy") => rollout = Torn
             /\ job[p].step \in Saving => Follows(LastPercent, job[p].next)
  BY <1>2 DEF SerialInv, At
\* It goes on or ends, and has no rollout to write.
<1>3. ASSUME NEW j, Continue(p, j), j.step \notin Saving, ~At(p, "idle"), ~At(p, "write rollout"),
             j.step = "load policy" => rollout = Torn,
             UNCHANGED <<rollout, lastRollout, overlap>>
      PROVE  SerialInv'
  BY <1>2, <1>3, SerialStep
\* It has computed a rollout.
<1>4. ASSUME NEW j, Continue(p, j), j.step = "truncate rollout", Follows(LastPercent, j.next),
             ~At(p, "idle"), ~At(p, "write rollout"), UNCHANGED <<rollout, lastRollout, overlap>>
      PROVE  SerialInv'
  <2>1. LastPercent' = LastPercent
    BY <1>4 DEF LastPercent
  <2> QED BY <1>2, <1>4, <2>1, SerialStep
<1>5. CASE BeginGate(p)
  <2>1. PICK stage \in GateStages, ws \in Windows :
           Begin(p, [Idle EXCEPT !.step = "previous", !.stage = stage, !.windows = ws])
    BY <1>5 DEF BeginGate
  <2> DEFINE j == [Idle EXCEPT !.step = "previous", !.stage = stage, !.windows = ws]
  <2>2. j \in Job /\ j.step = "previous"
    BY <1>0, RolloutAssumption DEF Job, Step
  <2>3. Begin(p, j)
    BY <2>1
  <2> HIDE DEF j
  <2> QED BY <1>1, <2>2, <2>3 DEF Saving
<1>6. CASE BeginUpdate(p)
  <2>1. PICK mode \in {"promote", "rollback"} : Begin(p, [Idle EXCEPT !.step = "update", !.mode = mode])
    BY <1>6 DEF BeginUpdate
  <2> DEFINE j == [Idle EXCEPT !.step = "update", !.mode = mode]
  <2>2. j \in Job /\ j.step = "update"
    <3>1. "update" \in Step /\ mode \in {"promote", "rollback", None}
      BY DEF Step
    <3>2. j \in Job
      BY <1>0, <3>1 DEF Job
    <3>3. j.step = "update"
      BY <1>0 DEF Job
    <3> QED BY <3>2, <3>3
  <2>3. Begin(p, j)
    BY <2>1
  <2> HIDE DEF j
  <2> QED BY <1>1, <2>2, <2>3 DEF Saving
<1>7. CASE BeginRun(p)
  <2>1. PICK s \in Session : Begin(p, [Idle EXCEPT !.step = "read gate", !.session = s])
    BY <1>7 DEF BeginRun
  <2> DEFINE j == [Idle EXCEPT !.step = "read gate", !.session = s]
  <2>2. j \in Job /\ j.step = "read gate"
    BY <1>0 DEF Job, Step
  <2>3. Begin(p, j)
    BY <2>1
  <2> HIDE DEF j
  <2> QED BY <1>1, <2>2, <2>3 DEF Saving
<1>8. CASE ReadPrevious(p)
  <2> DEFINE a == [stage |-> job[p].stage, zeroPass |-> ZeroMismatchPass(job[p].windows),
                   decision |-> Choose(job[p].stage, job[p].windows, PreviousPass)]
             j == [job[p] EXCEPT !.step = "truncate artifact", !.artifact = a]
  <2>1. Continue(p, j) /\ UNCHANGED <<rollout, lastRollout, overlap>> /\ job[p].step = "previous"
    BY <1>8 DEF ReadPrevious, files, At
  <2> HIDE DEF a
  <2>2. j.step = "truncate artifact"
    BY <1>0 DEF Job
  <2> HIDE DEF j
  <2> QED BY <1>3, <2>1, <2>2 DEF At, Saving
<1>9. CASE TruncateArtifact(p) \/ WriteArtifact(p) \/ TruncateReport(p)
  <2>1. PICK step \in Gating : Goto(p, step)
    BY <1>9 DEF TruncateArtifact, WriteArtifact, TruncateReport, Gating
  <2> DEFINE j == [job[p] EXCEPT !.step = step]
  <2>2. UNCHANGED <<rollout, lastRollout, overlap>> /\ job[p].step \in Gating
    BY <1>9 DEF TruncateArtifact, WriteArtifact, TruncateReport, At, Gating
  <2>3. j.step = step /\ Continue(p, j)
    <3>1. step \in Step
      BY DEF Gating, Step
    <3> QED BY <1>0, <2>1, <3>1, SameJob DEF Goto
  <2> HIDE DEF j
  <2>4. step \notin Saving /\ step # "load policy"
    BY DEF Gating, Saving
  <2> QED BY <1>3, <2>2, <2>3, <2>4 DEF At, Gating
<1>10. ASSUME Finish(p), ~At(p, "idle"), ~At(p, "write rollout"), UNCHANGED <<rollout, lastRollout, overlap>>
      PROVE  SerialInv'
  BY <1>0, <1>3, <1>10 DEF Finish, Saving
<1>11. CASE WriteReport(p)
  BY <1>10, <1>11 DEF WriteReport, At
<1>12. CASE LoadForUpdate(p)
  <2> DEFINE r == IF rollout = Torn THEN DefaultRollout(PolicyPercent) ELSE rollout
             n == IF job[p].mode = "promote" THEN Promote(r) ELSE Rollback(r)
             j == [job[p] EXCEPT !.step = "truncate rollout", !.next = n]
  <2>1. /\ Continue(p, j) /\ UNCHANGED <<rollout, lastRollout, overlap>>
        /\ job[p].step = "update" /\ At(p, "update")
    BY <1>12 DEF LoadForUpdate, files, At
  <2>2. rollout = lastRollout
    BY <1>2, <2>1 DEF At
  <2>3. r.percent = LastPercent
    BY <2>2, RolloutAssumption, Defaulted DEF LastPercent
  <2>4. r \in Rollout /\ StageIsEarned(r) /\ n \in Rollout /\ Sound(n)
    BY <2>1, Updated DEF Sound
  <2> HIDE DEF r
  <2>5. Follows(LastPercent, n)
    BY <2>3, <2>4, UpdateFollows
  <2> HIDE DEF n
  <2>6. j.step = "truncate rollout" /\ j.next = n
    BY <1>0, <2>4, SavingJob
  <2> HIDE DEF j
  <2> QED BY <1>4, <2>1, <2>5, <2>6 DEF At
<1>13. CASE TruncateRollout(p)
  <2> DEFINE j == [job[p] EXCEPT !.step = "write rollout"]
  <2>1. /\ UNCHANGED <<lastRollout, overlap>> /\ job[p].step = "truncate rollout"
        /\ Continue(p, j)
    BY <1>13 DEF TruncateRollout, At, Goto
  <2>2. j.step = "write rollout" /\ j.next = job[p].next
    BY <1>0, SameJob DEF Step
  <2>3. Follows(LastPercent, job[p].next) /\ \A q \in Process \ {p} : At(q, "idle")
    BY <1>2, <2>1 DEF At, Saving
  <2>4. LastPercent' = LastPercent
    BY <2>1 DEF LastPercent
  <2> HIDE DEF j
  <2> QED BY <2>1, <2>2, <2>3, <2>4, SerialStep
<1>14. CASE WriteRollout(p)
  <2>1. /\ UNCHANGED overlap /\ job[p].step = "write rollout" /\ rollout' = lastRollout'
        /\ Continue(p, Idle)
    BY <1>14 DEF WriteRollout, At, Finish
  <2>2. \A q \in Process \ {p} : At(q, "idle")
    BY <1>2, <2>1 DEF At
  <2> QED BY <1>0, <2>1, <2>2, SerialStep DEF Saving
<1>15. CASE ReadGate(p)
  <2> DEFINE gate == IF report = Torn THEN None ELSE report
             j == [job[p] EXCEPT !.step = "route", !.gate = gate]
  <2>1. /\ UNCHANGED <<rollout, lastRollout, overlap>> /\ job[p].step = "read gate"
        /\ Finish(p) \/ Continue(p, j)
    BY <1>15 DEF ReadGate, files, At
  <2>2. j.step = "route"
    BY <1>0 DEF Job
  <2> HIDE DEF j
  <2> QED BY <1>3, <1>10, <2>1, <2>2 DEF At, Saving
<1>16. CASE Route(p)
  <2> DEFINE v2 == RoutesToV2(job[p].session, RoutingPercent, job[p].gate) \/ DefaultV2
             j == [job[p] EXCEPT !.step = "load rollout", !.v2 = v2]
  <2>1. UNCHANGED <<rollout, lastRollout, overlap>> /\ job[p].step = "route" /\ Continue(p, j)
    BY <1>16 DEF Route, files, At
  <2> HIDE DEF v2
  <2>2. j.step = "load rollout"
    BY <1>0 DEF Job
  <2> HIDE DEF j
  <2> QED BY <1>3, <2>1, <2>2 DEF At, Saving
<1>17. CASE LoadForHealth(p)
  <2>1. UNCHANGED <<rollout, lastRollout, overlap>> /\ job[p].step = "load rollout"
    BY <1>17 DEF LoadForHealth, files, At
  <2>2. rollout = lastRollout
    BY <1>2, <2>1 DEF At
  <2>3. CASE rollout = Torn
    <3> DEFINE j == [job[p] EXCEPT !.step = "load policy"]
    <3>1. j.step = "load policy" /\ Continue(p, j)
      BY <1>0, <1>17, <2>3, SameJob DEF LoadForHealth, Goto, Step
    <3> HIDE DEF j
    <3> QED BY <1>3, <2>1, <2>3, <3>1 DEF At, Saving
  <2>4. CASE rollout # Torn
    <3> DEFINE n == RecordHealth(rollout, job[p].session, job[p].v2, job[p].gate)
               j == [job[p] EXCEPT !.step = "truncate rollout", !.next = n]
    <3>1. Continue(p, j)
      BY <1>17, <2>4 DEF LoadForHealth
    <3>2. rollout \in Rollout /\ Sound(rollout)
      BY <2>4 DEF TypeInv
    <3>3. n \in Rollout /\ Sound(n) /\ n.percent = rollout.percent
      BY <2>1, <3>2, Counted
    <3> HIDE DEF n
    <3>4. Follows(LastPercent, n)
      BY <1>0, <2>2, <2>4, <3>3, SamePercent DEF LastPercent
    <3>5. j.step = "truncate rollout" /\ j.next = n
      BY <1>0, <3>3, SavingJob
    <3> HIDE DEF j
    <3> QED BY <1>4, <2>1, <3>1, <3>4, <3>5 DEF At
  <2> QED BY <2>3, <2>4
<1>18. CASE LoadPolicy(p)
  <2>1. UNCHANGED <<rollout, lastRollout, overlap>> /\ job[p].step = "load policy"
    BY <1>18 DEF LoadPolicy, files, At
  <2>2. rollout = Torn /\ lastRollout = Torn
    BY <1>2, <2>1 DEF At
  <2> DEFINE r == DefaultRollout(RoutingPercent)
             n == RecordHealth(r, job[p].session, job[p].v2, job[p].gate)
             j == [job[p] EXCEPT !.step = "truncate rollout", !.next = n]
  <2>3. Continue(p, j)
    BY <1>18 DEF LoadPolicy
  <2>4. r \in Rollout /\ Sound(r) /\ r.percent = LastPercent
    BY <2>2, RoutingRange, Defaulted DEF Sound, RoutingPercent, LastPercent
  <2> HIDE DEF r
  <2>5. n \in Rollout /\ Sound(n) /\ n.percent = r.percent
    BY <2>1, <2>4, Counted
  <2> HIDE DEF n
  <2>6. Follows(LastPercent, n)
    BY <1>0, <2>4, <2>5, SamePercent
  <2>7. j.step = "truncate rollout" /\ j.next = n
    BY <1>0, <2>5, SavingJob
  <2> HIDE DEF j
  <2> QED BY <1>4, <2>1, <2>3, <2>6, <2>7 DEF At
<1> QED BY <1>5, <1>6, <1>7, <1>8, <1>9, <1>11, <1>12, <1>13, <1>14, <1>15, <1>16, <1>17, <1>18

LEMMA InitSerialInv == Init => SerialInv
<1> SUFFICES ASSUME Init PROVE SerialInv
  OBVIOUS
<1>1. \A p \in Process : job[p].step = "idle"
  BY IdleJob DEF Init
<1> QED BY <1>1 DEF Init, SerialInv, At, Saving

LEMMA NextSerialInv == TypeInv /\ SerialInv /\ [Next]_vars => SerialInv'
<1> SUFFICES ASSUME TypeInv, SerialInv, [Next]_vars PROVE SerialInv'
  OBVIOUS
<1>1. CASE UNCHANGED vars
  BY <1>1 DEF vars, files, SerialInv, At, Follows, LastPercent
<1> QED BY <1>1, SerialNext DEF Next

\* Only the last step of a command that saves the rollout makes another one the last.
LEMMA LastRolloutChanges ==
    ASSUME [Next]_vars, lastRollout' # lastRollout
    PROVE  \E p \in Process : WriteRollout(p)
<1>1. Next
  BY DEF vars
<1> QED BY <1>1 DEF Next, BeginGate, ReadPrevious, TruncateArtifact, WriteArtifact, TruncateReport, WriteReport,
          BeginUpdate, LoadForUpdate, TruncateRollout, BeginRun, ReadGate, Route, LoadForHealth, LoadPolicy,
          Begin

\* For any policy and any sequence of gates, updates and runs that do not
\* overlap, the percentage moves as promoteRollout() and rollbackRollout() say.
THEOREM PromotionGoesByStep == Spec => PromotionIsStepwise
<1> DEFINE Stepwise == ~overlap /\ lastRollout' # lastRollout =>
               \/ lastRollout'.percent = 0
               \/ /\ lastRollout'.percent \in LastPercent .. LastPercent + 15
                  /\ LastPercent < 50 => lastRollout'.percent <= 50
<1>1. TypeInv /\ SerialInv /\ [Next]_vars => [Stepwise]_vars
  <2> SUFFICES ASSUME SerialInv, [Next]_vars, ~overlap, lastRollout' # lastRollout
               PROVE  Follows(LastPercent, lastRollout')
    BY DEF Follows
  <2>1. PICK p \in Process : WriteRollout(p)
    BY LastRolloutChanges
  <2>2. job[p].step \in Saving /\ lastRollout' = job[p].next
    BY <2>1 DEF WriteRollout, At, Saving
  <2>3. Follows(LastPercent, job[p].next)
    BY <2>2 DEF SerialInv
  <2> QED BY <2>2, <2>3
<1> QED BY <1>1, InitTypeInv, NextTypeInv, InitSerialInv, NextSerialInv, PTL DEF Spec, PromotionIsStepwise, LastPercent

-----------------------------------------------------------------------------
(* The stage of a rollout and its percentage.                               *)

\* If the policy starts below 50 percent, a rollout that has them is in stage D.
GivenInv ==
    ~overlap =>
        /\ rollout # Torn => StageIsGiven(rollout)
        /\ \A p \in Process : job[p].step \in Saving => StageIsGiven(job[p].next)

\* These steps neither save a rollout nor prepare one.
LEMMA NothingSaved ==
    ASSUME TypeInv, NEW p \in Process,
           \/ BeginGate(p) \/ ReadPrevious(p) \/ TruncateArtifact(p) \/ WriteArtifact(p)
           \/ TruncateReport(p) \/ WriteReport(p)
           \/ BeginUpdate(p) \/ BeginRun(p) \/ ReadGate(p) \/ Route(p)
    PROVE  /\ UNCHANGED rollout /\ (overlap => overlap')
           /\ \E j : Continue(p, j) /\ j.step \notin Saving
<1>0. job[p] \in Job /\ Idle \in Job /\ Idle.step = "idle"
  BY JobFields, IdleJob
<1>1. ASSUME NEW j, Begin(p, j), j.step \notin Saving
      PROVE  /\ UNCHANGED rollout /\ (overlap => overlap')
             /\ \E k : Continue(p, k) /\ k.step \notin Saving
  BY <1>1 DEF Begin, files
<1>2. CASE BeginGate(p)
  <2>1. \A stage, ws : [Idle EXCEPT !.step = "previous", !.stage = stage, !.windows = ws].step = "previous"
    BY <1>0 DEF Job
  <2> QED BY <1>1, <1>2, <2>1 DEF BeginGate, Saving
<1>3. CASE BeginUpdate(p)
  <2>1. \A mode : [Idle EXCEPT !.step = "update", !.mode = mode].step = "update"
    BY <1>0 DEF Job
  <2> QED BY <1>1, <1>3, <2>1 DEF BeginUpdate, Saving
<1>4. CASE BeginRun(p)
  <2>1. \A s : [Idle EXCEPT !.step = "read gate", !.session = s].step = "read gate"
    BY <1>0 DEF Job
  <2> QED BY <1>1, <1>4, <2>1 DEF BeginRun, Saving
<1>5. UNCHANGED rollout /\ (overlap => overlap')
  <2>1. \A j : Begin(p, j) => UNCHANGED rollout /\ (overlap => overlap')
    BY DEF Begin, files
  <2>2. CASE BeginGate(p) \/ BeginUpdate(p) \/ BeginRun(p)
    BY <2>1, <2>2 DEF BeginGate, BeginUpdate, BeginRun
  <2>3. CASE \/ ReadPrevious(p) \/ TruncateArtifact(p) \/ WriteArtifact(p)
             \/ TruncateReport(p) \/ WriteReport(p) \/ ReadGate(p) \/ Route(p)
    <3>1. rollout' = rollout /\ overlap' = overlap
      BY <2>3 DEF ReadPrevious, TruncateArtifact, WriteArtifact, TruncateReport, WriteReport, ReadGate, Route, files
    <3> QED BY <3>1
  <2> QED BY <2>2, <2>3
<1>6. CASE ReadPrevious(p)
  <2>1. \A a : [job[p] EXCEPT !.step = "truncate artifact", !.artifact = a].step = "truncate artifact"
    BY <1>0 DEF Job
  <2> QED BY <1>5, <1>6, <2>1 DEF ReadPrevious, Saving
<1>7. CASE TruncateArtifact(p) \/ WriteArtifact(p) \/ TruncateReport(p)
  <2>1. \A step \in Step : [job[p] EXCEPT !.step = step].step = step
    BY <1>0, SameJob
  <2> QED BY <1>5, <1>7, <2>1 DEF TruncateArtifact, WriteArtifact, TruncateReport, Goto, Step, Saving
<1>8. CASE WriteReport(p)
  BY <1>0, <1>5, <1>8 DEF WriteReport, Finish, Saving
<1>9. CASE ReadGate(p)
  <2>1. \A gate : [job[p] EXCEPT !.step = "route", !.gate = gate].step = "route"
    BY <1>0 DEF Job
  <2> QED BY <1>0, <1>5, <1>9, <2>1 DEF ReadGate, Finish, Saving
<1>10. CASE Route(p)
  <2>1. \A v2 : [job[p] EXCEPT !.step = "load rollout", !.v2 = v2].step = "load rollout"
    BY <1>0 DEF Job
  <2> QED BY <1>5, <1>10, <2>1 DEF Route, Saving
<1> QED BY <1>2, <1>3, <1>4, <1>6, <1>7, <1>8, <1>9, <1>10

LEMMA GivenNext ==
    ASSUME PolicyPercent < 50, TypeInv, SerialInv, GivenInv, NEW p \in Process,
           \/ BeginGate(p) \/ ReadPrevious(p) \/ TruncateArtifact(p) \/ WriteArtifact(p)
           \/ TruncateReport(p) \/ WriteReport(p)
           \/ BeginUpdate(p) \/ LoadForUpdate(p) \/ TruncateRollout(p) \/ WriteRollout(p)
           \/ BeginRun(p) \/ ReadGate(p) \/ Route(p) \/ LoadForHealth(p) \/ LoadPolicy(p)
    PROVE  GivenInv'
<1> SUFFICES ASSUME ~overlap' PROVE GivenInv'
  BY DEF GivenInv
<1>0. job[p] \in Job /\ Idle \in Job /\ Idle.step = "idle"
  BY JobFields, IdleJob
<1>1. ASSUME NEW j, Continue(p, j), j.step \in Saving => StageIsGiven(j.next), ~overlap,
             rollout' # Torn => StageIsGiven(rollout')
      PROVE  GivenInv'
  <2>1. job'[p] = j /\ \A q \in Process \ {p} : job'[q] = job[q]
    BY <1>1 DEF TypeInv, Continue
  <2>2. \A q \in Process : job'[q].step \in Saving => StageIsGiven(job'[q].next)
    BY <1>1, <2>1 DEF GivenInv
  <2> QED BY <1>1, <2>2 DEF GivenInv, StageIsGiven
<1>2. ~overlap => (rollout # Torn => StageIsGiven(rollout))
  BY DEF GivenInv
\* A rollout was computed.
<1>3. ASSUME NEW n \in Rollout, Sound(n), StageIsGiven(n), UNCHANGED <<rollout, overlap>>,
             Continue(p, [job[p] EXCEPT !.step = "truncate rollout", !.next = n])
      PROVE  GivenInv'
  <2> DEFINE j == [job[p] EXCEPT !.step = "truncate rollout", !.next = n]
  <2>1. j.next = n /\ Continue(p, j)
    BY <1>0, <1>3, SavingJob
  <2> HIDE DEF j
  <2> QED BY <1>1, <1>2, <1>3, <2>1
<1>4. CASE \/ BeginGate(p) \/ ReadPrevious(p) \/ TruncateArtifact(p) \/ WriteArtifact(p)
           \/ TruncateReport(p) \/ WriteReport(p)
           \/ BeginUpdate(p) \/ BeginRun(p) \/ ReadGate(p) \/ Route(p)
  <2>1. /\ UNCHANGED rollout /\ (overlap => overlap')
        /\ \E j : Continue(p, j) /\ j.step \notin Saving
    BY <1>4, NothingSaved
  <2> QED BY <1>1, <1>2, <2>1
<1>5. CASE LoadForUpdate(p)
  <2> DEFINE r == IF rollout = Torn THEN DefaultRollout(PolicyPercent) ELSE rollout
             n == IF job[p].mode = "promote" THEN Promote(r) ELSE Rollback(r)
  <2>1. r \in Rollout /\ n \in Rollout /\ Sound(n)
    BY <1>5, Updated DEF LoadForUpdate
  <2>2. StageIsGiven(n)
    BY <2>1, Promoted, RolledBack
  <2>3. /\ UNCHANGED <<rollout, overlap>>
        /\ Continue(p, [job[p] EXCEPT !.step = "truncate rollout", !.next = n])
    BY <1>5 DEF LoadForUpdate, files
  <2> QED BY <1>3, <2>1, <2>2, <2>3
<1>6. CASE TruncateRollout(p)
  <2> DEFINE j == [job[p] EXCEPT !.step = "write rollout"]
  <2>1. job[p].step \in Saving /\ rollout' = Torn /\ ~overlap /\ Continue(p, j)
    BY <1>6 DEF TruncateRollout, At, Goto, Saving
  <2>2. j.next = job[p].next
    BY <1>0, SameJob DEF Step
  <2>3. StageIsGiven(job[p].next)
    BY <2>1 DEF GivenInv
  <2> HIDE DEF j
  <2> QED BY <1>1, <2>1, <2>2, <2>3
<1>7. CASE WriteRollout(p)
  <2>1. job[p].step \in Saving /\ rollout' = job[p].next /\ ~overlap /\ Continue(p, Idle)
    BY <1>7 DEF WriteRollout, At, Finish, Saving
  <2>2. StageIsGiven(job[p].next)
    BY <2>1 DEF GivenInv
  <2> QED BY <1>0, <1>1, <2>1, <2>2 DEF Saving
<1>8. CASE LoadForHealth(p)
  <2>1. UNCHANGED <<rollout, overlap>> /\ job[p].step = "load rollout"
    BY <1>8 DEF LoadForHealth, files, At
  <2>2. CASE rollout = Torn
    <3> DEFINE j == [job[p] EXCEPT !.step = "load policy"]
    <3>1. j.step = "load policy" /\ Continue(p, j)
      BY <1>0, <1>8, <2>2, SameJob DEF LoadForHealth, Goto, Step
    <3> HIDE DEF j
    <3> QED BY <1>1, <2>1, <2>2, <3>1 DEF Saving
  <2>3. CASE rollout # Torn
    <3> DEFINE n == RecordHealth(rollout, job[p].session, job[p].v2, job[p].gate)
    <3>1. rollout \in Rollout /\ Sound(rollout) /\ StageIsGiven(rollout)
      BY <1>2, <2>1, <2>3 DEF TypeInv
    <3>2. n \in Rollout /\ Sound(n) /\ n.stage = rollout.stage /\ n.percent = rollout.percent
      BY <2>1, <3>1, Counted
    <3>3. Continue(p, [job[p] EXCEPT !.step = "truncate rollout", !.next = n])
      BY <1>8, <2>3 DEF LoadForHealth
    <3> HIDE DEF n
    <3> QED BY <1>3, <2>1, <3>1, <3>2, <3>3 DEF StageIsGiven
  <2> QED BY <2>2, <2>3
<1>9. CASE LoadPolicy(p)
  <2>1. UNCHANGED <<rollout, overlap>> /\ job[p].step = "load policy"
    BY <1>9 DEF LoadPolicy, files, At
  <2>2. rollout = Torn
    BY <2>1 DEF SerialInv, At
  <2> DEFINE r == DefaultRollout(RoutingPercent)
             n == RecordHealth(r, job[p].session, job[p].v2, job[p].gate)
  <2>3. Continue(p, [job[p] EXCEPT !.step = "truncate rollout", !.next = n])
    BY <1>9 DEF LoadPolicy
  <2>4. r \in Rollout /\ Sound(r) /\ StageIsGiven(r)
    BY <2>2, RoutingRange, Defaulted DEF Sound, RoutingPercent
  <2> HIDE DEF r
  <2>5. n \in Rollout /\ Sound(n) /\ n.stage = r.stage /\ n.percent = r.percent
    BY <2>1, <2>4, Counted
  <2> HIDE DEF n
  <2> QED BY <1>3, <2>1, <2>3, <2>4, <2>5 DEF StageIsGiven
<1> QED BY <1>4, <1>5, <1>6, <1>7, <1>8, <1>9

\* The file that can be read counts every run once, and is in stage D from 50
\* percent on only, whatever commands overlap. If the policy starts below 50
\* percent and no commands overlap, it is in stage D as soon as it has them.
THEOREM RolloutStaysConsistent ==
    ASSUME PolicyPercent < 50
    PROVE  Spec => []RolloutIsConsistent
<1>1. Init => GivenInv
  <2> SUFFICES ASSUME Init PROVE GivenInv
    OBVIOUS
  <2>1. \A p \in Process : job[p].step = "idle"
    BY IdleJob DEF Init
  <2> QED BY <2>1 DEF Init, GivenInv, Saving
<1>2. TypeInv /\ SerialInv /\ GivenInv /\ [Next]_vars => GivenInv'
  <2> SUFFICES ASSUME TypeInv, SerialInv, GivenInv, [Next]_vars PROVE GivenInv'
    OBVIOUS
  <2>1. CASE UNCHANGED vars
    BY <2>1 DEF vars, files, GivenInv, StageIsGiven
  <2> QED BY <2>1, GivenNext DEF Next
<1>3. TypeInv /\ GivenInv => RolloutIsConsistent
  BY DEF TypeInv, GivenInv, RolloutIsConsistent, Sound, CohortsCount, Counts, StageIsEarned, StageIsGiven
<1> QED BY <1>1, <1>2, <1>3, InitTypeInv, NextTypeInv, InitSerialInv, NextSerialInv, PTL DEF Spec

-----------------------------------------------------------------------------
(* The services of the operators: approvals, sessions, tenants.            *)

Answer == {"approved", "denied"}
RequestRecord == [status : {"pending", "approved", "rejected", "expired"}, expiresAt : Nat \cup {Absent},
                  decidedAt : Nat \cup {Absent}, decidedBy : Operator \cup {Absent}]
SessionRecord == [createdAt : Nat, lastActiveAt : Nat]
CommandRecord == [at : {"idle", "truncate", "fill", "done"}, decision : Answer \cup {Absent}, read : Seq(Answer)]

\* A request was decided by an operator or not at all, and within its own expiry.
RequestSound(q) ==
    /\ q.status \in {"approved", "rejected"} <=> q.decidedBy \in Operator
    /\ q.expiresAt # Absent =>
        /\ q.decidedAt # Absent => q.decidedAt <= q.expiresAt
        /\ q.status = "expired" => q.expiresAt < time

SessionSound(s) ==
    /\ validated[s] \in Nat \cup {Absent}
    /\ validated[s] # Absent => validated[s] <= time
    /\ opSession[s] # Absent =>
        /\ opSession[s] \in SessionRecord
        /\ validated[s] # Absent =>
            validated[s] <= opSession[s].createdAt + MaxTotal /\ validated[s] <= opSession[s].lastActiveAt

ServicesInv ==
    /\ time \in Nat /\ policy \in AutoExpire \cup {Absent}
    /\ DOMAIN request = Request /\ DOMAIN opSession = OpSession /\ DOMAIN validated = OpSession
    /\ \A r \in Request : request[r] # Absent => request[r] \in RequestRecord /\ RequestSound(request[r])
    /\ \A s \in OpSession : SessionSound(s)
    /\ boundary \in [Tenants -> SUBSET Operator]
    /\ \A t \in Tenants : \A o \in boundary[t] : Tenant[o] = t \/ o \in Admin

\* Without an overlap one command is on its way, and what it has read is what was reported.
AnswersInv ==
    /\ command \in [Command -> CommandRecord] /\ reported \in Seq(Answer)
    /\ approvals \in Seq(Answer) \cup {Absent, Broken} /\ overlapping \in BOOLEAN
    /\ \A c \in Command : command[c].at \in {"truncate", "fill"} => command[c].decision \in Answer
    /\ ~overlapping =>
        /\ \A c, d \in Command :
            command[c].at \in {"truncate", "fill"} /\ command[d].at \in {"truncate", "fill"} => c = d
        /\ \A c \in Command : command[c].at \in {"truncate", "fill"} => command[c].read = reported
    /\ DecisionsAreKept

GovernanceInv == ServicesInv /\ AnswersInv

LEMMA WaitingCommand == Waiting \in CommandRecord /\ [Waiting EXCEPT !.at = "done"] \in CommandRecord
<1>1. <<>> \in Seq(Answer)
  OBVIOUS
<1> QED BY <1>1 DEF Waiting, CommandRecord

LEMMA GovernanceInitial == GovernanceInit => GovernanceInv
<1> SUFFICES ASSUME GovernanceInit PROVE GovernanceInv
  OBVIOUS
<1> USE GovernanceAssumption DEF GovernanceInit
<1>1. ServicesInv
  BY DEF ServicesInv, SessionSound
<1>2. AnswersInv
  <2>1. command \in [Command -> CommandRecord] /\ reported \in Seq(Answer)
    BY WaitingCommand
  <2>2. \A c \in Command : command[c].at = "idle"
    BY DEF Waiting
  <2> QED BY <2>1, <2>2 DEF AnswersInv, DecisionsAreKept
<1> QED BY <1>1, <1>2 DEF GovernanceInv

LEMMA ServicesStep ==
    ASSUME ServicesInv, GovernanceNext \/ UNCHANGED governanceVars
    PROVE  ServicesInv'
<1> USE GovernanceAssumption
<1> DEFINE rest == <<policy, request, opSession, validated, boundary>>
<1>0. ASSUME time' = time \/ time' = time + 1, UNCHANGED rest PROVE ServicesInv'
  <2>1. time' \in Nat /\ time <= time'
    BY <1>0 DEF ServicesInv
  <2> QED BY <1>0, <2>1 DEF ServicesInv, SessionSound, RequestSound, RequestRecord
<1>1. CASE SetPolicy
  BY <1>1 DEF SetPolicy, ServicesInv, SessionSound, RequestSound
<1>2. ASSUME NEW r \in Request, CreateRequest(r) PROVE ServicesInv'
  <2> DEFINE q == [status |-> "pending", expiresAt |-> IF policy = Absent THEN Absent ELSE time + policy,
                   decidedAt |-> Absent, decidedBy |-> Absent]
  <2>1. q \in RequestRecord /\ RequestSound(q)
    BY DEF RequestRecord, RequestSound, ServicesInv
  <2>2. request' = [request EXCEPT ![r] = q] /\ UNCHANGED <<time, policy, opSession, validated, boundary>>
    BY <1>2 DEF CreateRequest
  <2> HIDE DEF q
  <2> QED BY <2>1, <2>2 DEF ServicesInv, SessionSound, RequestSound
<1>3. ASSUME NEW r \in Request, Decide(r) PROVE ServicesInv'
  <2>1. PICK o \in Operator, status \in {"approved", "rejected"} :
            request' = [request EXCEPT ![r].status = status, ![r].decidedAt = time, ![r].decidedBy = o]
    BY <1>3 DEF Decide
  <2>2. UNCHANGED <<time, policy, opSession, validated, boundary>> /\ Decidable(r)
    BY <1>3 DEF Decide
  <2>3. request[r] \in RequestRecord
    BY <2>2 DEF Decidable, ServicesInv
  <2>4. request'[r] \in RequestRecord /\ RequestSound(request'[r])
    BY <2>1, <2>2, <2>3 DEF Decidable, Overdue, ServicesInv, RequestRecord, RequestSound
  <2> QED BY <2>1, <2>2, <2>4 DEF ServicesInv, SessionSound, RequestSound
<1>4. CASE ExpireOldRequests
  <2>1. UNCHANGED <<time, policy, opSession, validated, boundary>> /\ DOMAIN request' = Request
    BY <1>4 DEF ExpireOldRequests
  <2>2. ASSUME NEW r \in Request, request'[r] # Absent
        PROVE  request'[r] \in RequestRecord /\ RequestSound(request'[r])
    <3>1. CASE request[r] # Absent /\ request[r].status = "pending" /\ Overdue(r)
      <4>1. request'[r] = [request[r] EXCEPT !.status = "expired"] /\ request[r] \in RequestRecord
        BY <1>4, <3>1 DEF ExpireOldRequests, ServicesInv
      <4> QED BY <3>1, <4>1 DEF Overdue, ServicesInv, RequestRecord, RequestSound
    <3>2. CASE ~(request[r] # Absent /\ request[r].status = "pending" /\ Overdue(r))
      BY <1>4, <3>2, <2>2 DEF ExpireOldRequests, ServicesInv
    <3> QED BY <3>1, <3>2
  <2> QED BY <2>1, <2>2 DEF ServicesInv, SessionSound, RequestSound
<1>5. ASSUME NEW s \in OpSession, UNCHANGED <<time, policy, request, boundary>>,
             DOMAIN opSession' = OpSession, DOMAIN validated' = OpSession,
             \A k \in OpSession \ {s} : opSession'[k] = opSession[k] /\ validated'[k] = validated[k],
             SessionSound(s)'
      PROVE  ServicesInv'
  BY <1>5 DEF ServicesInv, SessionSound, RequestSound
<1>6. ASSUME NEW s \in OpSession, CreateOpSession(s) PROVE ServicesInv'
  <2>1. SessionSound(s)'
    BY <1>6 DEF CreateOpSession, ServicesInv, SessionSound, SessionRecord
  <2> QED BY <1>5, <1>6, <2>1 DEF CreateOpSession, ServicesInv
<1>7. ASSUME NEW s \in OpSession, Touch(s) PROVE ServicesInv'
  <2>1. SessionSound(s)'
    BY <1>7 DEF Touch, ServicesInv, SessionSound, SessionRecord
  <2> QED BY <1>5, <1>7, <2>1 DEF Touch, ServicesInv
<1>8. ASSUME NEW s \in OpSession, ValidateSession(s) PROVE ServicesInv'
  <2>1. SessionSound(s)'
    BY <1>8 DEF ValidateSession, Expired, ServicesInv, SessionSound, SessionRecord
  <2> QED BY <1>5, <1>8, <2>1 DEF ValidateSession, ServicesInv
<1>9. ASSUME NEW s \in OpSession, Terminate(s) PROVE ServicesInv'
  <2>1. SessionSound(s)'
    BY <1>9 DEF Terminate, ServicesInv, SessionSound
  <2> QED BY <1>5, <1>9, <2>1 DEF Terminate, ServicesInv
<1>10. CASE CleanupExpiredSessions
  BY <1>10 DEF CleanupExpiredSessions, ServicesInv, SessionSound, RequestSound
<1>11. ASSUME NEW o \in Operator, NEW t \in Tenants, Enforce(o, t) PROVE ServicesInv'
  BY <1>11 DEF Enforce, ServicesInv, SessionSound, RequestSound
<1>12. ASSUME NEW c \in Command, LoadApprovals(c) \/ TruncateApprovals(c) \/ Fill(c) \/ Cut(c) PROVE ServicesInv'
  BY <1>0, <1>12 DEF LoadApprovals, TruncateApprovals, Fill, Cut, services
<1>13. CASE NewPlan \/ Time \/ UNCHANGED governanceVars
  BY <1>0, <1>13 DEF NewPlan, Time, services, governanceVars
<1> QED BY <1>1, <1>2, <1>3, <1>4, <1>6, <1>7, <1>8, <1>9, <1>10, <1>11, <1>12, <1>13 DEF GovernanceNext

LEMMA AnswersStep ==
    ASSUME AnswersInv, GovernanceNext \/ UNCHANGED governanceVars
    PROVE  AnswersInv'
<1> USE GovernanceAssumption
<1>0. ASSUME UNCHANGED <<approvals, command, reported, overlapping>> PROVE AnswersInv'
  BY <1>0 DEF AnswersInv, DecisionsAreKept
<1>1. ASSUME NEW c \in Command, LoadApprovals(c) PROVE AnswersInv'
  <2>1. PICK d \in Answer : command' = [command EXCEPT ![c] =
            [at |-> "truncate", decision |-> d, read |-> IF approvals \in {Absent, Broken} THEN <<>> ELSE approvals]]
    BY <1>1 DEF LoadApprovals, Answer
  <2>2. UNCHANGED <<approvals, reported>> /\ overlapping' \in BOOLEAN
        /\ (~overlapping' => ~overlapping /\ \A b \in Command : command[b].at \notin {"truncate", "fill"})
    BY <1>1 DEF LoadApprovals, AnswersInv
  <2>3. command'[c].read \in Seq(Answer) /\ command' \in [Command -> CommandRecord]
    BY <2>1 DEF AnswersInv, CommandRecord, Answer
  <2>4. ~overlapping' => command'[c].read = reported
    BY <2>1, <2>2 DEF AnswersInv, DecisionsAreKept, Answer
  <2> QED BY <2>1, <2>2, <2>3, <2>4 DEF AnswersInv, DecisionsAreKept
<1>2. ASSUME NEW c \in Command, TruncateApprovals(c) PROVE AnswersInv'
  BY <1>2 DEF TruncateApprovals, AnswersInv, DecisionsAreKept, CommandRecord
<1>3. ASSUME NEW c \in Command, Fill(c) PROVE AnswersInv'
  <2>1. command[c].at = "fill" /\ command[c].read \in Seq(Answer) /\ command[c].decision \in Answer
    BY <1>3 DEF Fill, AnswersInv, CommandRecord
  <2>2. approvals' = Append(command[c].read, command[c].decision) /\ approvals' \in Seq(Answer)
        /\ reported' = Append(reported, command[c].decision) /\ reported' \in Seq(Answer)
        /\ UNCHANGED overlapping
    BY <1>3, <2>1 DEF Fill, Filled, AnswersInv
  <2>3. ~overlapping => approvals' = reported' /\ approvals' # Absent
    BY <2>1, <2>2 DEF AnswersInv, Answer
  <2>4. command' = [command EXCEPT ![c] = [Waiting EXCEPT !.at = "done"]]
    BY <1>3 DEF Fill
  <2>5. command' \in [Command -> CommandRecord] /\ command'[c].at = "done"
    BY <2>4, WaitingCommand DEF AnswersInv, Waiting
  <2>6. ~overlapping => \A d \in Command : command'[d].at \notin {"truncate", "fill"}
    BY <2>1, <2>4, <2>5 DEF AnswersInv
  <2> HIDE DEF Answer
  <2>7. \A d \in Command : command'[d].at \in {"truncate", "fill"} => command'[d].decision \in Answer
    BY <2>4, <2>5 DEF AnswersInv
  <2> QED BY <2>2, <2>3, <2>5, <2>6, <2>7 DEF AnswersInv, DecisionsAreKept
<1>4. ASSUME NEW c \in Command, Cut(c) PROVE AnswersInv'
  <2>1. command' = [command EXCEPT ![c] = [Waiting EXCEPT !.at = "done"]] /\ UNCHANGED <<approvals, reported>>
        /\ overlapping' = (overlapping \/ command[c].at = "fill")
    BY <1>4 DEF Cut
  <2>2. command' \in [Command -> CommandRecord] /\ command'[c].at = "done"
    BY <2>1, WaitingCommand DEF AnswersInv, Waiting
  <2>3. \A d \in Command \ {c} : command'[d] = command[d]
    BY <2>1 DEF AnswersInv
  <2> QED BY <2>1, <2>2, <2>3 DEF AnswersInv, DecisionsAreKept
<1>5. CASE GovernanceNext /\ \A c \in Command : ~LoadApprovals(c) /\ ~TruncateApprovals(c) /\ ~Fill(c) /\ ~Cut(c)
  <2>1. UNCHANGED <<approvals, command, reported, overlapping>>
    BY <1>5 DEF GovernanceNext, SetPolicy, ExpireOldRequests, CleanupExpiredSessions, NewPlan, Time,
        CreateRequest, Decide, CreateOpSession, Touch, ValidateSession, Terminate, Enforce, approvalFiles
  <2> QED BY <1>0, <2>1
<1>6. CASE UNCHANGED governanceVars
  BY <1>0, <1>6 DEF governanceVars, approvalFiles
<1> QED BY <1>1, <1>2, <1>3, <1>4, <1>5, <1>6

\* DeadlinesHold for any requests, operators, tenants, sessions and policies.
THEOREM DeadlinesAlwaysHold == GovernanceSpec => []DeadlinesHold
<1>1. GovernanceInv /\ [GovernanceNext]_governanceVars => GovernanceInv'
  BY ServicesStep, AnswersStep DEF GovernanceInv
<1>2. GovernanceInv => DeadlinesHold
  BY GovernanceAssumption DEF GovernanceInv, ServicesInv, AnswersInv, SessionSound, RequestSound,
      DeadlinesHold, GovernanceTypes, DecidedInTime
<1> QED BY GovernanceInitial, <1>1, <1>2, PTL DEF GovernanceSpec

-----------------------------------------------------------------------------
(* The agents: profiles, routes and sessions.                              *)

LEMMA LessIsWellFounded ==
    \E R : IsWellFoundedOn(R, Nat) /\ \A x, y \in Nat : (<<x, y>> \in R) <=> x < y
<1>1. IsWellFoundedOn(OpToRel(<, Nat), Nat)
  BY NatLessThanWellFounded
<1>2. \A x, y \in Nat : (<<x, y>> \in OpToRel(<, Nat)) <=> x < y
  BY DEF OpToRel
<1> QED BY <1>1, <1>2

LEMMA LeastNumber ==
    ASSUME NEW T \in SUBSET Nat, T # {}
    PROVE  \E x \in T : \A y \in T : x <= y
<1>1. PICK R : IsWellFoundedOn(R, Nat) /\ \A x, y \in Nat : (<<x, y>> \in R) <=> x < y
  BY LessIsWellFounded
<1>2. T \subseteq Nat /\ T # {} /\ IsWellFoundedOn(R, Nat)
  BY <1>1
<1>3. \E x \in T : \A y \in T : ~(<<y, x>> \in R)
  BY ONLY <1>2, WFMin, Zenon
<1>4. PICK x \in T : \A y \in T : ~(<<y, x>> \in R)
  BY <1>3
<1>5. \A y \in T : ~(y < x)
  BY <1>1, <1>4
<1> QED BY <1>5

LEMMA MinOfNumbers ==
    ASSUME NEW T \in SUBSET Nat, T # {}
    PROVE  Min(T) \in T /\ \A y \in T : Min(T) <= y
BY LeastNumber DEF Min

Registered == [id : STRING, can : SUBSET STRING, priority : Int, place : Nat]

\* No two profiles have one id or one place, and there is an orchestrator.
RegistryOK(ps) ==
    /\ ps \subseteq Registered /\ IsFiniteSet(ps)
    /\ \A p, q \in ps : p.id = q.id \/ p.place = q.place => p = q
    /\ "orchestrator" \in Ids(ps)

LEMMA PresetOK ==
    /\ RegistryOK(Preset) /\ \A p \in Preset : p.place <= Len(Defaults)
<1> USE AgentsAssumption
<1>0. /\ DOMAIN Defaults = 1..Len(Defaults) /\ Len(Defaults) \in Nat
      /\ \A i \in 1..Len(Defaults) : Defaults[i] \in AgentProfile
  <2>1. Defaults \in Seq(AgentProfile)
    OBVIOUS
  <2> QED BY ONLY <2>1
<1>1. Preset \subseteq Registered
  <2> SUFFICES ASSUME NEW i \in 1..Len(Defaults) PROVE Entry(Defaults[i], i) \in Registered
    BY <1>0 DEF Preset
  <2>1. Defaults[i] \in AgentProfile /\ i \in Nat
    BY <1>0
  <2> QED BY ONLY <2>1 DEF Entry, Registered, AgentProfile
<1>2. \A p, q \in Preset : p.id = q.id \/ p.place = q.place => p = q
  BY DEF Preset, Entry
<1>3. "orchestrator" \in Ids(Preset)
  <2>1. PICK i \in DOMAIN Defaults : Defaults[i].id = "orchestrator"
    OBVIOUS
  <2>2. Entry(Defaults[i], i) \in Preset /\ Entry(Defaults[i], i).id = "orchestrator"
    BY <2>1 DEF Preset, Entry
  <2> QED BY ONLY <2>2 DEF Ids
<1>4. \A p \in Preset : p.place \in 1..Len(Defaults)
  BY <1>0 DEF Preset, Entry
<1>5. IsFiniteSet(Preset)
  <2> DEFINE place == [p \in Preset |-> p.place]
  <2>1. place \in Injection(Preset, 1..Len(Defaults))
    BY <1>2, <1>4 DEF Injection, IsInjective
  <2>2. IsFiniteSet(1..Len(Defaults))
    BY FS_Interval
  <2> QED BY <2>1, <2>2, FS_Injection
<1> QED BY <1>1, <1>2, <1>3, <1>4, <1>5 DEF RegistryOK

LEMMA LoadedOK ==
    ASSUME NEW agents \in Seq(AgentProfile)
    PROVE  RegistryOK(Loaded(agents))
<1> USE AgentsAssumption
<1> DEFINE new == Admitted(agents)
           same(i, j) == agents[i].id = agents[j].id
           ends == {e \in new \X new : same(e[1], e[2]) /\ \A k \in new : same(k, e[1]) => k \in e[1]..e[2]}
           added == {Entry(agents[e[2]], Len(Defaults) + e[1]) : e \in ends}
           n == Len(Defaults) + Len(agents)
<1>0. Len(Defaults) \in Nat /\ Len(agents) \in Nat /\ n \in Nat
  OBVIOUS
<1>1. Loaded(agents) = Preset \cup added
  BY DEF Loaded
<1>2. new \subseteq 1..Len(agents) /\ \A i \in new : agents[i] \in AgentProfile /\ agents[i].id \notin Ids(Preset)
  BY DEF Admitted
<1>3. \A e \in ends : e[1] \in new /\ e[2] \in new /\ same(e[1], e[2])
  OBVIOUS
<1> HIDE DEF new
<1>4. \A d, e \in ends : same(d[1], e[1]) => d[1] = e[1] /\ d[2] = e[2]
  <2> SUFFICES ASSUME NEW d \in ends, NEW e \in ends, same(d[1], e[1])
               PROVE  d[1] = e[1] /\ d[2] = e[2]
    OBVIOUS
  <2>1. d[1] \in e[1]..e[2] /\ d[2] \in e[1]..e[2] /\ e[1] \in d[1]..d[2] /\ e[2] \in d[1]..d[2]
    BY <1>3
  <2>2. d[1] \in Int /\ d[2] \in Int /\ e[1] \in Int /\ e[2] \in Int
    <3>1. new \subseteq Int
      BY <1>2
    <3> QED BY <1>3, <3>1
  <2> QED BY ONLY <2>1, <2>2
<1>5. \A p \in added : \E e \in ends :
        p = Entry(agents[e[2]], Len(Defaults) + e[1]) /\ p.id = agents[e[1]].id /\ p.place = Len(Defaults) + e[1]
        /\ p \in Registered /\ p.place \in Len(Defaults) + 1 .. n /\ p.id \notin Ids(Preset)
  <2> SUFFICES ASSUME NEW e \in ends
               PROVE  LET p == Entry(agents[e[2]], Len(Defaults) + e[1])
                      IN /\ p.id = agents[e[1]].id /\ p.place = Len(Defaults) + e[1]
                         /\ p \in Registered /\ p.place \in Len(Defaults) + 1 .. n /\ p.id \notin Ids(Preset)
    <3> HIDE DEF ends
    <3> QED OBVIOUS
  <2>1. e[1] \in new /\ e[2] \in new /\ agents[e[1]].id = agents[e[2]].id
    BY <1>3
  <2>2. e[1] \in 1..Len(agents) /\ agents[e[2]] \in AgentProfile
        /\ agents[e[2]].id = agents[e[1]].id /\ agents[e[2]].id \notin Ids(Preset)
    BY <1>2, <2>1
  <2> HIDE DEF ends
  <2> QED BY ONLY <1>0, <2>2 DEF Entry, Registered, AgentProfile
<1> HIDE DEF ends
<1>6. \A p, q \in added : p.id = q.id \/ p.place = q.place => p = q
  <2> SUFFICES ASSUME NEW p \in added, NEW q \in added, p.id = q.id \/ p.place = q.place PROVE p = q
    OBVIOUS
  <2>1. PICK d \in ends : p = Entry(agents[d[2]], Len(Defaults) + d[1]) /\ p.id = agents[d[1]].id
            /\ p.place = Len(Defaults) + d[1]
    BY <1>5
  <2>2. PICK e \in ends : q = Entry(agents[e[2]], Len(Defaults) + e[1]) /\ q.id = agents[e[1]].id
            /\ q.place = Len(Defaults) + e[1]
    BY <1>5
  <2>3. d[1] \in Int /\ e[1] \in Int
    <3>1. new \subseteq Int
      BY <1>2
    <3> QED BY <1>3, <3>1
  <2>4. same(d[1], e[1])
    BY <2>1, <2>2, <2>3
  <2> QED BY <1>4, <2>1, <2>2, <2>4
<1>7. \A p \in added, q \in Preset : p.id # q.id /\ p.place # q.place
  BY <1>5, PresetOK DEF RegistryOK, Ids, Registered
<1>8. \A p, q \in Loaded(agents) : p.id = q.id \/ p.place = q.place => p = q
  BY <1>1, <1>6, <1>7, PresetOK DEF RegistryOK
<1>9. Loaded(agents) \subseteq Registered /\ "orchestrator" \in Ids(Loaded(agents))
  BY <1>1, <1>5, PresetOK DEF RegistryOK, Ids
<1>10. \A p \in Loaded(agents) : p.place \in 0..n
  <2>1. \A p \in Preset : p.place \in 0..n
    BY PresetOK DEF RegistryOK, Registered
  <2> QED BY <1>1, <1>5, <2>1
<1>11. IsFiniteSet(Loaded(agents))
  <2> DEFINE place == [p \in Loaded(agents) |-> p.place]
  <2>1. place \in Injection(Loaded(agents), 0..n)
    BY <1>8, <1>10 DEF Injection, IsInjective
  <2>2. IsFiniteSet(0..n)
    BY FS_Interval
  <2> QED BY <2>1, <2>2, FS_Injection
<1> QED BY <1>8, <1>9, <1>11 DEF RegistryOK

-----------------------------------------------------------------------------
LEMMA Scores ==
    ASSUME NEW task \in Tasks, NEW p
    PROVE  /\ MatchScore(p, task) \in Nat
           /\ MatchScore(p, task) > 0 => Listed(p, task) \in Nat
<1> DEFINE matched == {i \in DOMAIN task.requires : task.requires[i] \in p.can}
<1>1. matched \subseteq 1..Len(task.requires) /\ matched \in SUBSET Nat
  BY AgentsAssumption
<1>2. IsFiniteSet(1..Len(task.requires))
  <2>1. Len(task.requires) \in Int
    BY AgentsAssumption
  <2> QED BY <2>1, FS_Interval
<1>3. IsFiniteSet(matched)
  BY <1>1, <1>2, FS_Subset
<1>4. Cardinality(matched) \in Nat /\ (Cardinality(matched) = 0 <=> matched = {})
  BY <1>3, FS_CardinalityType, FS_EmptySet
<1>5. matched # {} => Min(matched) \in Nat
  BY <1>1, MinOfNumbers
<1> QED BY <1>4, <1>5 DEF MatchScore, Listed

LEMMA BeforeIsLexicographic ==
    ASSUME NEW task \in Tasks, NEW p \in Registered, NEW q \in Registered,
           MatchScore(p, task) > 0, MatchScore(q, task) > 0
    PROVE  Before(p, q, task) <=>
            LET s(x) == MatchScore(x, task)
                l(x) == Listed(x, task)
            IN \/ s(p) > s(q)
               \/ s(p) = s(q) /\ p.priority > q.priority
               \/ s(p) = s(q) /\ p.priority = q.priority /\ l(p) < l(q)
               \/ s(p) = s(q) /\ p.priority = q.priority /\ l(p) = l(q) /\ p.place < q.place
<1> DEFINE key(c) == <<-MatchScore(c, task), -c.priority, Listed(c, task), c.place>>
           less(n) == key(p)[n] < key(q)[n] /\ \A m \in 1..(n - 1) : key(p)[m] = key(q)[m]
<1>1. Before(p, q, task) <=> \E n \in 1..4 : less(n)
  BY DEF Before
<1>2. (\E n \in 1..4 : less(n)) <=> less(1) \/ less(2) \/ less(3) \/ less(4)
  <2> HIDE DEF less
  <2> QED OBVIOUS
<1>3. 1..(1 - 1) = {} /\ 1..(2 - 1) = {1} /\ 1..(3 - 1) = {1, 2} /\ 1..(4 - 1) = {1, 2, 3}
  OBVIOUS
<1>4. /\ less(1) <=> key(p)[1] < key(q)[1]
      /\ less(2) <=> key(p)[2] < key(q)[2] /\ key(p)[1] = key(q)[1]
      /\ less(3) <=> key(p)[3] < key(q)[3] /\ key(p)[1] = key(q)[1] /\ key(p)[2] = key(q)[2]
      /\ less(4) <=> key(p)[4] < key(q)[4] /\ key(p)[1] = key(q)[1] /\ key(p)[2] = key(q)[2] /\ key(p)[3] = key(q)[3]
  <2> HIDE DEF key
  <2> QED BY <1>3
<1>5. /\ MatchScore(p, task) \in Int /\ MatchScore(q, task) \in Int
      /\ p.priority \in Int /\ q.priority \in Int
      /\ Listed(p, task) \in Int /\ Listed(q, task) \in Int /\ p.place \in Int /\ q.place \in Int
  BY Scores DEF Registered
<1> HIDE DEF less
<1> QED BY <1>1, <1>2, <1>4, <1>5

\* The order of candidates is strict and total, so one of them comes before all others.
LEMMA SomeCandidateIsBest ==
    ASSUME NEW task \in Tasks, RegistryOK(profiles), Candidates(task) # {}
    PROVE  /\ BestMatch(task) \in Candidates(task)
           /\ \A q \in Candidates(task) \ {BestMatch(task)} : Before(BestMatch(task), q, task)
<1> DEFINE C == Candidates(task)
           above(p) == {q \in C : Before(q, p, task)}
<1>1. C \subseteq Registered /\ IsFiniteSet(C) /\ \A p \in C : MatchScore(p, task) > 0
  <2>1. C \subseteq profiles /\ \A p \in C : MatchScore(p, task) > 0
    BY DEF Candidates
  <2> QED BY <2>1, FS_Subset DEF RegistryOK
<1>2. \A p \in C : /\ MatchScore(p, task) \in Int /\ Listed(p, task) \in Int
                   /\ p.priority \in Int /\ p.place \in Int
  BY <1>1, Scores DEF Registered
<1>3. \A p, q \in C : p.place = q.place => p = q
  BY DEF RegistryOK, Candidates
<1> HIDE DEF C
<1>4. \A p, q \in C : p # q => Before(p, q, task) \/ Before(q, p, task)
  BY <1>1, <1>2, <1>3, BeforeIsLexicographic
<1>5. \A p, q, r \in C : Before(p, q, task) /\ Before(q, r, task) => Before(p, r, task)
  <2> SUFFICES ASSUME NEW p \in C, NEW q \in C, NEW r \in C, Before(p, q, task), Before(q, r, task)
               PROVE  Before(p, r, task)
    OBVIOUS
  <2> QED BY <1>1, <1>2, BeforeIsLexicographic
<1>6. \A p \in C : ~Before(p, p, task)
  BY <1>1, <1>2, BeforeIsLexicographic
<1>7. \A p \in C : above(p) \in SUBSET C /\ IsFiniteSet(above(p)) /\ Cardinality(above(p)) \in Nat
  BY <1>1, FS_Subset, FS_CardinalityType
<1>8. PICK b \in C : \A p \in C : Cardinality(above(b)) <= Cardinality(above(p))
  <2> DEFINE T == {Cardinality(above(p)) : p \in C}
  <2>1. T \in SUBSET Nat /\ T # {}
    BY <1>7 DEF C
  <2>2. PICK x \in T : \A y \in T : x <= y
    BY <2>1, LeastNumber
  <2> QED BY <2>2
<1>9. \A q \in C \ {b} : Before(b, q, task)
  <2> SUFFICES ASSUME NEW q \in C \ {b}, ~Before(b, q, task) PROVE FALSE
    OBVIOUS
  <2>1. Before(q, b, task)
    BY <1>4
  <2>2. above(q) \in SUBSET above(b) /\ q \in above(b) /\ q \notin above(q)
    BY <1>5, <1>6, <2>1
  <2>3. Cardinality(above(q)) <= Cardinality(above(b)) /\ Cardinality(above(b)) # Cardinality(above(q))
    BY <1>7, <2>2, FS_Subset
  <2> QED BY <1>7, <1>8, <2>3
<1> QED BY <1>9 DEF BestMatch, C

-----------------------------------------------------------------------------
Usable == Contents \ {Unusable, Missing}
RegistryInv ==
    /\ config \in Contents /\ notified \in [Watcher -> Nat]
    /\ reading \in [Reloader -> Contents \cup {Nothing}]
    /\ profiles = Preset \/ \E file \in Usable : profiles = Loaded(file)
    /\ ~overlapped => \A q, r \in Reloader : reading[q] # Nothing /\ reading[r] # Nothing => q = r
    /\ ~overlapped /\ news = "read" =>
        /\ \A r \in Reloader : reading[r] # Nothing => reading[r] = config
        /\ (\A r \in Reloader : reading[r] = Nothing) /\ config \in Usable => profiles = Loaded(config)
    /\ news = "announced" => Announced(notified) # {}

SessionsInv ==
    /\ session \in [AgentSession -> AgentSessionState \cup {Nothing}]
    /\ timer \in [AgentSession -> Nat \cup {Nothing}]
    /\ lastAccess \in [AgentSession -> Nat] /\ clock \in Nat
    /\ \A s \in AgentSession :
        /\ lastAccess[s] <= clock
        /\ session[s] # Nothing => session[s].fragments <= MaxFragments
        /\ session[s] # Nothing /\ ~Open(s) => session[s].completedAt \in Nat
    /\ SessionsEnd

AgentsInv ==
    /\ RegistryInv /\ watching \subseteq Watcher /\ SessionsInv /\ TasksAreMatched
    /\ decision # Nothing => decision.agent \in STRING

LEMMA RegistryIsOK ==
    ASSUME RegistryInv
    PROVE  RegistryOK(profiles)
<1>1. CASE profiles = Preset
  BY <1>1, PresetOK
<1>2. ASSUME NEW file \in Usable, profiles = Loaded(file)
      PROVE  RegistryOK(profiles)
  <2>1. file \in Seq(AgentProfile)
    BY AgentsAssumption DEF Usable
  <2> QED BY <1>2, <2>1, LoadedOK
<1> QED BY <1>1, <1>2 DEF RegistryInv

LEMMA AgentsStart == AgentsInit => AgentsInv
<1> SUFFICES ASSUME AgentsInit PROVE AgentsInv
  OBVIOUS
<1> USE AgentsAssumption DEF AgentsInit
<1>1. RegistryInv
  BY DEF RegistryInv, Announced
<1>2. SessionsInv
  BY DEF SessionsInv, SessionsEnd, Open
<1> QED BY <1>1, <1>2 DEF AgentsInv, TasksAreMatched

\* A change of the file is missed or announced, and the profiles stay those of a file.
LEMMA AnnounceStep ==
    ASSUME RegistryInv, NEW told \in SUBSET Watcher, NEW deaf, Announce(told, deaf), config' \in Contents
    PROVE  RegistryInv'
<1>1. notified' = [w \in Watcher |-> IF w \in told THEN notified[w] + 1 ELSE notified[w]]
  BY DEF Announce
<1>2. notified' \in [Watcher -> Nat] /\ \A w \in told : notified'[w] > 0
  BY <1>1 DEF RegistryInv
<1>3. news' = (IF told = {} THEN "missed" ELSE "announced") /\ UNCHANGED <<profiles, reading, overlapped>>
  BY DEF Announce
<1>4. news' # "read" /\ (news' = "announced" => Announced(notified') # {})
  BY <1>2, <1>3 DEF Announced
<1> QED BY <1>2, <1>3, <1>4 DEF RegistryInv, Announced

LEMMA RegistryStep ==
    ASSUME RegistryInv, watching \subseteq Watcher, [AgentsNext]_agentsVars
    PROVE  RegistryInv'
<1> USE AgentsAssumption DEF RegistryInv
<1>1. CASE ChangeFile
  BY <1>1, AnnounceStep DEF ChangeFile
<1>8. CASE ReplaceFile
  <2>1. PICK told \in SUBSET watching, deaf \in SUBSET watching : Announce(told, deaf)
    BY <1>8 DEF ReplaceFile
  <2>2. told \in SUBSET Watcher /\ config' \in Contents
    BY <1>8 DEF ReplaceFile
  <2> QED BY <2>1, <2>2, AnnounceStep
<1>9. ASSUME NEW w \in Watcher, WatchConfig(w)
      PROVE  RegistryInv'
  BY <1>9 DEF WatchConfig
<1>10. ASSUME NEW w \in Watcher, EndWatch(w)
       PROVE  RegistryInv'
  <2>1. notified' \in [Watcher -> Nat]
    BY <1>10 DEF EndWatch
  <2>2. UNCHANGED <<profiles, config, reading, overlapped>>
        /\ news' = IF news = "announced" /\ Announced(notified') = {} THEN "missed" ELSE news
    BY <1>10 DEF EndWatch
  <2>3. \A v \in Watcher : v = w \/ notified'[v] = notified[v]
    BY <1>10 DEF EndWatch
  <2>4. news' = "announced" => Announced(notified') # {}
    BY <2>2
  <2>5. news' = "read" => news = "read"
    BY <2>2
  <2> QED BY <2>1, <2>2, <2>4, <2>5 DEF Announced
<1>2. ASSUME NEW r \in Reloader, ReadConfig(r)
      PROVE  RegistryInv'
  <2>1. notified' \in [Watcher -> Nat] /\ reading' \in [Reloader -> Contents \cup {Nothing}] /\ news' = "read"
    BY <1>2 DEF ReadConfig
  <2>2. config' \in Contents /\ (profiles = Preset \/ \E file \in Usable : profiles = Loaded(file))'
    BY <1>2 DEF ReadConfig, Usable
  <2>3. ASSUME ~overlapped'
        PROVE  \A q \in Reloader : reading[q] = Nothing /\ reading'[q] = IF q = r THEN config ELSE Nothing
    BY <1>2, <2>3 DEF ReadConfig
  <2>4. config # Nothing /\ config' = config
    BY <1>2 DEF ReadConfig
  <2> QED BY <2>1, <2>2, <2>3, <2>4
<1>3. ASSUME NEW r \in Reloader, Reload(r)
      PROVE  RegistryInv'
  <2>1. UNCHANGED notified /\ reading' \in [Reloader -> Contents \cup {Nothing}] /\ config' \in Contents
    BY <1>3 DEF Reload
  <2>2. (profiles = Preset \/ \E file \in Usable : profiles = Loaded(file))'
    <3>1. CASE reading[r] \in {Unusable, Missing}
      BY <1>3, <3>1 DEF Reload, Usable
    <3>2. CASE reading[r] \notin {Unusable, Missing}
      BY <1>3, <3>2 DEF Reload, Usable
    <3> QED BY <3>1, <3>2
  <2>3. \A q \in Reloader : reading'[q] = IF q = r THEN Nothing ELSE reading[q]
    BY <1>3 DEF Reload
  <2>4. UNCHANGED <<config, notified, news, overlapped>> /\ reading[r] # Nothing
        /\ (reading[r] \in Usable => profiles' = Loaded(reading[r]))
    BY <1>3 DEF Reload, Usable
  <2> QED BY <2>1, <2>2, <2>3, <2>4 DEF Announced
<1>4. CASE UNCHANGED registryVars
  BY <1>4 DEF registryVars, Usable, Announced
<1>5. CASE RouteTask \/ CreateSession \/ Cleanup \/ Tick
  BY <1>4, <1>5 DEF RouteTask, CreateSession, Cleanup, Tick
<1>6. ASSUME NEW s \in AgentSession, GetSession(s) \/ EndSession(s) \/ UpdateWorkingMemory(s) \/ HandleSessionTimeout(s)
      PROVE  RegistryInv'
  BY <1>4, <1>6 DEF GetSession, EndSession, UpdateWorkingMemory, HandleSessionTimeout
<1>7. CASE UNCHANGED agentsVars
  BY <1>4, <1>7 DEF agentsVars, registryVars
<1> QED BY <1>1, <1>2, <1>3, <1>5, <1>6, <1>7, <1>8, <1>9, <1>10 DEF AgentsNext

\* Loops come and go, but they are loops of calls of watchConfig().
LEMMA WatchingStep ==
    ASSUME watching \subseteq Watcher, [AgentsNext]_agentsVars
    PROVE  watching' \subseteq Watcher
<1>1. CASE ChangeFile \/ ReplaceFile
  BY <1>1 DEF ChangeFile, ReplaceFile, Announce
<1>2. ASSUME NEW w \in Watcher, WatchConfig(w) \/ EndWatch(w)
      PROVE  watching' \subseteq Watcher
  BY <1>2 DEF WatchConfig, EndWatch
<1>3. CASE RouteTask \/ CreateSession \/ Cleanup \/ Tick \/ UNCHANGED agentsVars
  BY <1>3 DEF RouteTask, CreateSession, Cleanup, Tick, agentsVars, registryVars
<1>4. ASSUME NEW r \in Reloader, ReadConfig(r) \/ Reload(r)
      PROVE  watching' \subseteq Watcher
  BY <1>4 DEF ReadConfig, Reload
<1>5. ASSUME NEW s \in AgentSession, GetSession(s) \/ EndSession(s) \/ UpdateWorkingMemory(s) \/ HandleSessionTimeout(s)
      PROVE  watching' \subseteq Watcher
  BY <1>5 DEF GetSession, EndSession, UpdateWorkingMemory, HandleSessionTimeout, registryVars
<1> QED BY <1>1, <1>2, <1>3, <1>4, <1>5 DEF AgentsNext

\* The first strategy of the chain that decides gives the task to the right agent.
LEMMA RouteMatches ==
    ASSUME RegistryInv, RouteTask
    PROVE  TasksAreMatched' /\ decision'.agent \in STRING
<1>1. RegistryOK(profiles)
  BY RegistryIsOK
<1>2. PICK task \in Tasks, current \in {Nothing} \cup {s \in AgentSession : session[s] # Nothing} :
        LET chain == <<ExplicitMention(task), CapabilityMatch(task), StickySession(task, current),
                       "orchestrator">>
            first == Min({i \in 1..4 : chain[i] # Nothing})
        IN decision' = [task |-> task, agent |-> chain[first], among |-> profiles,
                        strategy |-> <<"explicit", "capability", "sticky", "fallback">>[first],
                        isHandoff |-> current # Nothing /\ first # 3]
  BY DEF RouteTask
<1> DEFINE chain == <<ExplicitMention(task), CapabilityMatch(task), StickySession(task, current),
                      "orchestrator">>
           decides == {i \in 1..4 : chain[i] # Nothing}
           first == Min(decides)
<1>3. decision'.task = task /\ decision'.agent = chain[first] /\ decision'.among = profiles
  BY <1>2
<1>4. /\ chain[1] = ExplicitMention(task) /\ chain[2] = CapabilityMatch(task)
      /\ chain[3] = StickySession(task, current) /\ chain[4] = "orchestrator"
  OBVIOUS
<1>5. Ids(profiles) \subseteq STRING /\ "orchestrator" \in Ids(profiles) /\ Nothing \notin STRING
  BY <1>1, AgentsAssumption DEF RegistryOK, Ids, Registered
<1>6. CapabilityMatch(task) # Nothing => CapabilityMatch(task) = BestMatch(task).id /\ BestMatch(task) \in profiles
  BY <1>1, SomeCandidateIsBest DEF CapabilityMatch, Candidates
<1>7. \A i \in 1..4 : chain[i] = Nothing \/ chain[i] \in Ids(profiles)
  <2>1. chain[1] = Nothing \/ chain[1] \in Ids(profiles)
    BY <1>4, <1>5 DEF ExplicitMention
  <2>2. chain[2] = Nothing \/ chain[2] \in Ids(profiles)
    BY <1>4, <1>6 DEF Ids
  <2>3. chain[3] = Nothing \/ chain[3] \in Ids(profiles)
    BY <1>4 DEF StickySession
  <2> HIDE DEF chain
  <2> QED BY <1>4, <1>5, <2>1, <2>2, <2>3
<1> HIDE DEF chain
<1>8. decides \in SUBSET Nat /\ 4 \in decides
  BY <1>4, <1>5
<1>9. first \in decides /\ \A i \in decides : first <= i
  BY <1>8, MinOfNumbers
<1>10. chain[first] \in Ids(profiles)
  BY <1>7, <1>9
<1> HIDE DEF first
<1>11. ASSUME task.prefers = Nothing, NEW p \in profiles, p.id = chain[first], NEW q \in profiles
       PROVE  MatchScore(p, task) >= MatchScore(q, task)
  <2>1. MatchScore(p, task) \in Nat /\ MatchScore(q, task) \in Nat
    BY Scores
  <2>2. CASE Candidates(task) = {}
    BY <2>1, <2>2 DEF Candidates
  <2>3. CASE Candidates(task) # {}
    <3>1. /\ BestMatch(task) \in Candidates(task)
          /\ \A c \in Candidates(task) \ {BestMatch(task)} : Before(BestMatch(task), c, task)
      BY <1>1, <2>3, SomeCandidateIsBest
    <3>2. chain[1] = Nothing /\ chain[2] = BestMatch(task).id
      BY <1>4, <1>11, <2>3 DEF ExplicitMention, CapabilityMatch
    <3>3. BestMatch(task).id \in Ids(profiles)
      BY <3>1 DEF Candidates, Ids
    <3>4. 1 \notin decides /\ 2 \in decides
      BY <1>5, <3>2, <3>3
    <3>5. first = 2
      BY <1>8, <1>9, <3>4
    <3>6. p = BestMatch(task)
      BY <1>1, <1>11, <3>1, <3>2, <3>5 DEF RegistryOK, Candidates
    <3>7. CASE q \in Candidates(task) /\ q # p
      <4>1. p \in Registered /\ q \in Registered /\ MatchScore(p, task) > 0 /\ MatchScore(q, task) > 0
        BY <1>1, <3>1, <3>6, <3>7 DEF RegistryOK, Candidates
      <4>2. Before(p, q, task)
        BY <3>1, <3>6, <3>7
      <4> QED BY <2>1, <4>1, <4>2, BeforeIsLexicographic
    <3>8. CASE q = p
      BY <2>1, <3>8
    <3>9. CASE q \notin Candidates(task)
      BY <2>1, <3>9 DEF Candidates
    <3> QED BY <3>7, <3>8, <3>9
  <2> QED BY <2>2, <2>3
<1>12. {p \in profiles : p.id = chain[first]} # {}
  BY <1>10 DEF Ids
<1> QED
  <2>1. TasksAreMatched'
    BY <1>3, <1>11, <1>12 DEF TasksAreMatched, MatchScore
  <2> QED BY <1>3, <1>5, <1>10, <2>1

LEMMA SessionsStep ==
    ASSUME AgentsInv, [AgentsNext]_agentsVars
    PROVE  SessionsInv'
<1> USE AgentsAssumption
<1>0. SessionsInv /\ (decision # Nothing => decision.agent \in STRING)
  BY DEF AgentsInv
<1>1. CASE CreateSession
  <2>1. PICK s \in AgentSession :
          /\ session[s] = Nothing
          /\ session' = [session EXCEPT ![s] = [agent |-> decision.agent, status |-> "initializing",
                                                completedAt |-> Nothing, fragments |-> 0]]
          /\ timer' = [timer EXCEPT ![s] = clock + Timeout]
          /\ lastAccess' = [lastAccess EXCEPT ![s] = clock]
    BY <1>1 DEF CreateSession
  <2>2. [agent |-> decision.agent, status |-> "initializing", completedAt |-> Nothing, fragments |-> 0]
          \in AgentSessionState
    BY <1>0, <1>1 DEF CreateSession, AgentSessionState
  <2>3. clock' = clock /\ cleaned' = cleaned
    BY <1>1 DEF CreateSession
  <2> QED BY <1>0, <2>1, <2>2, <2>3 DEF SessionsInv, SessionsEnd, Open
<1>2. ASSUME NEW s \in AgentSession, GetSession(s)
      PROVE  SessionsInv'
  BY <1>0, <1>2 DEF SessionsInv, SessionsEnd, Open, GetSession, ResetTimeout
<1>3. ASSUME NEW s \in AgentSession, EndSession(s) \/ HandleSessionTimeout(s)
      PROVE  SessionsInv'
  <2>1. CASE session[s] # Nothing /\ session' = Ended(s)
    <3>0. session[s] \in AgentSessionState /\ clock \in Nat
      BY <1>0, <2>1 DEF SessionsInv
    <3>1. [session[s] EXCEPT !.status = "completed", !.completedAt = clock] \in AgentSessionState
      BY ONLY <3>0 DEF AgentSessionState
    <3>2. session' = [session EXCEPT ![s] = [session[s] EXCEPT !.status = "completed", !.completedAt = clock]]
      BY <1>0, <2>1 DEF Ended, SessionsInv
    <3>3. timer' = [timer EXCEPT ![s] = Nothing] /\ UNCHANGED <<clock, lastAccess, cleaned>>
      BY <1>3 DEF EndSession, HandleSessionTimeout
    <3> QED BY <1>0, <2>1, <3>1, <3>2, <3>3 DEF SessionsInv, SessionsEnd, Open, AgentSessionState
  <2>2. CASE session' = session /\ HandleSessionTimeout(s)
    BY <1>0, <2>2 DEF HandleSessionTimeout, SessionsInv, SessionsEnd, Open, Ended
  <2> QED BY <1>0, <1>3, <2>1, <2>2 DEF EndSession, HandleSessionTimeout, Open
<1>4. ASSUME NEW s \in AgentSession, UpdateWorkingMemory(s)
      PROVE  SessionsInv'
  <2>0. session \in [AgentSession -> AgentSessionState \cup {Nothing}]
        /\ session[s] \in AgentSessionState /\ session[s].fragments \in Nat /\ session[s].fragments <= MaxFragments
    <3>1. session[s] \in AgentSessionState /\ session[s].fragments <= MaxFragments
      BY <1>0, <1>4 DEF UpdateWorkingMemory, SessionsInv
    <3> QED BY <1>0, <3>1 DEF SessionsInv, AgentSessionState
  <2> DEFINE f == IF session[s].fragments + 1 > MaxFragments THEN session[s].fragments ELSE session[s].fragments + 1
  <2>1. f \in Nat /\ f <= MaxFragments /\ session' = [session EXCEPT ![s] = [session[s] EXCEPT !.fragments = f]]
    <3>1. session' = [session EXCEPT ![s].fragments = IF @ + 1 > MaxFragments THEN @ ELSE @ + 1]
      BY <1>4 DEF UpdateWorkingMemory
    <3>2. session' = [session EXCEPT ![s] = [session[s] EXCEPT !.fragments = f]]
      BY ONLY <2>0, <3>1
    <3> QED BY <2>0, <3>2
  <2> HIDE DEF f
  <2>2. session[s] \in AgentSessionState /\ [session[s] EXCEPT !.fragments = f] \in AgentSessionState
    BY ONLY <2>0, <2>1 DEF AgentSessionState
  <2>3. UNCHANGED <<timer, clock, lastAccess, cleaned>>
    BY <1>4 DEF UpdateWorkingMemory
  <2> QED BY <1>0, <2>1, <2>2, <2>3 DEF SessionsInv, SessionsEnd, Open, AgentSessionState
<1>5. CASE Cleanup
  BY <1>0, <1>5 DEF SessionsInv, SessionsEnd, Open, Cleanup
<1>6. CASE Tick
  BY <1>0, <1>6 DEF SessionsInv, SessionsEnd, Open, Tick
<1>7. CASE UNCHANGED sessionVars
  BY <1>0, <1>7 DEF SessionsInv, SessionsEnd, Open, sessionVars
<1>8. CASE ChangeFile \/ ReplaceFile \/ RouteTask \/ UNCHANGED agentsVars
  BY <1>7, <1>8 DEF ChangeFile, ReplaceFile, Announce, RouteTask, agentsVars, sessionVars
<1>10. ASSUME NEW w \in Watcher, WatchConfig(w) \/ EndWatch(w)
       PROVE  SessionsInv'
  BY <1>7, <1>10 DEF WatchConfig, EndWatch
<1>9. ASSUME NEW r \in Reloader, ReadConfig(r) \/ Reload(r)
      PROVE  SessionsInv'
  BY <1>7, <1>9 DEF ReadConfig, Reload
<1> QED BY <1>1, <1>2, <1>3, <1>4, <1>5, <1>6, <1>8, <1>9, <1>10 DEF AgentsNext

\* Every action but the routing leaves the last decision alone.
LEMMA DecisionStep ==
    ASSUME AgentsInv, [AgentsNext]_agentsVars
    PROVE  TasksAreMatched' /\ (decision # Nothing => decision.agent \in STRING)'
<1>1. CASE decision' = decision
  BY <1>1 DEF AgentsInv, TasksAreMatched, MatchScore
<1>2. CASE RouteTask
  BY <1>2, RouteMatches DEF AgentsInv
<1>3. CASE ChangeFile \/ ReplaceFile \/ CreateSession \/ Cleanup \/ Tick \/ UNCHANGED agentsVars
  BY <1>1, <1>3 DEF ChangeFile, ReplaceFile, Announce, CreateSession, Cleanup, Tick, agentsVars
<1>6. ASSUME NEW w \in Watcher, WatchConfig(w) \/ EndWatch(w)
      PROVE  decision' = decision
  BY <1>6 DEF WatchConfig, EndWatch
<1>4. ASSUME NEW r \in Reloader, ReadConfig(r) \/ Reload(r)
      PROVE  decision' = decision
  BY <1>4 DEF ReadConfig, Reload
<1>5. ASSUME NEW s \in AgentSession,
             GetSession(s) \/ EndSession(s) \/ UpdateWorkingMemory(s) \/ HandleSessionTimeout(s)
      PROVE  decision' = decision
  BY <1>5 DEF GetSession, EndSession, UpdateWorkingMemory, HandleSessionTimeout
<1> QED BY <1>1, <1>2, <1>3, <1>4, <1>5, <1>6 DEF AgentsNext

LEMMA AgentsAreRoutedByInv == AgentsInv => AgentsAreRouted
<1> SUFFICES ASSUME AgentsInv PROVE AgentsAreRouted
  OBVIOUS
<1>1. AgentsTypes
  <2>1. RegistryOK(profiles)
    BY RegistryIsOK DEF AgentsInv
  <2> QED BY <2>1 DEF AgentsTypes, RegistryOK, AgentsInv, SessionsInv
<1>2. RegistryIsCurrent
  BY DEF RegistryIsCurrent, AgentsInv, RegistryInv, Usable
<1> QED BY <1>1, <1>2 DEF AgentsAreRouted, AgentsInv, SessionsInv

\* AgentsAreRouted for any default profiles, tasks, contents of the file and number of loops that
\* watch it: the task decided last went to the best profile of those registered, a registry that
\* has read the last change of its file, without overlapping reloads, holds what the file says, a
\* change that a loop was told of waits for a loop, and an open session has a timer or was cleaned up.
THEOREM AgentsAreAlwaysRouted == AgentsSpec => []AgentsAreRouted
<1>1. AgentsInv /\ [AgentsNext]_agentsVars => AgentsInv'
  BY RegistryStep, WatchingStep, SessionsStep, DecisionStep DEF AgentsInv
<1> QED BY <1>1, AgentsStart, AgentsAreRoutedByInv, PTL DEF AgentsSpec

-----------------------------------------------------------------------------
(* The agentic operations: the state, the queue and the budget.            *)

StateCommand == {"stop", "autopause", "resume"}
OpsCommand == {"inspect", "enqueue", "run"} \cup StateCommand

\* What a command may wait for.
Await == {"init state", "load state", "truncate state", "write state", "load queue", "truncate queue",
          "write queue", "select", "execute", "end autopause", "enqueue"} \cup StateCommand

LEMMA Works ==
    /\ DOMAIN Work = OpsCommand
    /\ Work["inspect"] = <<>>
    /\ Work["enqueue"] = <<"enqueue", "truncate queue", "write queue">>
    /\ Work["stop"] = <<"stop", "truncate state", "write state">>
    /\ Work["autopause"] = <<"autopause", "truncate state", "write state">>
    /\ Work["resume"] = <<"resume", "truncate state", "write state", "end autopause", "truncate state", "write state">>
    /\ Work["run"] = <<"load state", "load queue", "select", "execute", "truncate state", "write state",
                       "truncate queue", "write queue">>
BY DEF Work, OpsCommand, StateCommand

LEMMA Short ==
    ASSUME NEW a \in Await, NEW b \in Await, NEW c \in Await, NEW d \in Await, NEW e \in Await, NEW f \in Await,
           NEW g \in Await, NEW h \in Await
    PROVE  /\ <<a, b, c>> \in Seq(Await) /\ <<a, b, c, d, e, f>> \in Seq(Await)
           /\ <<a, b, c, d, e, f, g, h>> \in Seq(Await)
<1>1. <<a, b, c>> = [k \in 1..3 |-> <<a, b, c>>[k]] /\ \A k \in 1..3 : <<a, b, c>>[k] \in Await
  OBVIOUS
<1>2. <<a, b, c, d, e, f>> = [k \in 1..6 |-> <<a, b, c, d, e, f>>[k]] /\ \A k \in 1..6 : <<a, b, c, d, e, f>>[k] \in Await
  OBVIOUS
<1>3. /\ <<a, b, c, d, e, f, g, h>> = [k \in 1..8 |-> <<a, b, c, d, e, f, g, h>>[k]]
      /\ \A k \in 1..8 : <<a, b, c, d, e, f, g, h>>[k] \in Await
  OBVIOUS
<1>4. ASSUME NEW s, NEW n \in Nat, s = [k \in 1..n |-> s[k]], \A k \in 1..n : s[k] \in Await
      PROVE  s \in Seq(Await)
  <2>1. s \in [1..n -> Await]
    BY <1>4
  <2> QED BY ONLY <2>1, n \in Nat, SeqDef
<1> QED BY ONLY <1>1, <1>2, <1>3, <1>4

LEMMA Steps ==
    /\ Initialise \in Seq(Await) /\ Len(Initialise) = 6
    /\ \A c \in OpsCommand : Work[c] \in Seq(Await)
<1>1. Initialise \in Seq(Await)
  BY Short DEF Initialise, Await
<1>2. Len(Initialise) = 6
  BY DEF Initialise
<1>3. ASSUME NEW c \in OpsCommand
      PROVE  Work[c] \in Seq(Await)
  <2>1. CASE c = "inspect"
    BY <2>1, Works, EmptySeq
  <2>2. CASE c = "enqueue" \/ c = "stop" \/ c = "autopause"
    <3>1. Work[c] = <<c, "truncate queue", "write queue">> \/ Work[c] = <<c, "truncate state", "write state">>
      BY <2>2, Works
    <3> QED BY ONLY <2>2, <3>1, Short DEF Await, StateCommand
  <2>3. CASE c = "resume"
    BY <2>3, Works, Short DEF Await, StateCommand
  <2>4. CASE c = "run"
    BY <2>4, Works, Short DEF Await
  <2> QED BY <2>1, <2>2, <2>3, <2>4 DEF OpsCommand, StateCommand
<1> QED BY <1>1, <1>2, <1>3

LEMMA Entries ==
    ASSUME NEW c \in OpsCommand
    PROVE  /\ Len(Program(c)) = 6 + Len(Work[c]) /\ Len(Work[c]) \in Nat
           /\ \A k \in 1..6 : Program(c)[k] = Initialise[k]
           /\ \A k \in 1..Len(Work[c]) : Program(c)[k + 6] = Work[c][k]
<1>1. Initialise \in Seq(Await) /\ Len(Initialise) = 6 /\ Work[c] \in Seq(Await)
  BY Steps
<1>2. /\ Len(Initialise \o Work[c]) = Len(Initialise) + Len(Work[c])
      /\ \A i \in 1..(Len(Initialise) + Len(Work[c])) : (Initialise \o Work[c])[i] =
            IF i <= Len(Initialise) THEN Initialise[i] ELSE Work[c][i - Len(Initialise)]
  BY <1>1, ConcatProperties
<1>3. Program(c) = Initialise \o Work[c]
  BY DEF Program
<1>4. Len(Work[c]) \in Nat
  BY <1>1
<1>5. \A k \in 1..6 : Program(c)[k] = Initialise[k]
  BY <1>1, <1>2, <1>3, <1>4
<1>6. ASSUME NEW k \in 1..Len(Work[c])
      PROVE  Program(c)[k + 6] = Work[c][k]
  <2>1. k + 6 \in 1..(6 + Len(Work[c])) /\ ~(k + 6 <= 6) /\ (k + 6) - 6 = k
    BY <1>4
  <2> HIDE DEF Initialise
  <2> QED BY <1>1, <1>2, <1>3, <2>1
<1> QED BY <1>1, <1>2, <1>3, <1>4, <1>5, <1>6

\* What each command waits for, one after the other.
LEMMA Shifted ==
    ASSUME NEW P, NEW w, NEW n \in {0, 3, 6, 8}, \A k \in 1..n : P[k + 6] = w[k]
    PROVE  /\ n >= 3 => P[7] = w[1] /\ P[8] = w[2] /\ P[9] = w[3]
           /\ n >= 6 => P[10] = w[4] /\ P[11] = w[5] /\ P[12] = w[6]
           /\ n = 8 => P[13] = w[7] /\ P[14] = w[8]
<1>1. \A k \in 1..n : k + 6 = 6 + k /\ P[6 + k] = w[k]
  OBVIOUS
<1>2. n >= 3 => P[6 + 1] = w[1] /\ P[6 + 2] = w[2] /\ P[6 + 3] = w[3]
  BY <1>1
<1>3. n >= 6 => P[6 + 4] = w[4] /\ P[6 + 5] = w[5] /\ P[6 + 6] = w[6]
  BY <1>1
<1>4. n = 8 => P[6 + 7] = w[7] /\ P[6 + 8] = w[8]
  BY <1>1
<1> QED BY <1>2, <1>3, <1>4

LEMMA Programs ==
    ASSUME NEW c \in OpsCommand
    PROVE  LET P == Program(c) IN
           /\ P[1] = "init state" /\ P[2] = "truncate state" /\ P[3] = "write state"
           /\ P[4] = "load queue" /\ P[5] = "truncate queue" /\ P[6] = "write queue"
           /\ c = "inspect" => Len(P) = 6
           /\ c = "enqueue" => Len(P) = 9 /\ P[7] = "enqueue" /\ P[8] = "truncate queue" /\ P[9] = "write queue"
           /\ c \in {"stop", "autopause"} => Len(P) = 9 /\ P[7] = c /\ P[8] = "truncate state" /\ P[9] = "write state"
           /\ c = "resume" => Len(P) = 12 /\ P[7] = c /\ P[8] = "truncate state" /\ P[9] = "write state"
                              /\ P[10] = "end autopause" /\ P[11] = "truncate state" /\ P[12] = "write state"
           /\ c = "run" => Len(P) = 14 /\ P[7] = "load state" /\ P[8] = "load queue" /\ P[9] = "select"
                           /\ P[10] = "execute" /\ P[11] = "truncate state" /\ P[12] = "write state"
                           /\ P[13] = "truncate queue" /\ P[14] = "write queue"
<1> DEFINE P == Program(c)
           w == Work[c]
<1>1. /\ Len(P) = 6 + Len(w)
      /\ \A k \in 1..6 : P[k] = Initialise[k]
      /\ \A k \in 1..Len(w) : P[k + 6] = w[k]
  BY Entries
<1>2. /\ P[1] = "init state" /\ P[2] = "truncate state" /\ P[3] = "write state"
      /\ P[4] = "load queue" /\ P[5] = "truncate queue" /\ P[6] = "write queue"
  <2>1. \A k \in 1..6 : P[k] =
          <<"init state", "truncate state", "write state", "load queue", "truncate queue", "write queue">>[k]
    BY <1>1 DEF Initialise
  <2>2. 1 \in 1..6 /\ 2 \in 1..6 /\ 3 \in 1..6 /\ 4 \in 1..6 /\ 5 \in 1..6 /\ 6 \in 1..6
    OBVIOUS
  <2> QED BY ONLY <2>1, <2>2
<1>3. /\ c = "inspect" => w = <<>>
      /\ c = "enqueue" => w = <<c, "truncate queue", "write queue">>
      /\ c \in {"stop", "autopause"} => w = <<c, "truncate state", "write state">>
      /\ c = "resume" => w = <<c, "truncate state", "write state", "end autopause", "truncate state", "write state">>
      /\ c = "run" => w = <<"load state", "load queue", "select", "execute", "truncate state", "write state",
                            "truncate queue", "write queue">>
  BY Works
<1> HIDE DEF P, w
<1>4. c = "inspect" => Len(w) = 0
  BY ONLY <1>3
<1>5. ASSUME c = "enqueue"
      PROVE  Len(w) = 3 /\ w[1] = c /\ w[2] = "truncate queue" /\ w[3] = "write queue"
  <2>1. w = <<c, "truncate queue", "write queue">>
    BY ONLY <1>3, <1>5
  <2> QED BY ONLY <2>1
<1>6. ASSUME c \in {"stop", "autopause"}
      PROVE  Len(w) = 3 /\ w[1] = c /\ w[2] = "truncate state" /\ w[3] = "write state"
  <2>1. w = <<c, "truncate state", "write state">>
    BY ONLY <1>3, <1>6
  <2> QED BY ONLY <2>1
<1>7. ASSUME c = "resume"
      PROVE  Len(w) = 6 /\ w[1] = c /\ w[2] = "truncate state" /\ w[3] = "write state"
             /\ w[4] = "end autopause" /\ w[5] = "truncate state" /\ w[6] = "write state"
  <2>1. w = <<c, "truncate state", "write state", "end autopause", "truncate state", "write state">>
    BY ONLY <1>3, <1>7
  <2> QED BY ONLY <2>1
<1>8. ASSUME c = "run"
      PROVE  Len(w) = 8 /\ w[1] = "load state" /\ w[2] = "load queue" /\ w[3] = "select" /\ w[4] = "execute"
             /\ w[5] = "truncate state" /\ w[6] = "write state" /\ w[7] = "truncate queue" /\ w[8] = "write queue"
  <2>1. w = <<"load state", "load queue", "select", "execute", "truncate state", "write state", "truncate queue", "write queue">>
    BY ONLY <1>3, <1>8
  <2> QED BY ONLY <2>1
<1>9. Len(w) \in {0, 3, 6, 8}
  BY <1>4, <1>5, <1>6, <1>7, <1>8 DEF OpsCommand, StateCommand
<1>10. /\ Len(w) = 3 => P[7] = w[1] /\ P[8] = w[2] /\ P[9] = w[3]
       /\ Len(w) = 6 => P[7] = w[1] /\ P[8] = w[2] /\ P[9] = w[3] /\ P[10] = w[4] /\ P[11] = w[5] /\ P[12] = w[6]
       /\ Len(w) = 8 => P[7] = w[1] /\ P[8] = w[2] /\ P[9] = w[3] /\ P[10] = w[4] /\ P[11] = w[5] /\ P[12] = w[6]
                        /\ P[13] = w[7] /\ P[14] = w[8]
  BY ONLY <1>1, <1>9, Shifted
<1>11. P = Program(c)
  BY DEF P
<1>12. /\ Len(w) = 0 => Len(P) = 6
       /\ Len(w) = 3 => Len(P) = 9
       /\ Len(w) = 6 => Len(P) = 12
       /\ Len(w) = 8 => Len(P) = 14
  <2> DEFINE m == Len(w)
             n == Len(P)
  <2>1. n = 6 + m
    BY <1>1
  <2> HIDE DEF m, n
  <2>2. (m = 0 => n = 6) /\ (m = 3 => n = 9) /\ (m = 6 => n = 12) /\ (m = 8 => n = 14)
    BY ONLY <2>1
  <2> QED BY <2>2 DEF m, n
<1>13. c = "enqueue" => Len(P) = 9 /\ P[7] = "enqueue" /\ P[8] = "truncate queue" /\ P[9] = "write queue"
  BY ONLY <1>5, <1>10, <1>12
<1>14. c \in {"stop", "autopause"} => Len(P) = 9 /\ P[7] = c /\ P[8] = "truncate state" /\ P[9] = "write state"
  BY ONLY <1>6, <1>10, <1>12
<1>15. c = "resume" => Len(P) = 12 /\ P[7] = c /\ P[8] = "truncate state" /\ P[9] = "write state"
                       /\ P[10] = "end autopause" /\ P[11] = "truncate state" /\ P[12] = "write state"
  BY ONLY <1>7, <1>10, <1>12
<1>16. c = "run" => Len(P) = 14 /\ P[7] = "load state" /\ P[8] = "load queue" /\ P[9] = "select"
                    /\ P[10] = "execute" /\ P[11] = "truncate state" /\ P[12] = "write state"
                    /\ P[13] = "truncate queue" /\ P[14] = "write queue"
  BY ONLY <1>8, <1>10, <1>12
<1> QED BY ONLY <1>2, <1>4, <1>11, <1>12, <1>13, <1>14, <1>15, <1>16

LEMMA Lengths ==
    ASSUME NEW c \in OpsCommand
    PROVE  /\ Len(Program(c)) \in {6, 9, 12, 14} /\ Len(Program(c)) \in Int /\ 1 \in 1..Len(Program(c))
           /\ Len(Program(c)) = CASE c = "inspect" -> 6 [] c = "resume" -> 12 [] c = "run" -> 14 [] OTHER -> 9
<1> DEFINE n == Len(Program(c))
<1>1. n = CASE c = "inspect" -> 6 [] c = "resume" -> 12 [] c = "run" -> 14 [] OTHER -> 9
  BY Programs DEF OpsCommand, StateCommand
<1> HIDE DEF n
<1>2. n \in {6, 9, 12, 14} /\ n \in Int /\ 1 \in 1..n
  BY ONLY <1>1
<1> QED BY <1>1, <1>2 DEF n

\* Where a command is when it waits for something.
Place(c, k, step) ==
    /\ step = "init state" => k = 1
    /\ step = "load state" => c = "run" /\ k = 7
    /\ step = "truncate state" => k = 2 \/ (c \in StateCommand /\ k = 8) \/ (c \in {"resume", "run"} /\ k = 11)
    /\ step = "write state" => k = 3 \/ (c \in StateCommand /\ k = 9) \/ (c \in {"resume", "run"} /\ k = 12)
    /\ step = "load queue" => k = 4 \/ (c = "run" /\ k = 8)
    /\ step = "truncate queue" => k = 5 \/ (c = "enqueue" /\ k = 8) \/ (c = "run" /\ k = 13)
    /\ step = "write queue" => k = 6 \/ (c = "enqueue" /\ k = 9) \/ (c = "run" /\ k = 14)
    /\ step = "select" => c = "run" /\ k = 9
    /\ step = "execute" => c = "run" /\ k = 10
    /\ step = "enqueue" => c = "enqueue" /\ k = 7
    /\ step \in StateCommand => c = step /\ k = 7
    /\ step = "end autopause" => c = "resume" /\ k = 10

LEMMA Positions ==
    ASSUME NEW c \in OpsCommand, NEW k \in 1..Len(Program(c))
    PROVE  Place(c, k, Program(c)[k])
<1> DEFINE P == Program(c)
           n == Len(P)
<1>1. /\ P[1] = "init state" /\ P[2] = "truncate state" /\ P[3] = "write state"
      /\ P[4] = "load queue" /\ P[5] = "truncate queue" /\ P[6] = "write queue"
      /\ c = "inspect" => n = 6
      /\ c = "enqueue" => n = 9 /\ P[7] = "enqueue" /\ P[8] = "truncate queue" /\ P[9] = "write queue"
      /\ c \in {"stop", "autopause"} => n = 9 /\ P[7] = c /\ P[8] = "truncate state" /\ P[9] = "write state"
      /\ c = "resume" => n = 12 /\ P[7] = c /\ P[8] = "truncate state" /\ P[9] = "write state"
                         /\ P[10] = "end autopause" /\ P[11] = "truncate state" /\ P[12] = "write state"
      /\ c = "run" => n = 14 /\ P[7] = "load state" /\ P[8] = "load queue" /\ P[9] = "select"
                      /\ P[10] = "execute" /\ P[11] = "truncate state" /\ P[12] = "write state"
                      /\ P[13] = "truncate queue" /\ P[14] = "write queue"
  BY Programs
<1>2. k \in 1..n /\ c \in OpsCommand
  OBVIOUS
<1> HIDE DEF P, n
<1>3. n \in {6, 9, 12, 14}
  BY ONLY <1>1, <1>2 DEF OpsCommand, StateCommand
<1>4. k \in 1..6 \/ (n >= 9 /\ k \in 7..9) \/ (n >= 12 /\ k \in 10..12) \/ (n = 14 /\ k \in 13..14)
  BY ONLY <1>2, <1>3
<1>5. CASE k \in 1..6
  <2>1. k = 1 \/ k = 2 \/ k = 3 \/ k = 4 \/ k = 5 \/ k = 6
    BY ONLY <1>5
  <2> QED BY ONLY <1>1, <2>1 DEF Place, StateCommand, P
<1>6. CASE n >= 9 /\ k \in 7..9
  <2>1. (k = 7 \/ k = 8 \/ k = 9)
    BY ONLY <1>6
  <2>2. c # "inspect"
    <3>1. ~(n = 6)
      BY ONLY <1>6
    <3> QED BY ONLY <1>1, <3>1
  <2> QED BY ONLY <1>1, <1>2, <2>1, <2>2 DEF Place, OpsCommand, StateCommand, P
<1>7. CASE n >= 12 /\ k \in 10..12
  <2>1. (k = 10 \/ k = 11 \/ k = 12)
    BY ONLY <1>7
  <2>2. c = "resume" \/ c = "run"
    <3>1. ~(n = 6) /\ ~(n = 9)
      BY ONLY <1>7
    <3> QED BY ONLY <1>1, <1>2, <3>1 DEF OpsCommand, StateCommand
  <2> QED BY ONLY <1>1, <2>1, <2>2 DEF Place, StateCommand, P
<1>8. CASE n = 14 /\ k \in 13..14
  <2>1. (k = 13 \/ k = 14)
    BY ONLY <1>8
  <2>2. c = "run"
    <3>1. ~(n = 6) /\ ~(n = 9) /\ ~(n = 12)
      BY ONLY <1>8
    <3> QED BY ONLY <1>1, <1>2, <3>1 DEF OpsCommand, StateCommand
  <2> QED BY ONLY <1>1, <2>1, <2>2 DEF Place, StateCommand, P
<1> QED BY ONLY <1>4, <1>5, <1>6, <1>7, <1>8

-----------------------------------------------------------------------------
Memory == [state : OpsState, queue : Seq(GoalItem)]
Places == {d \in [name : OpsCommand, at : Nat] : d.at \in 1..Len(Program(d.name))}

OpsInvTypes ==
    /\ OpsTypes
    /\ mem \in [OpsProcess -> Memory] /\ doing \in [OpsProcess -> Places \cup {NoCommand}]
    /\ enqueued \in Nat /\ IsFiniteSet(Pending) /\ enqueued + Cardinality(Pending) <= NumGoals

\* A process that has begun is somewhere in its program.
LEMMA Busyness ==
    ASSUME OpsInvTypes, NEW p \in OpsProcess, Busy(p)
    PROVE  /\ doing[p] \in Places /\ doing[p].name \in OpsCommand /\ doing[p].at \in 1..Len(Program(doing[p].name))
           /\ doing[p].at \in Nat
           /\ \A step : Awaits(p, step) => Place(doing[p].name, doing[p].at, step)
<1>1. doing[p] \in Places
  BY DEF OpsInvTypes, Busy
<1>2. doing[p].name \in OpsCommand /\ doing[p].at \in 1..Len(Program(doing[p].name)) /\ doing[p].at \in Nat
  BY <1>1 DEF Places
<1> QED BY <1>1, <1>2, Positions DEF Awaits

LEMMA Idleness == NoCommand \notin Places
<1>1. NoCommand.name = "none"
  BY DEF NoCommand
<1>2. "none" \notin OpsCommand
  BY DEF OpsCommand, StateCommand
<1>3. \A d \in Places : d.name \in OpsCommand
  BY DEF Places
<1> QED BY <1>1, <1>2, <1>3

\* Where a process is after an await.
After(p, d) ==
    /\ doing' = [doing EXCEPT ![p] = d]
    /\ IF AtLast(p) THEN d = NoCommand
       ELSE d \in Places /\ d.name = doing[p].name /\ d.at = doing[p].at + 1

LEMMA Advanced ==
    ASSUME OpsInvTypes, NEW p \in OpsProcess, Busy(p), Advance(p)
    PROVE  \E d \in Places \cup {NoCommand} : After(p, d)
<1>1. CASE AtLast(p)
  BY <1>1 DEF Advance, After, Leave
<1>2. CASE ~AtLast(p)
  <2> DEFINE d == [doing[p] EXCEPT !.at = @ + 1]
  <2>1. doing' = [doing EXCEPT ![p].at = @ + 1]
    BY <1>2 DEF Advance, Move
  <2>2. doing' = [doing EXCEPT ![p] = d]
    BY <2>1
  <2>3. doing[p] \in [name : OpsCommand, at : Nat] /\ doing[p].at \in 1..Len(Program(doing[p].name))
        /\ doing[p].at # Len(Program(doing[p].name))
    BY <1>2, Busyness DEF Places, AtLast
  <2>4. d \in [name : OpsCommand, at : Nat] /\ d.name = doing[p].name /\ d.at = doing[p].at + 1
    BY ONLY <2>3
  <2>5. Len(Program(doing[p].name)) \in Int
    BY Busyness, Lengths
  <2>6. d \in Places
    BY ONLY <2>3, <2>4, <2>5 DEF Places
  <2> QED BY <1>2, <2>2, <2>4, <2>6 DEF After
<1> QED BY <1>1, <1>2

LEMMA Moved ==
    ASSUME OpsInvTypes, NEW p \in OpsProcess, Busy(p), doing[p].name = "run", NEW n \in Int, Move(p, n),
           doing[p].at + n \in 1..14
    PROVE  \E d \in Places : /\ doing' = [doing EXCEPT ![p] = d] /\ d.name = "run"
                             /\ d.at = doing[p].at + n
<1> DEFINE d == [doing[p] EXCEPT !.at = @ + n]
<1>1. doing' = [doing EXCEPT ![p] = d]
  BY DEF Move
<1>2. doing[p] \in [name : OpsCommand, at : Nat]
  BY Busyness DEF Places
<1>3. d \in [name : OpsCommand, at : Nat] /\ d.name = "run" /\ d.at = doing[p].at + n
  BY ONLY <1>2, doing[p].name = "run", doing[p].at + n \in 1..14
<1>4. Len(Program("run")) = 14
  BY Programs DEF OpsCommand
<1>5. d \in Places
  BY ONLY <1>3, <1>4, doing[p].at + n \in 1..14 DEF Places
<1> QED BY <1>1, <1>3, <1>5

\* A goal that a process is about to push has been counted.
LEMMA PendingStep ==
    ASSUME OpsInvTypes, NEW p \in OpsProcess, NEW d \in Places \cup {NoCommand}, doing' = [doing EXCEPT ![p] = d],
           d.name = "enqueue" /\ d.at <= 7 => p \in Pending, enqueued' = enqueued
    PROVE  IsFiniteSet(Pending') /\ enqueued' + Cardinality(Pending') <= NumGoals
<1>1. Pending' \in SUBSET Pending
  <2>1. Len(Initialise) + 1 = 7
    BY Steps
  <2>2. \A q \in OpsProcess : doing'[q] = IF q = p THEN d ELSE doing[q]
    BY DEF OpsInvTypes
  <2> QED BY <2>1, <2>2 DEF Pending
<1>2. IsFiniteSet(Pending) /\ Cardinality(Pending) \in Nat
  BY FS_CardinalityType DEF OpsInvTypes
<1>3. IsFiniteSet(Pending') /\ Cardinality(Pending') <= Cardinality(Pending) /\ Cardinality(Pending') \in Nat
  BY <1>1, <1>2, FS_Subset, FS_CardinalityType
<1> QED BY <1>2, <1>3, OpsAssumption DEF OpsInvTypes

LEMMA OpsTypesStart == OpsInit => OpsInvTypes
<1> SUFFICES ASSUME OpsInit PROVE OpsInvTypes
  OBVIOUS
<1>1. Empty \in Memory
  <2>1. DefaultState(0) \in OpsState /\ <<>> \in Seq(GoalItem)
    BY DEF DefaultState, OpsState
  <2> QED BY ONLY <2>1 DEF Empty, Memory
<1>2. Pending = {}
  BY DEF Pending, OpsInit, NoCommand
<1>3. IsFiniteSet(Pending) /\ Cardinality(Pending) = 0
  BY <1>2, FS_EmptySet
<1>4. mem \in [OpsProcess -> Memory] /\ \A p \in OpsProcess : mem[p].state \in OpsState /\ mem[p].queue \in Seq(GoalItem)
  BY <1>1 DEF OpsInit, Memory
<1> QED BY <1>3, <1>4, OpsAssumption DEF OpsInvTypes, OpsTypes, OpsInit

LEMMA OpsTypesStep ==
    ASSUME OpsInvTypes, [OpsNext]_opsVars
    PROVE  OpsInvTypes'
<1> USE OpsAssumption
<1>0. /\ stateFile \in OpsState \cup {Unreadable} /\ queueFile \in Seq(GoalItem) \cup {Unreadable}
      /\ executed \in Seq(Goal) /\ enqueued \in Nat /\ mem \in [OpsProcess -> Memory]
      /\ doing \in [OpsProcess -> Places \cup {NoCommand}]
      /\ \A p \in OpsProcess : mem[p].state \in OpsState /\ mem[p].queue \in Seq(GoalItem)
  BY DEF OpsInvTypes, OpsTypes
<1>1. ASSUME NEW p \in OpsProcess, NEW m \in Memory, mem' = [mem EXCEPT ![p] = m], NEW d \in Places \cup {NoCommand},
             doing' = [doing EXCEPT ![p] = d], d.name = "enqueue" /\ d.at <= 7 => p \in Pending,
             enqueued' = enqueued, stateFile' \in OpsState \cup {Unreadable},
             queueFile' \in Seq(GoalItem) \cup {Unreadable}, executed' \in Seq(Goal)
      PROVE  OpsInvTypes'
  <2>1. mem' \in [OpsProcess -> Memory] /\ doing' \in [OpsProcess -> Places \cup {NoCommand}] /\ enqueued' \in Nat
    BY <1>0, <1>1
  <2>2. \A q \in OpsProcess : mem'[q].state \in OpsState /\ mem'[q].queue \in Seq(GoalItem)
    BY <2>1 DEF Memory
  <2>3. IsFiniteSet(Pending') /\ enqueued' + Cardinality(Pending') <= NumGoals
    BY <1>1, PendingStep
  <2> QED BY <1>1, <2>1, <2>2, <2>3 DEF OpsInvTypes, OpsTypes
<1>e. Empty \in Memory
  <2>1. DefaultState(0) \in OpsState /\ <<>> \in Seq(GoalItem)
    BY DEF DefaultState, OpsState
  <2> QED BY ONLY <2>1 DEF Empty, Memory
<1>m. \A p \in OpsProcess, s \in OpsState, q \in Seq(GoalItem) :
        /\ mem[p] \in Memory /\ [mem[p] EXCEPT !.state = s] \in Memory /\ [mem[p] EXCEPT !.queue = q] \in Memory
        /\ [mem[p] EXCEPT !.state = s, !.queue = q] \in Memory
  <2> SUFFICES ASSUME NEW p \in OpsProcess, NEW s \in OpsState, NEW q \in Seq(GoalItem)
               PROVE  /\ mem[p] \in Memory /\ [mem[p] EXCEPT !.state = s] \in Memory /\ [mem[p] EXCEPT !.queue = q] \in Memory
                      /\ [mem[p] EXCEPT !.state = s, !.queue = q] \in Memory
    OBVIOUS
  <2>1. mem[p] \in Memory
    BY <1>0
  <2> QED BY ONLY <2>1, s \in OpsState, q \in Seq(GoalItem) DEF Memory
<1>p. ASSUME NEW p \in OpsProcess, Busy(p), Advance(p)
      PROVE  \E d \in Places \cup {NoCommand} :
                doing' = [doing EXCEPT ![p] = d] /\ (d.name = "enqueue" /\ d.at <= 7 => p \in Pending)
  <2>1. PICK d \in Places \cup {NoCommand} : After(p, d)
    BY <1>p, Advanced
  <2>2. ASSUME d.name = "enqueue", d.at <= 7 PROVE p \in Pending
    <3>1. d # NoCommand
      BY <2>2 DEF NoCommand
    <3>2. d.name = doing[p].name /\ d.at = doing[p].at + 1
      BY <2>1, <3>1 DEF After
    <3>3. Len(Initialise) + 1 = 7 /\ doing[p].at \in Nat
      BY <1>p, Steps, Busyness
    <3> QED BY <2>2, <3>2, <3>3 DEF Pending
  <2> QED BY <2>1, <2>2 DEF After
<1>n. ASSUME NEW p \in OpsProcess, Leave(p)
      PROVE  \E d \in Places \cup {NoCommand} :
                doing' = [doing EXCEPT ![p] = d] /\ (d.name = "enqueue" /\ d.at <= 7 => p \in Pending)
  <2>1. NoCommand.name # "enqueue"
    BY DEF NoCommand
  <2> QED BY <1>n, <2>1 DEF Leave
<1>2. ASSUME NEW p \in OpsProcess, NEW name \in OpsCommand, BeginOps(p, name)
      PROVE  OpsInvTypes'
  <2> DEFINE d == [name |-> name, at |-> 1]
  <2>1. d \in Places
    BY Lengths DEF Places
  <2>2. doing' = [doing EXCEPT ![p] = d] /\ UNCHANGED <<stateFile, queueFile, mem, enqueued, executed>>
    BY <1>2 DEF BeginOps, opsFiles
  <2>3. CASE name = "enqueue"
    <3>1. \A q \in OpsProcess : doing'[q] = IF q = p THEN d ELSE doing[q]
      BY <1>0, <2>2
    <3>2. Pending' = Pending \cup {p}
      <4>1. Len(Initialise) + 1 = 7
        BY Steps
      <4> QED BY <2>3, <3>1, <4>1 DEF Pending
    <3>3. IsFiniteSet(Pending) /\ Cardinality(Pending) \in Nat
      BY FS_CardinalityType DEF OpsInvTypes
    <3>4. IsFiniteSet(Pending') /\ Cardinality(Pending') <= Cardinality(Pending) + 1 /\ Cardinality(Pending') \in Nat
      <4> DEFINE S == Pending
      <4>1. IsFiniteSet(S \cup {p})
            /\ Cardinality(S \cup {p}) = IF p \in S THEN Cardinality(S) ELSE Cardinality(S) + 1
        BY <3>3, FS_AddElement
      <4> QED BY <3>2, <3>3, <4>1
    <3>5. enqueued + Cardinality(Pending) < NumGoals
      BY <1>2, <2>3 DEF BeginOps
    <3>6. enqueued' + Cardinality(Pending') <= NumGoals
      BY <1>0, <2>2, <3>3, <3>4, <3>5
    <3> QED BY <1>0, <2>1, <2>2, <3>4, <3>6 DEF OpsInvTypes, OpsTypes
  <2>4. CASE name # "enqueue"
    <3>1. mem' = [mem EXCEPT ![p] = mem[p]] /\ mem[p] \in Memory
      BY <1>0, <2>2
    <3> HIDE DEF d
    <3>2. d.name # "enqueue"
      BY <2>4 DEF d
    <3> QED BY <1>0, <1>1, <2>1, <2>2, <3>1, <3>2
  <2> QED BY <2>3, <2>4
<1>3. ASSUME NEW p \in OpsProcess, LoadState(p)
      PROVE  OpsInvTypes'
  <2>1. PICK step : Awaits(p, step) /\ mem' = [mem EXCEPT ![p].state =
                      EditState(step, LoadedState(IF step = "init state" THEN Budget ELSE FallbackBudget))]
    BY <1>3 DEF LoadState
  <2> DEFINE l == LoadedState(IF step = "init state" THEN Budget ELSE FallbackBudget)
             s == EditState(step, l)
  <2>2. l \in OpsState
    BY <1>0 DEF LoadedState, DefaultState, OpsState
  <2> HIDE DEF l
  <2>3. s \in OpsState
    BY ONLY <2>2 DEF EditState, OpsState
  <2>4. mem' = [mem EXCEPT ![p] = [mem[p] EXCEPT !.state = s]]
    BY <2>1 DEF l
  <2> HIDE DEF s
  <2>5. [mem[p] EXCEPT !.state = s] \in Memory
    BY <1>0, <1>m, <2>3
  <2>6. Advance(p) /\ Busy(p) /\ UNCHANGED <<stateFile, queueFile, enqueued, executed>>
    BY <1>3, <2>1 DEF LoadState, opsFiles, Awaits
  <2> QED BY <1>0, <1>1, <1>p, <2>4, <2>5, <2>6
<1>4. ASSUME NEW p \in OpsProcess, LoadQueue(p)
      PROVE  OpsInvTypes'
  <2>1. mem' = [mem EXCEPT ![p] = [mem[p] EXCEPT !.queue = LoadedQueue]]
    BY <1>4 DEF LoadQueue
  <2>2. LoadedQueue \in Seq(GoalItem)
    BY <1>0 DEF LoadedQueue
  <2>3. [mem[p] EXCEPT !.queue = LoadedQueue] \in Memory
    BY <1>0, <1>m, <2>2
  <2>4. Advance(p) /\ Busy(p) /\ UNCHANGED <<stateFile, queueFile, enqueued, executed>>
    BY <1>4 DEF LoadQueue, opsFiles, Awaits
  <2> QED BY <1>0, <1>1, <1>p, <2>1, <2>3, <2>4
<1>5. ASSUME NEW p \in OpsProcess, Enqueue(p)
      PROVE  OpsInvTypes'
  <2> DEFINE item == [id |-> enqueued + 1, retries |-> 0, status |-> "queued"]
             m == [mem[p] EXCEPT !.queue = Append(LoadedQueue, item)]
  <2>1. Busy(p) /\ doing[p].name = "enqueue" /\ doing[p].at = 7 /\ Advance(p)
        /\ UNCHANGED <<stateFile, queueFile, executed>> /\ enqueued' = enqueued + 1
    <3>1. Busy(p) /\ Awaits(p, "enqueue")
      BY <1>5 DEF Enqueue, Awaits
    <3> QED BY <1>5, <3>1, Busyness DEF Place, Enqueue, opsFiles
  <2>2. p \in Pending /\ Len(Initialise) + 1 = 7
    BY <2>1, Steps DEF Pending
  <2>3. IsFiniteSet(Pending) /\ Cardinality(Pending) \in Nat
    BY FS_CardinalityType DEF OpsInvTypes
  <2>4. PICK d \in Places \cup {NoCommand} : After(p, d)
    BY <2>1, Advanced
  <2>5. Pending' = Pending \ {p}
    <3>1. \A q \in OpsProcess : doing'[q] = IF q = p THEN d ELSE doing[q]
      BY <1>0, <2>4 DEF After
    <3>2. ~(d.name = "enqueue" /\ d.at <= 7)
      BY <2>1, <2>4 DEF After, NoCommand
    <3> QED BY <2>2, <3>1, <3>2 DEF Pending
  <2>6. IsFiniteSet(Pending') /\ Cardinality(Pending') = Cardinality(Pending) - 1
    BY <2>2, <2>3, <2>5, FS_RemoveElement
  <2>7. enqueued + 1 \in Goal /\ enqueued' \in Nat /\ enqueued' + Cardinality(Pending') <= NumGoals
    <3>1. Cardinality(Pending) >= 1
      BY <2>2, <2>3, FS_EmptySet
    <3>2. enqueued + Cardinality(Pending) <= NumGoals
      BY DEF OpsInvTypes
    <3> QED BY <1>0, <2>1, <2>3, <2>6, <3>1, <3>2 DEF Goal
  <2>8. Append(LoadedQueue, item) \in Seq(GoalItem)
    <3>1. item \in GoalItem
      BY <2>7 DEF GoalItem, GoalStatus
    <3>2. LoadedQueue \in Seq(GoalItem)
      BY <1>0 DEF LoadedQueue
    <3> HIDE DEF item
    <3> QED BY <3>1, <3>2
  <2>9. m \in Memory
    BY <1>0, <1>m, <2>8
  <2>10. mem' = [mem EXCEPT ![p] = m]
    BY <1>5 DEF Enqueue
  <2> HIDE DEF m
  <2>11. mem' \in [OpsProcess -> Memory] /\ doing' \in [OpsProcess -> Places \cup {NoCommand}]
    BY <1>0, <2>4, <2>9, <2>10 DEF After
  <2>12. \A q \in OpsProcess : mem'[q].state \in OpsState /\ mem'[q].queue \in Seq(GoalItem)
    BY <2>11 DEF Memory
  <2> QED BY <1>0, <2>1, <2>6, <2>7, <2>11, <2>12 DEF OpsInvTypes, OpsTypes
<1>6. ASSUME NEW p \in OpsProcess, Truncate(p)
      PROVE  OpsInvTypes'
  <2>1. mem' = [mem EXCEPT ![p] = mem[p]] /\ mem[p] \in Memory
    BY <1>0, <1>6 DEF Truncate
  <2>2. Advance(p) /\ Busy(p) /\ UNCHANGED <<enqueued, executed>>
        /\ stateFile' \in {stateFile, Unreadable} /\ queueFile' \in {queueFile, Unreadable}
    BY <1>6 DEF Truncate, Awaits
  <2> QED BY <1>0, <1>1, <1>p, <2>1, <2>2
<1>7. ASSUME NEW p \in OpsProcess, Write(p)
      PROVE  OpsInvTypes'
  <2>0. mem[p].state \in OpsState /\ mem[p].queue \in Seq(GoalItem)
    BY <1>0
  <2>1. PICK m \in Memory : mem' = [mem EXCEPT ![p] = m]
    BY <1>0, <1>7, <1>e DEF Write, Forget
  <2>2. Advance(p) /\ Busy(p) /\ UNCHANGED <<enqueued, executed>>
        /\ stateFile' \in {stateFile, mem[p].state} /\ queueFile' \in {queueFile, mem[p].queue}
    BY <1>7 DEF Write, Awaits
  <2>3. stateFile' \in OpsState \cup {Unreadable} /\ queueFile' \in Seq(GoalItem) \cup {Unreadable} /\ executed' \in Seq(Goal)
    BY <1>0, <2>0, <2>2
  <2> QED BY <1>1, <1>p, <2>1, <2>2, <2>3
<1>8. ASSUME NEW p \in OpsProcess, Select(p)
      PROVE  OpsInvTypes'
  <2>1. Busy(p) /\ doing[p].name = "run" /\ doing[p].at = 9 /\ UNCHANGED <<stateFile, queueFile, enqueued, executed>>
    <3>1. Busy(p) /\ Awaits(p, "select")
      BY <1>8 DEF Select, Awaits
    <3> QED BY <1>8, <3>1, Busyness DEF Place, Select, opsFiles
  <2>2. CASE Leave(p) /\ Forget(p)
    BY <1>0, <1>1, <1>e, <1>n, <2>1, <2>2 DEF Forget
  <2>3. CASE ~(Leave(p) /\ Forget(p))
    <3>1. \E n \in Int : doing[p].at + n \in 1..14 /\ (Move(p, n) \/ (n = 0 /\ UNCHANGED doing))
      <4>1. UNCHANGED doing \/ Move(p, 1) \/ Move(p, 2)
        BY <1>8, <2>3 DEF Select
      <4>2. 9 + 0 \in 1..14 /\ 9 + 1 \in 1..14 /\ 9 + 2 \in 1..14
        OBVIOUS
      <4> QED BY <2>1, <4>1, <4>2
    <3>2. \E d \in Places : doing' = [doing EXCEPT ![p] = d] /\ d.name = "run"
      BY <1>0, <2>1, <3>1, Moved, Busyness
    <3>3. \E q \in Seq(GoalItem) : mem' = [mem EXCEPT ![p] = [mem[p] EXCEPT !.queue = q]]
      <4>1. CASE UNCHANGED mem
        <5>1. mem[p] = [mem[p] EXCEPT !.queue = mem[p].queue]
          BY <1>0 DEF Memory
        <5> QED BY <1>0, <4>1, <5>1
      <4>2. CASE ~UNCHANGED mem
        <5>1. PICK i \in Best(mem[p].queue), item \in GoalItem : ReplaceItem(p, i, item)
          <6>1. PICK i \in Best(mem[p].queue) :
                  LET item == mem[p].queue[i]
                  IN \/ ReplaceItem(p, i, [item EXCEPT !.status = "autopaused"])
                     \/ ReplaceItem(p, i, AwaitApproval(item))
                     \/ ReplaceItem(p, i, [item EXCEPT !.status = "running"])
            BY <1>8, <2>3, <4>2 DEF Select
          <6>2. i \in DOMAIN mem[p].queue
            BY DEF Best, Eligible
          <6>3. mem[p].queue[i] \in GoalItem
            BY <1>0, <6>2
          <6>4. \A status \in GoalStatus : [mem[p].queue[i] EXCEPT !.status = status] \in GoalItem
            BY ONLY <6>3 DEF GoalItem
          <6> QED BY <6>1, <6>4 DEF AwaitApproval, GoalStatus
        <5>2. mem' = [mem EXCEPT ![p].queue[i] = item]
          BY <5>1 DEF ReplaceItem
        <5>3. mem' = [mem EXCEPT ![p] = [mem[p] EXCEPT !.queue = [mem[p].queue EXCEPT ![i] = item]]]
          BY <5>2
        <5>4. [mem[p].queue EXCEPT ![i] = item] \in Seq(GoalItem)
          <6>1. i \in DOMAIN mem[p].queue /\ mem[p].queue \in Seq(GoalItem) /\ item \in GoalItem
            BY <1>0, <5>1 DEF Best, Eligible
          <6> QED BY ONLY <6>1
        <5> QED BY <5>3, <5>4
      <4> QED BY <4>1, <4>2
    <3>4. \E m \in Memory : mem' = [mem EXCEPT ![p] = m]
      BY <1>0, <1>m, <3>3
    <3> QED BY <1>0, <1>1, <2>1, <3>2, <3>4
  <2> QED BY <2>2, <2>3
<1>9. ASSUME NEW p \in OpsProcess, Executed(p)
      PROVE  OpsInvTypes'
  <2>1. Busy(p) /\ doing[p].name = "run" /\ doing[p].at = 10 /\ UNCHANGED <<stateFile, queueFile, enqueued>> /\ Move(p, -1)
    <3>1. Busy(p) /\ Awaits(p, "execute")
      BY <1>9 DEF Executed, Awaits
    <3> QED BY <1>9, <3>1, Busyness DEF Place, Executed, opsFiles
  <2>2. \E d \in Places : doing' = [doing EXCEPT ![p] = d] /\ d.name = "run"
    <3>1. -1 \in Int /\ doing[p].at + (-1) \in 1..14
      BY <2>1
    <3> QED BY <2>1, <3>1, Moved
  <2>3. PICK i \in DOMAIN mem[p].queue, success \in BOOLEAN :
        LET item == mem[p].queue[i]
        IN /\ mem' = [mem EXCEPT ![p].state.consumed = @ + 1,
                        ![p].queue[i] = IF success THEN [item EXCEPT !.status = "completed"]
                                        ELSE AfterFailure(item)]
           /\ executed' = Append(executed, item.id)
    BY <1>9 DEF Executed
  <2> DEFINE item == mem[p].queue[i]
             after == IF success THEN [item EXCEPT !.status = "completed"] ELSE AfterFailure(item)
             s == [mem[p].state EXCEPT !.consumed = @ + 1]
             q == [mem[p].queue EXCEPT ![i] = after]
  <2>4. item \in GoalItem
    BY <1>0
  <2>5. after \in GoalItem
    <3>1. item.retries + 1 \in Nat
      BY <2>4 DEF GoalItem
    <3> HIDE DEF item
    <3>2. [item EXCEPT !.status = "completed"] \in GoalItem
      BY ONLY <2>4 DEF GoalItem, GoalStatus
    <3>3. \A status \in {"escalated", "failed"} : [item EXCEPT !.retries = @ + 1, !.status = status] \in GoalItem
      BY ONLY <2>4, <3>1 DEF GoalItem, GoalStatus
    <3> QED BY <3>2, <3>3 DEF AfterFailure
  <2>6. mem[p].state \in OpsState /\ mem[p].queue \in Seq(GoalItem)
    BY <1>0
  <2> HIDE DEF after
  <2>7. s \in OpsState /\ q \in Seq(GoalItem)
    BY ONLY <2>5, <2>6 DEF OpsState
  <2>8. mem' = [mem EXCEPT ![p] = [mem[p] EXCEPT !.state = s, !.queue = q]]
    BY <2>3 DEF after
  <2>9. executed' \in Seq(Goal)
    BY <1>0, <2>3, <2>4 DEF GoalItem
  <2> HIDE DEF s, q
  <2>10. \E m \in Memory : mem' = [mem EXCEPT ![p] = m]
    BY <1>m, <2>7, <2>8
  <2> QED BY <1>0, <1>1, <2>1, <2>2, <2>9, <2>10
<1>10. ASSUME NEW p \in OpsProcess, Crash(p)
       PROVE  OpsInvTypes'
  BY <1>0, <1>1, <1>e, <1>n, <1>10 DEF Crash, Forget, opsFiles
<1>11. CASE UNCHANGED opsVars
  BY <1>11 DEF opsVars, opsFiles, OpsInvTypes, OpsTypes, Pending
<1>12. ASSUME OpsNext
       PROVE  OpsInvTypes'
  <2>1. {"enqueue", "run", "inspect", "stop", "autopause", "resume"} \subseteq OpsCommand
    BY DEF OpsCommand, StateCommand
  <2> QED BY <1>2, <1>3, <1>4, <1>5, <1>6, <1>7, <1>8, <1>9, <1>10, <1>12, <2>1 DEF OpsNext, OpsStep
<1> QED BY <1>11, <1>12

-----------------------------------------------------------------------------
\* While commands follow one another: what holds of a state and of a queue that is up to date,
\* and which of them a process has in memory at each place of its program.
SoundState(s) == s \in OpsState /\ s.budget = Budget /\ s.consumed = Len(executed)

SoundItem(item) ==
    /\ Runs(item.id) <= MaxRetries[item.id] + 1
    /\ item.status \in {"queued", "failed", "running"} =>
        Runs(item.id) = item.retries /\ item.retries <= MaxRetries[item.id]
SoundQueue(q) ==
    /\ q \in Seq(GoalItem) /\ Len(q) = enqueued
    /\ \A i \in DOMAIN q : q[i].id = i /\ SoundItem(q[i])

\* Only the first command of all finds no file.
StateOnFile(first) == SoundState(stateFile) \/ (first /\ stateFile = Unreadable /\ executed = <<>>)
QueueOnFile(first) ==
    SoundQueue(queueFile) \/ (first /\ queueFile = Unreadable /\ executed = <<>> /\ enqueued = 0)

HoldsState(c, k) ==
    \/ k \in {2, 3} \/ (c \in StateCommand /\ k \in {8, 9})
    \/ (c = "resume" /\ k \in {11, 12}) \/ (c = "run" /\ k \in 8..12)
HoldsQueue(c, k) == k \in {5, 6} \/ (c = "enqueue" /\ k \in {8, 9}) \/ (c = "run" /\ k \in 9..14)

InPlace(p, c, k) ==
    /\ IF HoldsState(c, k) THEN SoundState(mem[p].state) ELSE StateOnFile(k = 1)
    /\ IF HoldsQueue(c, k) THEN SoundQueue(mem[p].queue) ELSE QueueOnFile(k <= 4)
    /\ c = "run" /\ k = 8 => SoundState(stateFile)
    /\ c = "run" /\ k = 9 /\ Paused(p) => SoundState(stateFile) /\ SoundQueue(queueFile)
    /\ c = "run" /\ k = 10 => ~Paused(p) /\ ~Spent(p)

InTime ==
    /\ Len(executed) <= Budget
    /\ \A g \in Goal : Runs(g) <= MaxRetries[g] + 1
    /\ \A i \in DOMAIN executed : executed[i] <= enqueued

OpsInv ==
    /\ OpsInvTypes
    /\ ~disturbed =>
        /\ \A p, q \in OpsProcess : Busy(p) /\ Busy(q) => p = q
        /\ \A p \in OpsProcess : Busy(p) => InPlace(p, doing[p].name, doing[p].at)
        /\ (\A p \in OpsProcess : ~Busy(p)) => StateOnFile(TRUE) /\ QueueOnFile(TRUE)
        /\ InTime

LEMMA RunsOf ==
    ASSUME executed \in Seq(Goal), NEW x \in Goal, executed' = Append(executed, x), NEW g \in Goal
    PROVE  Runs(g) \in Nat /\ Runs(g)' = IF g = x THEN Runs(g) + 1 ELSE Runs(g)
<1> DEFINE n == Len(executed)
           at == {i \in DOMAIN executed : executed[i] = g}
           then == {i \in DOMAIN Append(executed, x) : Append(executed, x)[i] = g}
<1>1. n \in Nat /\ DOMAIN executed = 1..n /\ DOMAIN Append(executed, x) = 1..(n + 1)
      /\ \A i \in 1..(n + 1) : Append(executed, x)[i] = IF i = n + 1 THEN x ELSE executed[i]
  OBVIOUS
<1>2. at \subseteq 1..n /\ n + 1 \notin at
  BY <1>1
<1>3. IsFiniteSet(1..n)
  BY <1>1, FS_Interval
<1>4. IsFiniteSet(at) /\ Cardinality(at) \in Nat
  BY <1>2, <1>3, FS_Subset, FS_CardinalityType
<1>5. then = IF g = x THEN at \cup {n + 1} ELSE at
  BY <1>1
<1> HIDE DEF at, n
<1>6. Cardinality(at \cup {n + 1}) = Cardinality(at) + 1
  BY <1>2, <1>4, FS_AddElement
<1>7. Runs(g) = Cardinality(at) /\ Runs(g)' = Cardinality(then)
  BY DEF Runs, at
<1> QED BY <1>4, <1>5, <1>6, <1>7

LEMMA RunsAreNumbers ==
    ASSUME executed \in Seq(Goal), NEW g \in Goal
    PROVE  Runs(g) \in Nat /\ (Runs(g) = 0 <=> \A i \in DOMAIN executed : executed[i] # g)
<1> DEFINE at == {i \in DOMAIN executed : executed[i] = g}
<1>1. Len(executed) \in Nat /\ at \subseteq 1..Len(executed)
  OBVIOUS
<1>2. IsFiniteSet(1..Len(executed))
  BY <1>1, FS_Interval
<1>3. IsFiniteSet(at)
  BY <1>1, <1>2, FS_Subset
<1>4. Cardinality(at) \in Nat /\ (Cardinality(at) = 0 <=> at = {})
  BY <1>3, FS_CardinalityType, FS_EmptySet
<1> QED BY <1>4 DEF Runs

\* The step of a process that is alone.
LEMMA Alone ==
    ASSUME OpsInv, OpsInvTypes', ~disturbed, NEW p \in OpsProcess, Busy(p), NEW d,
           doing' = [doing EXCEPT ![p] = d], InTime',
           d # NoCommand => InPlace(p, d.name, d.at)',
           d = NoCommand => StateOnFile(TRUE)' /\ QueueOnFile(TRUE)'
    PROVE  OpsInv'
<1>1. \A q \in OpsProcess : Busy(q)' => q = p
  BY DEF OpsInv, OpsInvTypes, Busy
<1>2. doing'[p] = d
  BY DEF OpsInv, OpsInvTypes
<1>3. \A q \in OpsProcess : Busy(q)' => InPlace(q, doing[q].name, doing[q].at)'
  BY <1>1, <1>2 DEF Busy
<1> QED BY <1>1, <1>2, <1>3 DEF OpsInv, Busy

LEMMA SoundnessStays ==
    ASSUME UNCHANGED <<executed, enqueued>>
    PROVE  /\ \A s : SoundState(s) <=> SoundState(s)'
           /\ \A q : SoundQueue(q) <=> SoundQueue(q)'
           /\ InTime <=> InTime'
<1>1. \A g : Runs(g)' = Runs(g)
  BY DEF Runs
<1>2. \A s : SoundState(s) <=> SoundState(s)'
  BY DEF SoundState
<1>3. \A item : SoundItem(item) <=> SoundItem(item)'
  BY <1>1 DEF SoundItem
<1>4. \A q : SoundQueue(q) <=> SoundQueue(q)'
  BY <1>3 DEF SoundQueue
<1>5. InTime <=> InTime'
  BY <1>1 DEF InTime
<1> QED BY <1>2, <1>4, <1>5

LEMMA OpsBegin ==
    ASSUME OpsInv, OpsInvTypes', NEW p \in OpsProcess, NEW name \in OpsCommand, BeginOps(p, name)
    PROVE  OpsInv'
<1> SUFFICES ASSUME ~disturbed'
             PROVE  /\ \A q, r \in OpsProcess : Busy(q)' /\ Busy(r)' => q = r
                    /\ \A q \in OpsProcess : Busy(q)' => InPlace(q, doing[q].name, doing[q].at)'
                    /\ ((\A q \in OpsProcess : ~Busy(q)) => StateOnFile(TRUE) /\ QueueOnFile(TRUE))'
                    /\ InTime'
  BY DEF OpsInv
<1> DEFINE d == [name |-> name, at |-> 1]
<1>1. ~disturbed /\ (\A q \in OpsProcess : ~Busy(q)) /\ doing' = [doing EXCEPT ![p] = d]
      /\ UNCHANGED <<stateFile, queueFile, mem, enqueued, executed>>
  BY DEF BeginOps, OthersBusy, opsFiles
<1>2. StateOnFile(TRUE) /\ QueueOnFile(TRUE) /\ InTime
  BY <1>1 DEF OpsInv
<1>3. StateOnFile(TRUE)' /\ QueueOnFile(TRUE)' /\ InTime'
  BY <1>1, <1>2, SoundnessStays DEF StateOnFile, QueueOnFile
<1>4. \A q \in OpsProcess : doing'[q] = IF q = p THEN d ELSE doing[q]
  BY <1>1 DEF OpsInv, OpsInvTypes
<1>5. \A q \in OpsProcess : Busy(q)' => q = p
  BY <1>1, <1>4 DEF Busy
<1>6. InPlace(p, name, 1)'
  <2>1. ~HoldsState(name, 1) /\ ~HoldsQueue(name, 1)
    BY DEF HoldsState, HoldsQueue
  <2>2. StateOnFile(1 = 1)' /\ QueueOnFile(1 <= 4)'
    BY <1>3 DEF StateOnFile, QueueOnFile
  <2> QED BY <2>1, <2>2 DEF InPlace
<1>7. d.name = name /\ d.at = 1 /\ d # NoCommand
  BY DEF NoCommand
<1>8. \A q \in OpsProcess : Busy(q)' => InPlace(q, doing[q].name, doing[q].at)'
  BY <1>4, <1>5, <1>6, <1>7
<1> QED BY <1>3, <1>5, <1>8

LastPlace(c) == CASE c = "inspect" -> 6 [] c = "resume" -> 12 [] c = "run" -> 14 [] OTHER -> 9

\* A process that is busy is alone, and this is where it is.
LEMMA Here ==
    ASSUME OpsInv, ~disturbed, NEW p \in OpsProcess, Busy(p)
    PROVE  \E c \in OpsCommand, k \in Nat :
            /\ c = doing[p].name /\ k = doing[p].at /\ k \in 1..LastPlace(c)
            /\ InPlace(p, c, k) /\ InTime
            /\ \A step : Awaits(p, step) => Place(c, k, step)
<1>1. InPlace(p, doing[p].name, doing[p].at) /\ InTime /\ OpsInvTypes
  BY DEF OpsInv
<1>2. Len(Program(doing[p].name)) = LastPlace(doing[p].name)
  BY <1>1, Busyness, Lengths DEF LastPlace
<1> QED BY <1>1, <1>2, Busyness

LEMMA OneStep ==
    ASSUME OpsInv, OpsInvTypes', ~disturbed, NEW p \in OpsProcess, Busy(p), Advance(p), InTime',
           NEW c \in OpsCommand, NEW k \in Nat, c = doing[p].name, k = doing[p].at,
           k = LastPlace(c) => StateOnFile(TRUE)' /\ QueueOnFile(TRUE)',
           k # LastPlace(c) => InPlace(p, c, k + 1)'
    PROVE  OpsInv'
<1>1. PICK d \in Places \cup {NoCommand} : After(p, d)
  BY Advanced DEF OpsInv
<1>2. Len(Program(c)) = LastPlace(c)
  BY Lengths DEF LastPlace
<1>3. IF k = LastPlace(c) THEN d = NoCommand ELSE d # NoCommand /\ d.name = c /\ d.at = k + 1
  BY <1>1, <1>2, Idleness DEF After, AtLast
<1> QED BY <1>1, <1>3, Alone DEF After

LEMMA EditsAreSound ==
    ASSUME NEW step, NEW s, SoundState(s)
    PROVE  SoundState(EditState(step, s))
BY DEF SoundState, EditState, OpsState

LEMMA OpsLoadState ==
    ASSUME OpsInv, OpsInvTypes', NEW p \in OpsProcess, LoadState(p)
    PROVE  OpsInv'
<1> SUFFICES ASSUME ~disturbed PROVE OpsInv'
  BY DEF OpsInv, LoadState, Unhistorical
<1>1. Busy(p) /\ Advance(p) /\ UNCHANGED <<stateFile, queueFile, enqueued, executed>>
  BY DEF LoadState, Awaits, opsFiles
<1>2. PICK c \in OpsCommand, k \in Nat :
        /\ c = doing[p].name /\ k = doing[p].at /\ k \in 1..LastPlace(c)
        /\ InPlace(p, c, k) /\ InTime /\ \A st : Awaits(p, st) => Place(c, k, st)
  BY <1>1, Here
<1> DEFINE later == (k = 7 /\ (c = "run" \/ c \in StateCommand)) \/ (k = 10 /\ c = "resume")
           changed(s) == mem' = [mem EXCEPT ![p].state = s]
<1>3. \/ k = 1 /\ changed(EditState("init state", LoadedState(Budget)))
      \/ later /\ \E step : changed(EditState(step, LoadedState(FallbackBudget)))
  <2>1. CASE Awaits(p, "init state") /\ changed(EditState("init state", LoadedState(Budget)))
    <3>1. k = 1
      BY <1>2, <2>1 DEF Place
    <3> QED BY <2>1, <3>1
  <2>2. CASE \/ Awaits(p, "load state") /\ changed(EditState("load state", LoadedState(FallbackBudget)))
             \/ Awaits(p, "stop") /\ changed(EditState("stop", LoadedState(FallbackBudget)))
             \/ Awaits(p, "resume") /\ changed(EditState("resume", LoadedState(FallbackBudget)))
             \/ Awaits(p, "autopause") /\ changed(EditState("autopause", LoadedState(FallbackBudget)))
             \/ Awaits(p, "end autopause") /\ changed(EditState("end autopause", LoadedState(FallbackBudget)))
    <3>1. later
      <4>1. \/ Place(c, k, "load state") \/ Place(c, k, "stop") \/ Place(c, k, "resume")
            \/ Place(c, k, "autopause") \/ Place(c, k, "end autopause")
        BY <1>2, <2>2
      <4> QED BY <4>1 DEF Place, StateCommand
    <3> HIDE DEF later
    <3> QED BY <2>2, <3>1
  <2>3. PICK step :
          /\ step \in {"init state", "load state", "stop", "resume", "autopause", "end autopause"}
          /\ Awaits(p, step)
          /\ changed(EditState(step, LoadedState(IF step = "init state" THEN Budget ELSE FallbackBudget)))
    BY DEF LoadState
  <2> HIDE DEF later, changed
  <2> QED BY <2>1, <2>2, <2>3
<1>4. k # LastPlace(c) /\ k \in Int /\ (k = 1 \/ k = 7 \/ k = 10)
  <2>1. LastPlace(c) = 6 \/ LastPlace(c) = 9 \/ LastPlace(c) = 12 \/ LastPlace(c) = 14
    BY DEF LastPlace
  <2>2. k \in Int /\ (k = 1 \/ k = 7 \/ k = 10)
    <3>1. k = 1 \/ later
      BY <1>3
    <3> QED BY ONLY <3>1, k \in Nat
  <2> QED BY ONLY <2>1, <2>2
<1>5. k = 1 \/ later
  BY <1>3
<1>6. ~HoldsState(c, k) /\ ~HoldsQueue(c, k)
  BY ONLY <1>4, <1>5 DEF HoldsState, HoldsQueue, StateCommand
<1>7. StateOnFile(k = 1) /\ QueueOnFile(k <= 4)
  BY <1>2, <1>6 DEF InPlace
<1>8. k # 1 => SoundState(stateFile)
  BY <1>7 DEF StateOnFile
<1>9. ASSUME NEW budget, k = 1 => budget = Budget
      PROVE  SoundState(LoadedState(budget))
  <2>1. CASE SoundState(stateFile)
    BY <2>1, OpsAssumption DEF SoundState, LoadedState
  <2>2. CASE k = 1 /\ stateFile = Unreadable /\ executed = <<>>
    <3>1. LoadedState(budget) = DefaultState(Budget)
      BY <1>9, <2>2 DEF LoadedState
    <3>2. Len(executed) = 0
      BY <2>2
    <3>3. DefaultState(Budget) \in OpsState /\ DefaultState(Budget).budget = Budget /\ DefaultState(Budget).consumed = 0
      BY OpsAssumption DEF DefaultState, OpsState
    <3> QED BY <3>1, <3>2, <3>3 DEF SoundState
  <2> QED BY <1>7, <2>1, <2>2 DEF StateOnFile
<1>10. PICK s : SoundState(s) /\ changed(s)
  <2>1. CASE k = 1 /\ changed(EditState("init state", LoadedState(Budget)))
    BY <1>9, <2>1, EditsAreSound
  <2>2. CASE later /\ \E step : changed(EditState(step, LoadedState(FallbackBudget)))
    <3>1. k # 1
      BY <2>2
    <3> HIDE DEF later, changed
    <3> QED BY <1>9, <2>2, <3>1, EditsAreSound
  <2> HIDE DEF later, changed
  <2> QED BY <1>3, <2>1, <2>2
<1>11. mem'[p].state = s /\ mem'[p].queue = mem[p].queue
  <2>1. mem[p] \in Memory /\ mem \in [OpsProcess -> Memory]
    BY DEF OpsInv, OpsInvTypes
  <2>2. mem' = [mem EXCEPT ![p] = [mem[p] EXCEPT !.state = s]]
    BY <1>10
  <2> QED BY <2>1, <2>2 DEF Memory
<1>12. SoundState(mem[p].state)' /\ (k # 1 => SoundState(stateFile)') /\ InTime'
  BY <1>1, <1>2, <1>8, <1>10, <1>11, SoundnessStays
<1>13. QueueOnFile(k + 1 <= 4)'
  <2>1. (k <= 4) <=> (k + 1 <= 4)
    BY ONLY <1>4
  <2> QED BY <1>1, <1>7, <2>1, SoundnessStays DEF QueueOnFile
<1>14. InPlace(p, c, k + 1)'
  <2>1. HoldsState(c, k + 1) /\ ~HoldsQueue(c, k + 1)
    BY ONLY <1>4, <1>5 DEF HoldsState, HoldsQueue, StateCommand
  <2>2. k + 1 # 9 /\ k + 1 # 10 /\ (k + 1 = 8 => k # 1)
    BY ONLY <1>4
  <2> QED BY <1>12, <1>13, <2>1, <2>2 DEF InPlace
<1> QED BY <1>1, <1>2, <1>4, <1>12, <1>14, OneStep

LEMMA OpsLoadQueue ==
    ASSUME OpsInv, OpsInvTypes', NEW p \in OpsProcess, LoadQueue(p)
    PROVE  OpsInv'
<1> SUFFICES ASSUME ~disturbed PROVE OpsInv'
  BY DEF OpsInv, LoadQueue, Unhistorical
<1>1. Awaits(p, "load queue") /\ Busy(p) /\ Advance(p) /\ UNCHANGED <<stateFile, queueFile, enqueued, executed>>
      /\ mem' = [mem EXCEPT ![p].queue = LoadedQueue]
  BY DEF LoadQueue, Awaits, opsFiles
<1>2. PICK c \in OpsCommand, k \in Nat :
        /\ c = doing[p].name /\ k = doing[p].at /\ k \in 1..LastPlace(c)
        /\ InPlace(p, c, k) /\ InTime /\ \A st : Awaits(p, st) => Place(c, k, st)
  BY <1>1, Here
<1>3. k = 4 \/ (c = "run" /\ k = 8)
  BY <1>1, <1>2 DEF Place
<1>4. k # LastPlace(c)
  BY <1>3 DEF LastPlace
<1>5. mem'[p].queue = LoadedQueue /\ mem'[p].state = mem[p].state
  <2>1. mem[p] \in Memory /\ mem \in [OpsProcess -> Memory]
    BY DEF OpsInv, OpsInvTypes
  <2>2. mem' = [mem EXCEPT ![p] = [mem[p] EXCEPT !.queue = LoadedQueue]]
    BY <1>1
  <2> QED BY <2>1, <2>2 DEF Memory
<1>6. ~HoldsQueue(c, k)
  BY <1>3 DEF HoldsQueue
<1>7. QueueOnFile(k <= 4)
  BY <1>2, <1>6 DEF InPlace
<1>8. SoundQueue(LoadedQueue)
  <2>1. CASE SoundQueue(queueFile)
    BY <2>1, OpsAssumption DEF SoundQueue, LoadedQueue
  <2>2. CASE queueFile = Unreadable /\ enqueued = 0
    BY <2>2 DEF SoundQueue, LoadedQueue
  <2> QED BY <1>7, <2>1, <2>2 DEF QueueOnFile
<1>9. SoundQueue(mem[p].queue)' /\ InTime'
  BY <1>1, <1>2, <1>5, <1>8, SoundnessStays
<1>10. HoldsQueue(c, k + 1)
  BY <1>3 DEF HoldsQueue
<1>11. CASE k = 4
  <2>1. ~HoldsState(c, 4) /\ ~HoldsState(c, 5)
    BY DEF HoldsState
  <2>2. SoundState(stateFile)
    BY <1>2, <1>11, <2>1 DEF InPlace, StateOnFile
  <2>3. SoundState(stateFile)'
    BY <1>1, <2>2, SoundnessStays
  <2>4. InPlace(p, c, 5)'
    BY <1>9, <1>10, <1>11, <2>1, <2>3 DEF InPlace, StateOnFile
  <2>5. k + 1 = 5
    BY ONLY <1>11
  <2> QED BY <1>1, <1>2, <1>4, <1>9, <2>4, <2>5, OneStep
<1>12. CASE c = "run" /\ k = 8
  <2>1. HoldsState(c, 8) /\ HoldsState(c, 9)
    BY <1>12 DEF HoldsState
  <2>2. SoundState(mem[p].state) /\ SoundState(stateFile)
    BY <1>2, <1>12, <2>1 DEF InPlace
  <2>3. SoundQueue(queueFile)
    BY <1>7, <1>12 DEF QueueOnFile
  <2>4. SoundState(mem[p].state)' /\ SoundState(stateFile)' /\ SoundQueue(queueFile)'
    BY <1>1, <1>5, <2>2, <2>3, SoundnessStays
  <2>5. InPlace(p, c, 9)'
    BY <1>9, <1>10, <1>12, <2>1, <2>4 DEF InPlace
  <2>6. k + 1 = 9
    BY ONLY <1>12
  <2> QED BY <1>1, <1>2, <1>4, <1>9, <2>5, <2>6, OneStep
<1> QED BY <1>3, <1>11, <1>12

LEMMA OpsEnqueue ==
    ASSUME OpsInv, OpsInvTypes', NEW p \in OpsProcess, Enqueue(p)
    PROVE  OpsInv'
<1> SUFFICES ASSUME ~disturbed PROVE OpsInv'
  BY DEF OpsInv, Enqueue, Unhistorical
<1>0. PICK item, queue : /\ item = [id |-> enqueued + 1, retries |-> 0, status |-> "queued"]
                         /\ queue = Append(LoadedQueue, item)
  OBVIOUS
<1>1. Awaits(p, "enqueue") /\ Busy(p) /\ Advance(p) /\ UNCHANGED <<stateFile, queueFile, executed>>
      /\ enqueued' = enqueued + 1 /\ mem' = [mem EXCEPT ![p].queue = queue]
  BY <1>0 DEF Enqueue, Awaits, opsFiles
<1>2. PICK c \in OpsCommand, k \in Nat :
        /\ c = doing[p].name /\ k = doing[p].at /\ k \in 1..LastPlace(c)
        /\ InPlace(p, c, k) /\ InTime /\ \A st : Awaits(p, st) => Place(c, k, st)
  BY <1>1, Here
<1>3. c = "enqueue" /\ k = 7 /\ LastPlace(c) = 9
  BY <1>1, <1>2 DEF Place, LastPlace
<1>4. ~HoldsState(c, 7) /\ ~HoldsQueue(c, 7) /\ ~HoldsState(c, 8) /\ HoldsQueue(c, 8)
  BY <1>3 DEF HoldsState, HoldsQueue, StateCommand
<1>5. SoundState(stateFile) /\ SoundQueue(queueFile)
  BY <1>2, <1>3, <1>4 DEF InPlace, StateOnFile, QueueOnFile
<1>6. mem'[p].queue = queue
  <2>1. mem[p] \in Memory /\ mem \in [OpsProcess -> Memory]
    BY DEF OpsInv, OpsInvTypes
  <2>2. mem' = [mem EXCEPT ![p] = [mem[p] EXCEPT !.queue = queue]]
    BY <1>1
  <2> QED BY <2>1, <2>2 DEF Memory
<1>7. LoadedQueue = queueFile /\ queueFile \in Seq(GoalItem) /\ Len(queueFile) = enqueued /\ enqueued \in Nat
  BY <1>5, OpsAssumption DEF SoundQueue, LoadedQueue, OpsInv, OpsInvTypes
<1>8. queue \in Seq(GoalItem)
  BY <1>6 DEF OpsInvTypes, OpsTypes
<1>9. DOMAIN queue = 1..(enqueued + 1) /\ Len(queue) = enqueued + 1
      /\ \A i \in 1..(enqueued + 1) : queue[i] = IF i = enqueued + 1 THEN item ELSE queueFile[i]
  BY <1>0, <1>7
<1>10. item.id = enqueued + 1 /\ item.id \in Goal /\ item.retries = 0 /\ item.status = "queued"
  <2>1. queue[enqueued + 1] = item /\ queue[enqueued + 1] \in GoalItem
    BY <1>7, <1>8, <1>9
  <2> QED BY <1>0, <2>1 DEF GoalItem
<1>11. \A g : Runs(g)' = Runs(g)
  BY <1>1 DEF Runs
<1>20. \A i \in DOMAIN executed : executed[i] \in Int
  <2>1. executed \in Seq(Goal)
    BY DEF OpsInv, OpsInvTypes, OpsTypes
  <2>2. \A i \in DOMAIN executed : executed[i] \in Goal
    BY ONLY <2>1
  <2> QED BY <2>2 DEF Goal
<1>12. SoundItem(item)'
  <2>1. \A i \in DOMAIN executed : executed[i] # item.id
    <3>1. \A i \in DOMAIN executed : executed[i] <= enqueued
      BY <1>2 DEF InTime
    <3> QED BY <1>7, <1>10, <1>20, <3>1
  <2>2. Runs(item.id) = 0
    BY <1>10, <2>1, RunsAreNumbers DEF OpsInv, OpsInvTypes, OpsTypes
  <2>3. MaxRetries[item.id] \in Nat
    BY <1>10, OpsAssumption
  <2> QED BY <1>10, <1>11, <2>2, <2>3 DEF SoundItem
<1>13. SoundQueue(queue)'
  <2>1. ASSUME NEW i \in 1..(enqueued + 1)
        PROVE  queue[i].id = i /\ SoundItem(queue[i])'
    <3>1. CASE i = enqueued + 1
      BY <1>9, <1>10, <1>12, <3>1
    <3>2. CASE i # enqueued + 1
      <4>1. i \in DOMAIN queueFile
        BY <1>7, <3>2
      <4>2. queue[i] = queueFile[i] /\ queueFile[i].id = i /\ SoundItem(queueFile[i])
        BY <1>5, <1>9, <3>2, <4>1 DEF SoundQueue
      <4> QED BY <1>11, <4>2 DEF SoundItem
    <3> QED BY <3>1, <3>2
  <2> QED BY <1>1, <1>8, <1>9, <2>1 DEF SoundQueue
<1>14. SoundState(stateFile)'
  BY <1>1, <1>5 DEF SoundState
<1>15. InTime'
  BY <1>1, <1>2, <1>7, <1>11, <1>20 DEF InTime
<1>16. InPlace(p, c, 8)'
  BY <1>3, <1>4, <1>6, <1>13, <1>14 DEF InPlace, StateOnFile
<1>17. k + 1 = 8 /\ k # LastPlace(c)
  BY ONLY <1>3
<1> QED BY <1>1, <1>2, <1>15, <1>16, <1>17, OneStep

LEMMA OpsTruncate ==
    ASSUME OpsInv, OpsInvTypes', NEW p \in OpsProcess, Truncate(p)
    PROVE  OpsInv'
<1> SUFFICES ASSUME ~disturbed PROVE OpsInv'
  BY DEF OpsInv, Truncate, Unhistorical
<1>1. /\ Busy(p) /\ Advance(p) /\ UNCHANGED <<mem, enqueued, executed>>
      /\ \/ Awaits(p, "truncate state") /\ UNCHANGED queueFile
         \/ Awaits(p, "truncate queue") /\ UNCHANGED stateFile
  BY DEF Truncate, Awaits
<1>2. PICK c \in OpsCommand, k \in Nat :
        /\ c = doing[p].name /\ k = doing[p].at /\ k \in 1..LastPlace(c)
        /\ InPlace(p, c, k) /\ InTime /\ \A st : Awaits(p, st) => Place(c, k, st)
  BY <1>1, Here
<1>3. InTime'
  BY <1>1, <1>2, SoundnessStays
<1>4. LastPlace(c) = 6 \/ LastPlace(c) = 9 \/ LastPlace(c) = 12 \/ LastPlace(c) = 14
  BY DEF LastPlace
<1>5. CASE Awaits(p, "truncate state") /\ UNCHANGED queueFile
  <2>1. (k = 2 \/ (c \in StateCommand /\ k = 8) \/ (c \in {"resume", "run"} /\ k = 11))
    BY <1>2, <1>5 DEF Place
  <2>2. HoldsState(c, k) /\ HoldsState(c, k + 1) /\ (HoldsQueue(c, k) <=> HoldsQueue(c, k + 1))
        /\ ((k <= 4) <=> (k + 1 <= 4)) /\ k # LastPlace(c)
        /\ ~(c = "run" /\ k + 1 = 8) /\ ~(c = "run" /\ k + 1 = 9) /\ ~(c = "run" /\ k + 1 = 10)
    <3>1. k \in Int /\ (k = 2 \/ k = 8 \/ k = 11)
      BY <2>1
    <3>2. k # LastPlace(c) /\ ((k <= 4) <=> (k + 1 <= 4))
      BY ONLY <1>4, <3>1
    <3> QED BY ONLY <2>1, <3>1, <3>2 DEF HoldsState, HoldsQueue, StateCommand
  <2>3. SoundState(mem[p].state)
    BY <1>2, <2>2 DEF InPlace
  <2>4. IF HoldsQueue(c, k + 1) THEN SoundQueue(mem[p].queue) ELSE QueueOnFile(k + 1 <= 4)
    BY <1>2, <2>2 DEF InPlace, QueueOnFile
  <2>5. SoundState(mem[p].state)'
        /\ (IF HoldsQueue(c, k + 1) THEN SoundQueue(mem[p].queue)' ELSE QueueOnFile(k + 1 <= 4)')
    BY <1>1, <1>5, <2>3, <2>4, SoundnessStays DEF QueueOnFile
  <2>6. InPlace(p, c, k + 1)'
    BY <2>2, <2>5 DEF InPlace
  <2> QED BY <1>1, <1>2, <1>3, <2>2, <2>6, OneStep
<1>6. CASE Awaits(p, "truncate queue") /\ UNCHANGED stateFile
  <2>1. (k = 5 \/ (c = "enqueue" /\ k = 8) \/ (c = "run" /\ k = 13))
    BY <1>2, <1>6 DEF Place
  <2>2. HoldsQueue(c, k) /\ HoldsQueue(c, k + 1) /\ ~HoldsState(c, k) /\ ~HoldsState(c, k + 1)
        /\ k # 1 /\ k + 1 # 1 /\ k # LastPlace(c)
        /\ ~(c = "run" /\ k + 1 = 8) /\ ~(c = "run" /\ k + 1 = 9) /\ ~(c = "run" /\ k + 1 = 10)
    <3>1. k \in Int /\ (k = 5 \/ k = 8 \/ k = 13)
      BY <2>1
    <3>2. k # LastPlace(c)
      BY ONLY <1>4, <3>1
    <3> QED BY ONLY <2>1, <3>1, <3>2 DEF HoldsState, HoldsQueue, StateCommand
  <2>3. SoundQueue(mem[p].queue) /\ SoundState(stateFile)
    BY <1>2, <2>2 DEF InPlace, StateOnFile
  <2>4. SoundQueue(mem[p].queue)' /\ SoundState(stateFile)'
    BY <1>1, <1>6, <2>3, SoundnessStays
  <2>5. InPlace(p, c, k + 1)'
    BY <2>2, <2>4 DEF InPlace, StateOnFile
  <2> QED BY <1>1, <1>2, <1>3, <2>2, <2>5, OneStep
<1> QED BY <1>1, <1>5, <1>6

LEMMA OpsWrite ==
    ASSUME OpsInv, OpsInvTypes', NEW p \in OpsProcess, Write(p)
    PROVE  OpsInv'
<1> SUFFICES ASSUME ~disturbed PROVE OpsInv'
  BY DEF OpsInv, Write, Unhistorical
<1>1. /\ Busy(p) /\ Advance(p) /\ UNCHANGED <<enqueued, executed>> /\ (~AtLast(p) => UNCHANGED mem)
      /\ \/ Awaits(p, "write state") /\ stateFile' = mem[p].state /\ UNCHANGED queueFile
         \/ Awaits(p, "write queue") /\ queueFile' = mem[p].queue /\ UNCHANGED stateFile
  BY DEF Write, Awaits
<1>2. PICK c \in OpsCommand, k \in Nat :
        /\ c = doing[p].name /\ k = doing[p].at /\ k \in 1..LastPlace(c)
        /\ InPlace(p, c, k) /\ InTime /\ \A st : Awaits(p, st) => Place(c, k, st)
  BY <1>1, Here
<1>3. InTime'
  BY <1>1, <1>2, SoundnessStays
<1>4. k # LastPlace(c) => UNCHANGED mem
  BY <1>1, <1>2, Lengths DEF AtLast, LastPlace
<1>5. CASE Awaits(p, "write state") /\ stateFile' = mem[p].state /\ UNCHANGED queueFile
  <2>1. (k = 3 \/ (c \in StateCommand /\ k = 9) \/ (c \in {"resume", "run"} /\ k = 12))
    BY <1>2, <1>5 DEF Place
  <2>2. HoldsState(c, k) /\ ~HoldsState(c, k + 1) /\ (HoldsQueue(c, k) <=> HoldsQueue(c, k + 1))
        /\ ((k <= 4) <=> (k + 1 <= 4)) /\ (HoldsQueue(c, k) => k # LastPlace(c))
        /\ ~(c = "run" /\ k + 1 = 8) /\ ~(c = "run" /\ k + 1 = 9) /\ ~(c = "run" /\ k + 1 = 10)
    <3>1. k \in Int /\ (k = 3 \/ k = 9 \/ k = 12)
      BY <2>1
    <3>2. (k <= 4) <=> (k + 1 <= 4)
      BY ONLY <3>1
    <3>3. c = "run" => LastPlace(c) = 14
      BY DEF LastPlace
    <3> QED BY ONLY <2>1, <3>1, <3>2, <3>3 DEF HoldsState, HoldsQueue, StateCommand
  <2>3. SoundState(stateFile)'
    BY <1>1, <1>2, <1>5, <2>2, SoundnessStays DEF InPlace
  <2>4. IF HoldsQueue(c, k + 1) THEN SoundQueue(mem[p].queue) ELSE QueueOnFile(k + 1 <= 4)
    BY <1>2, <2>2 DEF InPlace, QueueOnFile
  <2>5. CASE HoldsQueue(c, k)
    <3>1. k # LastPlace(c) /\ SoundQueue(mem[p].queue)'
      BY <1>1, <1>4, <2>2, <2>4, <2>5, SoundnessStays
    <3>2. InPlace(p, c, k + 1)'
      BY <2>2, <2>3, <2>5, <3>1 DEF InPlace, StateOnFile
    <3> QED BY <1>1, <1>2, <1>3, <3>1, <3>2, OneStep
  <2>6. CASE ~HoldsQueue(c, k)
    <3>1. QueueOnFile(k + 1 <= 4)' /\ QueueOnFile(TRUE)'
      BY <1>1, <1>5, <2>2, <2>4, <2>6, SoundnessStays DEF QueueOnFile
    <3>2. InPlace(p, c, k + 1)'
      BY <2>2, <2>3, <2>6, <3>1 DEF InPlace, StateOnFile
    <3>3. StateOnFile(TRUE)'
      BY <2>3 DEF StateOnFile
    <3> QED BY <1>1, <1>2, <1>3, <3>1, <3>2, <3>3, OneStep
  <2> QED BY <2>5, <2>6
<1>6. CASE Awaits(p, "write queue") /\ queueFile' = mem[p].queue /\ UNCHANGED stateFile
  <2>1. (k = 6 \/ (c = "enqueue" /\ k = 9) \/ (c = "run" /\ k = 14))
    BY <1>2, <1>6 DEF Place
  <2>2. HoldsQueue(c, k) /\ ~HoldsState(c, k)
        /\ (k # LastPlace(c) => ~HoldsQueue(c, k + 1) /\ ~HoldsState(c, k + 1) /\ k = 6)
    <3>1. (c = "enqueue" => LastPlace(c) = 9) /\ (c = "run" => LastPlace(c) = 14)
      BY DEF LastPlace
    <3>2. k # LastPlace(c) => k = 6
      BY <2>1, <3>1
    <3>3. k = 6 => ~HoldsQueue(c, k + 1) /\ ~HoldsState(c, k + 1)
      BY DEF HoldsState, HoldsQueue
    <3>4. HoldsQueue(c, k) /\ ~HoldsState(c, k)
      BY <2>1 DEF HoldsState, HoldsQueue, StateCommand
    <3> QED BY <3>2, <3>3, <3>4
  <2>3. SoundQueue(mem[p].queue) /\ SoundState(stateFile)
    <3>1. k # 1
      BY <2>1
    <3> QED BY <1>2, <2>2, <3>1 DEF InPlace, StateOnFile
  <2>4. SoundQueue(queueFile)' /\ SoundState(stateFile)'
    BY <1>1, <1>6, <2>3, SoundnessStays
  <2>5. StateOnFile(TRUE)' /\ QueueOnFile(TRUE)'
    BY <2>4 DEF StateOnFile, QueueOnFile
  <2>6. k # LastPlace(c) => InPlace(p, c, k + 1)'
    <3> SUFFICES ASSUME k # LastPlace(c) PROVE InPlace(p, c, k + 1)'
      OBVIOUS
    <3>1. k + 1 # 8 /\ k + 1 # 9 /\ k + 1 # 10
      BY <2>2
    <3> QED BY <2>2, <2>4, <3>1 DEF InPlace, StateOnFile, QueueOnFile
  <2> QED BY <1>1, <1>2, <1>3, <2>5, <2>6, OneStep
<1> QED BY <1>1, <1>5, <1>6

LEMMA RunStep ==
    ASSUME OpsInv, OpsInvTypes', ~disturbed, NEW p \in OpsProcess, Busy(p), doing[p].name = "run",
           NEW n \in Int, Move(p, n), NEW k \in 1..14, doing[p].at + n = k, InTime', InPlace(p, "run", k)'
    PROVE  OpsInv'
<1>1. OpsInvTypes
  BY DEF OpsInv
<1>2. PICK d \in Places : doing' = [doing EXCEPT ![p] = d] /\ d.name = "run" /\ d.at = doing[p].at + n
  BY <1>1, Moved
<1>4. InPlace(p, d.name, d.at)' /\ d # NoCommand
  BY <1>2, Idleness
<1> QED BY <1>2, <1>4, Alone

LEMMA OpsSelect ==
    ASSUME OpsInv, OpsInvTypes', NEW p \in OpsProcess, Select(p)
    PROVE  OpsInv'
<1> SUFFICES ASSUME ~disturbed PROVE OpsInv'
  BY DEF OpsInv, Select, Unhistorical
<1>1. Busy(p) /\ Awaits(p, "select") /\ UNCHANGED <<stateFile, queueFile, enqueued, executed>>
  BY DEF Select, Awaits, opsFiles
<1>2. PICK c \in OpsCommand, k \in Nat :
        /\ c = doing[p].name /\ k = doing[p].at /\ k \in 1..LastPlace(c)
        /\ InPlace(p, c, k) /\ InTime /\ \A st : Awaits(p, st) => Place(c, k, st)
  BY <1>1, Here
<1>3. c = "run" /\ k = 9
  BY <1>1, <1>2 DEF Place
<1>4. InPlace(p, "run", 9) /\ OpsInvTypes
  BY <1>2, <1>3 DEF OpsInv
<1>5. HoldsState("run", 9) /\ HoldsQueue("run", 9) /\ HoldsState("run", 10) /\ HoldsQueue("run", 10)
      /\ HoldsState("run", 11) /\ HoldsQueue("run", 11)
  BY DEF HoldsState, HoldsQueue
<1>6. SoundState(mem[p].state) /\ SoundQueue(mem[p].queue)
      /\ (Paused(p) => SoundState(stateFile) /\ SoundQueue(queueFile))
  BY <1>4, <1>5 DEF InPlace
<1>7. InTime'
  BY <1>1, <1>2, SoundnessStays
<1>8. mem[p] \in Memory /\ mem \in [OpsProcess -> Memory] /\ doing \in [OpsProcess -> Places \cup {NoCommand}]
  BY <1>4 DEF OpsInvTypes
<1>9. CASE Paused(p) /\ Leave(p)
  <2>1. StateOnFile(TRUE)' /\ QueueOnFile(TRUE)'
    BY <1>1, <1>6, <1>9, SoundnessStays DEF StateOnFile, QueueOnFile
  <2>2. doing' = [doing EXCEPT ![p] = NoCommand]
    BY <1>9 DEF Leave
  <2> QED BY <1>1, <1>7, <2>1, <2>2, Alone
<1>10. CASE ~Paused(p) /\ Move(p, 2) /\ UNCHANGED mem
  <2>1. SoundState(mem[p].state)' /\ SoundQueue(mem[p].queue)'
    BY <1>1, <1>6, <1>10, SoundnessStays
  <2>2. InPlace(p, "run", 11)'
    BY <1>5, <2>1 DEF InPlace
  <2>3. doing[p].name = "run" /\ doing[p].at + 2 = 11 /\ 11 \in 1..14
    BY <1>2, <1>3
  <2> QED BY <1>1, <1>7, <1>10, <2>2, <2>3, RunStep
<1>11. ASSUME ~Paused(p), NEW i \in Best(mem[p].queue), NEW status \in {"autopaused", "escalated", "running"},
              ReplaceItem(p, i, [mem[p].queue[i] EXCEPT !.status = status]),
              \/ Move(p, 2) \/ UNCHANGED doing \/ (Move(p, 1) /\ ~Spent(p))
       PROVE  OpsInv'
  <2>1. PICK queue, item, after :
          /\ queue = mem[p].queue /\ item = queue[i] /\ after = [item EXCEPT !.status = status]
    OBVIOUS
  <2>2. queue \in Seq(GoalItem) /\ i \in DOMAIN queue /\ item \in GoalItem /\ item.status \in {"queued", "failed"}
    <3>1. i \in Eligible(queue)
      BY <2>1 DEF Best
    <3>2. queue \in Seq(GoalItem) /\ i \in DOMAIN queue /\ item.status \in {"queued", "failed"}
      BY <1>6, <2>1, <3>1 DEF Eligible, SoundQueue
    <3> QED BY <2>1, <3>2
  <2>3. mem'[p].queue = [queue EXCEPT ![i] = after] /\ mem'[p].state = mem[p].state
    <3>1. mem' = [mem EXCEPT ![p].queue[i] = after]
      BY <1>11, <2>1 DEF ReplaceItem
    <3>2. mem' = [mem EXCEPT ![p] = [mem[p] EXCEPT !.queue = [mem[p].queue EXCEPT ![i] = after]]]
      BY <3>1
    <3> QED BY <1>8, <2>1, <3>2 DEF Memory
  <2>4. after \in GoalItem /\ after.id = item.id /\ after.retries = item.retries /\ after.status = status
    BY <2>1, <2>2 DEF GoalItem, GoalStatus
  <2>5. SoundItem(after)
    <3>1. SoundItem(item)
      BY <1>6, <2>1, <2>2 DEF SoundQueue
    <3> QED BY <2>2, <2>4, <3>1 DEF SoundItem
  <2>6. SoundQueue([queue EXCEPT ![i] = after])
    <3>1. [queue EXCEPT ![i] = after] \in Seq(GoalItem) /\ Len([queue EXCEPT ![i] = after]) = Len(queue)
          /\ DOMAIN [queue EXCEPT ![i] = after] = DOMAIN queue
      BY <2>2, <2>4
    <3>2. \A j \in DOMAIN queue : [queue EXCEPT ![i] = after][j] = IF j = i THEN after ELSE queue[j]
      BY <2>2
    <3>3. SoundQueue(queue)
      BY <1>6, <2>1
    <3>4. after.id = i
      BY <2>1, <2>2, <2>4, <3>3 DEF SoundQueue
    <3> QED BY <2>5, <3>1, <3>2, <3>3, <3>4 DEF SoundQueue
  <2>7. SoundState(mem[p].state)' /\ SoundQueue(mem[p].queue)'
    BY <1>1, <1>6, <2>3, <2>6, SoundnessStays
  <2>8. ~Paused(p)' /\ (~Spent(p) => ~Spent(p)')
    BY <1>11, <2>3 DEF Paused, Spent
  <2>9. InPlace(p, "run", 9)' /\ (~Spent(p) => InPlace(p, "run", 10)') /\ InPlace(p, "run", 11)'
    BY <1>5, <2>7, <2>8 DEF InPlace
  <2>10. doing[p].name = "run" /\ doing[p].at = 9
    BY <1>2, <1>3
  <2>11. CASE Move(p, 2)
    <3>1. doing[p].at + 2 = 11 /\ 11 \in 1..14
      BY <2>10
    <3> QED BY <1>1, <1>7, <2>9, <2>10, <2>11, <3>1, RunStep
  <2>12. CASE Move(p, 1) /\ ~Spent(p)
    <3>1. doing[p].at + 1 = 10 /\ 10 \in 1..14
      BY <2>10
    <3> QED BY <1>1, <1>7, <2>9, <2>10, <2>12, <3>1, RunStep
  <2>13. CASE UNCHANGED doing
    <3>1. doing' = [doing EXCEPT ![p] = doing[p]] /\ doing[p] # NoCommand
      BY <1>1, <1>8, <2>13 DEF Busy
    <3>2. InPlace(p, doing[p].name, doing[p].at)'
      BY <2>9, <2>10, <2>13
    <3>3. PICK d : d = doing[p]
      OBVIOUS
    <3>4. InPlace(p, d.name, d.at)'
      BY <2>9, <2>10, <3>3
    <3> QED BY <1>1, <1>7, <3>1, <3>3, <3>4, Alone
  <2> QED BY <1>11, <2>11, <2>12, <2>13
<1>12. CASE \E i \in Best(mem[p].queue) :
                LET item == mem[p].queue[i]
                IN ~Paused(p) /\
                   \/ /\ Spent(p)
                      /\ ReplaceItem(p, i, [item EXCEPT !.status = "autopaused"]) /\ Move(p, 2)
                   \/ /\ ~Spent(p) /\ item.id \notin Preapproved \cup approved[p]
                      /\ ReplaceItem(p, i, AwaitApproval(item)) /\ UNCHANGED doing
                   \/ /\ ~Spent(p) /\ item.id \in Preapproved \cup approved[p]
                      /\ ReplaceItem(p, i, [item EXCEPT !.status = "running"]) /\ Move(p, 1)
  BY <1>11, <1>12 DEF AwaitApproval
<1> QED BY <1>9, <1>10, <1>12 DEF Select

LEMMA OpsExecuted ==
    ASSUME OpsInv, OpsInvTypes', NEW p \in OpsProcess, Executed(p)
    PROVE  OpsInv'
<1> SUFFICES ASSUME ~disturbed PROVE OpsInv'
  BY DEF OpsInv, Executed, Unhistorical
<1>1. Busy(p) /\ Awaits(p, "execute") /\ UNCHANGED <<stateFile, queueFile, enqueued>> /\ Move(p, -1)
  BY DEF Executed, Awaits, opsFiles
<1>2. PICK c \in OpsCommand, k \in Nat :
        /\ c = doing[p].name /\ k = doing[p].at /\ k \in 1..LastPlace(c)
        /\ InPlace(p, c, k) /\ InTime /\ \A st : Awaits(p, st) => Place(c, k, st)
  BY <1>1, Here
<1>3. c = "run" /\ k = 10
  BY <1>1, <1>2 DEF Place
<1>4. InPlace(p, "run", 10) /\ OpsInvTypes
  BY <1>2, <1>3 DEF OpsInv
<1>5. HoldsState("run", 9) /\ HoldsQueue("run", 9) /\ HoldsState("run", 10) /\ HoldsQueue("run", 10)
  BY DEF HoldsState, HoldsQueue
<1>6. SoundState(mem[p].state) /\ SoundQueue(mem[p].queue) /\ ~Paused(p) /\ ~Spent(p)
  BY <1>4, <1>5 DEF InPlace
<1>7. mem[p] \in Memory /\ mem \in [OpsProcess -> Memory] /\ executed \in Seq(Goal) /\ enqueued \in Nat
  BY <1>4 DEF OpsInvTypes, OpsTypes
<1>8. PICK i \in DOMAIN mem[p].queue, success \in BOOLEAN :
        LET item == mem[p].queue[i]
        IN /\ item.status = "running"
           /\ mem' = [mem EXCEPT ![p].state.consumed = @ + 1,
                        ![p].queue[i] = IF success THEN [item EXCEPT !.status = "completed"]
                                        ELSE AfterFailure(item)]
           /\ executed' = Append(executed, item.id)
  BY DEF Executed
<1>9. PICK queue, state, item, after :
        /\ queue = mem[p].queue /\ state = mem[p].state /\ item = queue[i]
        /\ after = IF success THEN [item EXCEPT !.status = "completed"] ELSE AfterFailure(item)
  OBVIOUS
<1>10. queue \in Seq(GoalItem) /\ i \in DOMAIN queue /\ item \in GoalItem /\ item.id = i /\ SoundItem(item)
       /\ Len(queue) = enqueued /\ item.status = "running"
  <2>1. queue \in Seq(GoalItem) /\ i \in DOMAIN queue /\ Len(queue) = enqueued
    BY <1>6, <1>8, <1>9 DEF SoundQueue
  <2> QED BY <1>6, <1>8, <1>9, <2>1 DEF SoundQueue
<1>11. item.id \in Goal /\ i \in Int /\ i <= enqueued /\ item.retries \in Nat /\ MaxRetries[item.id] \in Nat
  <2>1. item.id \in Goal /\ item.retries \in Nat
    BY <1>10 DEF GoalItem
  <2>2. MaxRetries[item.id] \in Nat
    BY <2>1, OpsAssumption
  <2>3. i \in Int /\ i <= enqueued
    BY <1>7, <1>10
  <2> QED BY <2>1, <2>2, <2>3
<1>12. executed' = Append(executed, item.id)
  BY <1>8, <1>9
<1>13. \A g \in Goal : Runs(g) \in Nat /\ Runs(g)' = IF g = item.id THEN Runs(g) + 1 ELSE Runs(g)
  BY <1>7, <1>11, <1>12, RunsOf
<1>14. Len(executed') = Len(executed) + 1 /\ Len(executed) \in Nat
       /\ DOMAIN executed' = 1..(Len(executed) + 1)
       /\ \A j \in 1..(Len(executed) + 1) : executed'[j] = IF j = Len(executed) + 1 THEN item.id ELSE executed[j]
  BY <1>7, <1>11, <1>12
<1>15. Runs(item.id) = item.retries /\ item.retries <= MaxRetries[item.id]
       /\ Runs(item.id)' = item.retries + 1
  BY <1>10, <1>11, <1>13 DEF SoundItem
<1>16. after.id = item.id /\ after \in GoalItem /\ SoundItem(after)'
  <2>1. CASE success
    <3>1. after = [item EXCEPT !.status = "completed"]
      BY <1>9, <2>1
    <3>2. after.id = item.id /\ after.status = "completed" /\ after \in GoalItem
      BY ONLY <1>10, <3>1 DEF GoalItem, GoalStatus
    <3> QED BY <1>11, <1>15, <3>2 DEF SoundItem
  <2>2. CASE ~success /\ item.retries + 1 > MaxRetries[item.id]
    <3>1. after = [item EXCEPT !.retries = @ + 1, !.status = "escalated"]
      BY <1>9, <2>2 DEF AfterFailure
    <3>2. after.id = item.id /\ after.status = "escalated" /\ after \in GoalItem
      <4>1. item \in GoalItem /\ item.retries + 1 \in Nat
        BY <1>10, <1>11
      <4> QED BY ONLY <3>1, <4>1 DEF GoalItem, GoalStatus
    <3> QED BY <1>11, <1>15, <3>2 DEF SoundItem
  <2>3. CASE ~success /\ ~(item.retries + 1 > MaxRetries[item.id])
    <3>1. after = [item EXCEPT !.retries = @ + 1, !.status = "failed"]
      BY <1>9, <2>3 DEF AfterFailure
    <3>2. after.id = item.id /\ after.status = "failed" /\ after.retries = item.retries + 1 /\ after \in GoalItem
      <4>1. item \in GoalItem /\ item.retries + 1 \in Nat
        BY <1>10, <1>11
      <4> QED BY ONLY <3>1, <4>1 DEF GoalItem, GoalStatus
    <3> QED BY <1>11, <1>15, <2>3, <3>2 DEF SoundItem
  <2> QED BY <2>1, <2>2, <2>3
<1>17. mem'[p].state = [state EXCEPT !.consumed = @ + 1] /\ mem'[p].queue = [queue EXCEPT ![i] = after]
  <2>1. mem' = [mem EXCEPT ![p].state.consumed = @ + 1, ![p].queue[i] = after]
    BY <1>8, <1>9
  <2>2. mem' = [mem EXCEPT ![p] = [mem[p] EXCEPT !.state = [mem[p].state EXCEPT !.consumed = @ + 1],
                                               !.queue = [mem[p].queue EXCEPT ![i] = after]]]
    BY <2>1
  <2> QED BY <1>7, <1>9, <2>2 DEF Memory
<1>18. SoundQueue(mem[p].queue)'
  <2>1. [queue EXCEPT ![i] = after] \in Seq(GoalItem) /\ Len([queue EXCEPT ![i] = after]) = Len(queue)
        /\ DOMAIN [queue EXCEPT ![i] = after] = DOMAIN queue
    BY <1>10, <1>16
  <2>2. \A j \in DOMAIN queue : [queue EXCEPT ![i] = after][j] = IF j = i THEN after ELSE queue[j]
    BY <1>10
  <2>3. ASSUME NEW j \in DOMAIN queue
        PROVE  [queue EXCEPT ![i] = after][j].id = j /\ SoundItem([queue EXCEPT ![i] = after][j])'
    <3>1. CASE j = i
      BY <1>10, <1>16, <2>2, <3>1
    <3>2. CASE j # i
      <4>1. queue[j].id = j /\ SoundItem(queue[j]) /\ queue[j].id \in Goal
        <5>1. queue[j] \in GoalItem
          BY <1>10
        <5> QED BY <1>6, <1>9, <5>1 DEF SoundQueue, GoalItem
      <4>2. Runs(queue[j].id)' = Runs(queue[j].id)
        BY <1>10, <1>13, <3>2, <4>1
      <4> QED BY <2>2, <3>2, <4>1, <4>2 DEF SoundItem
    <3> QED BY <3>1, <3>2
  <2>4. Len(queue) = enqueued'
    BY <1>1, <1>10
  <2> QED BY <1>17, <2>1, <2>3, <2>4 DEF SoundQueue
<1>19. SoundState(mem[p].state)' /\ mem'[p].state.stopped = state.stopped /\ mem'[p].state.autopause = state.autopause
  <2>1. state \in OpsState /\ state.budget = Budget /\ state.consumed = Len(executed)
    BY <1>6, <1>9 DEF SoundState
  <2>2. PICK then : then = [state EXCEPT !.consumed = @ + 1]
    OBVIOUS
  <2>3. then \in OpsState /\ then.budget = Budget /\ then.consumed = Len(executed) + 1
        /\ then.stopped = state.stopped /\ then.autopause = state.autopause
    BY <1>14, <2>1, <2>2 DEF OpsState
  <2> QED BY <1>14, <1>17, <2>2, <2>3 DEF SoundState
<1>20. InTime'
  <2>1. Len(executed) + 1 <= Budget
    <3>1. ~(Len(executed) >= Budget)
      BY <1>6 DEF Spent, SoundState
    <3> QED BY <1>14, <3>1, OpsAssumption
  <2>2. \A g \in Goal : Runs(g)' <= MaxRetries[g] + 1
    BY <1>2, <1>11, <1>13, <1>15 DEF InTime
  <2>3. \A j \in DOMAIN executed' : executed'[j] <= enqueued
    BY <1>2, <1>10, <1>11, <1>14 DEF InTime
  <2> QED BY <1>1, <1>14, <2>1, <2>2, <2>3 DEF InTime
<1>21. InPlace(p, "run", 9)'
  <2>1. ~Paused(p)'
    BY <1>6, <1>9, <1>19 DEF Paused
  <2> QED BY <1>5, <1>18, <1>19, <2>1 DEF InPlace
<1>22. doing[p].name = "run" /\ doing[p].at + (-1) = 9 /\ 9 \in 1..14 /\ -1 \in Int
  BY <1>2, <1>3
<1> QED BY <1>1, <1>20, <1>21, <1>22, RunStep

LEMMA OpsStart == OpsInit => OpsInv
<1> SUFFICES ASSUME OpsInit PROVE OpsInv
  OBVIOUS
<1>1. StateOnFile(TRUE) /\ QueueOnFile(TRUE) /\ (\A p \in OpsProcess : ~Busy(p))
  BY DEF OpsInit, StateOnFile, QueueOnFile, Busy
<1>2. InTime
  <2>1. executed = <<>> /\ executed \in Seq(Goal)
    BY DEF OpsInit
  <2>2. Len(executed) = 0 /\ DOMAIN executed = {}
    BY <2>1
  <2>3. \A g \in Goal : Runs(g) = 0
    BY <2>1, <2>2, RunsAreNumbers
  <2> QED BY <2>2, <2>3, OpsAssumption DEF InTime
<1> QED BY <1>1, <1>2, OpsTypesStart DEF OpsInv

LEMMA OpsInvStep == OpsInv /\ [OpsNext]_opsVars => OpsInv'
<1> SUFFICES ASSUME OpsInv, [OpsNext]_opsVars PROVE OpsInv'
  OBVIOUS
<1>1. OpsInvTypes'
  BY OpsTypesStep DEF OpsInv
<1>2. ASSUME NEW p \in OpsProcess, Crash(p)
      PROVE  OpsInv'
  BY <1>1, <1>2 DEF Crash, OpsInv
<1>3. CASE UNCHANGED opsVars
  <2>1. UNCHANGED <<stateFile, queueFile, doing, mem, enqueued, executed, disturbed>>
    BY <1>3 DEF opsVars, opsFiles
  <2>2. \A p \in OpsProcess : \A c, k : InPlace(p, c, k) => InPlace(p, c, k)'
    BY <2>1, SoundnessStays DEF InPlace, StateOnFile, QueueOnFile, Paused, Spent
  <2> QED BY <1>1, <2>1, <2>2, SoundnessStays DEF OpsInv, Busy, StateOnFile, QueueOnFile
<1>4. CASE OpsNext
  <2>1. {"enqueue", "run", "inspect", "stop", "autopause", "resume"} \subseteq OpsCommand
    BY DEF OpsCommand, StateCommand
  <2> QED BY <1>1, <1>2, <1>4, <2>1, OpsBegin, OpsLoadState, OpsLoadQueue, OpsEnqueue, OpsTruncate, OpsWrite,
             OpsSelect, OpsExecuted DEF OpsNext, OpsStep
<1> QED BY <1>3, <1>4

\* ReportsAreKept for any number of goals, retries, scores and processes: as long as
\* no commands overlap and none is cut short, the runs together execute no more goals
\* than the daily budget, and no goal more often than its retries allow.
THEOREM ReportsAreAlwaysKept == OpsSpec => []ReportsAreKept
<1>1. OpsInv => ReportsAreKept
  BY DEF OpsInv, OpsInvTypes, InTime, ReportsAreKept, BudgetIsKept
<1> QED BY <1>1, OpsStart, OpsInvStep, PTL DEF OpsSpec
=============================================================================
