---------------------------- MODULE CanaryRollout ----------------------------
(***************************************************************************)
(* src/src/neuronwaves-v2/canary/: the promotion gate, the stage artifact, *)
(* the rollout state and the routing decision, driven by the commands      *)
(* "synth canary gate|promote|rollback" (src/src/cli/commands/canary.ts)   *)
(* and "synth run" (src/src/cli/commands/run.ts). Commands are processes   *)
(* that share three files; each loads one, computes, and saves it several  *)
(* awaits later, and writeFile truncates before it writes.                 *)
(***************************************************************************)
EXTENDS Integers, Sequences, FiniteSets, FiniteSetsExt

CONSTANTS
    Process,       \* processes that may run a command at the same time
    Session,       \* sessions that "synth run" is called for
    Bucket,        \* Bucket[s]: stablePercent() of the session
    Controlled,    \* SYNTH_V2_CONTROLLED_SESSIONS
    PolicyPercent, \* SYNTH_V2_DEFAULT_ROUTE_PERCENT
    Windows,       \* the sequences of comparison windows a gate run may see
    GateStages,    \* the stages that "canary gate" is called for
    RequiredPasses,\* thresholds.requiredConsecutivePasses
    ReleaseGuard,  \* SYNTH_GA_RELEASE_GUARD = '1'
    Torn,          \* no file, or one between truncation and write
    None,
    DefaultV2,     \* SYNTH_GA_DEFAULT_V2 # '0'
    MaxCommands,   \* commands that are ever started (bound),
    MaxOverlapping \* and as long as some have overlapped (bound)

Stage == {"A", "B", "C", "D"}

\* The percentage of the environment is clamped before it is used (defaultRolloutState).
ASSUME RolloutAssumption ==
    /\ PolicyPercent \in 0..100
    /\ GateStages \subseteq Stage
    /\ MaxCommands \in Nat /\ MaxOverlapping \in Nat

Decision == {"promote", "hold", "rollback"}

\* One window of runV1V2ShadowComparison against the thresholds.
Window == [semantic : BOOLEAN, parity : BOOLEAN, reliable : BOOLEAN, zero : BOOLEAN]
Health == [total : Nat, v1 : Nat, v2 : Nat, decided : Nat, last : Decision \cup {None}]
NoHealth == [total |-> 0, v1 |-> 0, v2 |-> 0, decided |-> 0, last |-> None]
Rollout == [stage : {"C", "D"}, percent : 0..100, cohorts : [Session -> Health]]

VARIABLES
    artifact,    \* latest-stage-report.json: [stage, zeroPass, decision]
    report,      \* promotion-gate-report.json: the decision
    rollout,     \* rollout-state.json
    job,         \* job[p]: the command of p, its next step and what it has read
    lastRollout, \* history: the rollout that was last written completely
    routed,      \* history: [v2, gate] of the last run that chose a runtime
    started,     \* commands started
    overlap      \* history: two commands have overlapped

files == <<artifact, report, rollout>>
vars == <<files, job, lastRollout, routed, started, overlap>>

\* The command a process is idle with; each command fills in what it reads and computes.
Idle == [step |-> "idle", stage |-> None, windows |-> <<>>, artifact |-> Torn, mode |-> None,
         next |-> Torn, session |-> None, gate |-> None, v2 |-> FALSE]

Init ==
    /\ artifact = Torn /\ report = Torn /\ rollout = Torn
    /\ job = [p \in Process |-> Idle]
    /\ lastRollout = Torn
    /\ routed = [v2 |-> FALSE, gate |-> None]
    /\ started = 0 /\ overlap = FALSE

At(p, step) == job[p].step = step
Continue(p, j) == job' = [job EXCEPT ![p] = j]
Goto(p, step) == Continue(p, [job[p] EXCEPT !.step = step])
Finish(p) == Continue(p, Idle)

Others(p) == \E q \in Process \ {p} : ~At(q, "idle")

Begin(p, j) ==
    /\ At(p, "idle") /\ started < IF overlap \/ Others(p) THEN MaxOverlapping ELSE MaxCommands
    /\ Continue(p, j)
    /\ started' = started + 1
    /\ overlap' = (overlap \/ Others(p))
    /\ UNCHANGED <<files, lastRollout, routed>>

-----------------------------------------------------------------------------
\* canary gate: evaluatePromotionGate() and chooseDecision().

WindowChecks(w) ==
    {c \in {"semantic", "parity", "reliable"} : ~w[c]}

TrailingPasses(ws) ==
    Len(ws) - Max({0} \cup {i \in DOMAIN ws : ~ws[i].semantic})

FailedChecks(ws) ==
    UNION {WindowChecks(ws[i]) : i \in DOMAIN ws}
        \cup (IF TrailingPasses(ws) < RequiredPasses THEN {"trailing"} ELSE {})

ZeroMismatchPass(ws) == \E i \in DOMAIN ws : WindowChecks(ws[i]) = {} /\ ws[i].zero

Choose(stage, ws, previousPass) ==
    IF FailedChecks(ws) # {}
    THEN IF FailedChecks(ws) \cap {"semantic", "reliable"} # {} THEN "rollback" ELSE "hold"
    ELSE IF stage = "A" /\ ~ZeroMismatchPass(ws) THEN "hold"
    ELSE IF stage # "A" /\ ~previousPass THEN "hold"
    ELSE "promote"

\* readPreviousStageAFlag(): what is there before the artifact is replaced.
PreviousPass == artifact # Torn /\ artifact.stage = "A" /\ artifact.zeroPass

BeginGate(p) ==
    \E stage \in GateStages, ws \in Windows :
        Begin(p, [Idle EXCEPT !.step = "previous", !.stage = stage, !.windows = ws])

ReadPrevious(p) ==
    /\ At(p, "previous")
    /\ LET j == job[p]
           next == [stage |-> j.stage, zeroPass |-> ZeroMismatchPass(j.windows),
                    decision |-> Choose(j.stage, j.windows, PreviousPass)]
       IN Continue(p, [j EXCEPT !.step = "truncate artifact", !.artifact = next])
    /\ UNCHANGED <<files, lastRollout, routed, started, overlap>>

TruncateArtifact(p) ==
    /\ At(p, "truncate artifact") /\ artifact' = Torn
    /\ Goto(p, "write artifact")
    /\ UNCHANGED <<report, rollout, lastRollout, routed, started, overlap>>

WriteArtifact(p) ==
    /\ At(p, "write artifact") /\ artifact' = job[p].artifact
    /\ Goto(p, "truncate report")
    /\ UNCHANGED <<report, rollout, lastRollout, routed, started, overlap>>

TruncateReport(p) ==
    /\ At(p, "truncate report") /\ report' = Torn
    /\ Goto(p, "write report")
    /\ UNCHANGED <<artifact, rollout, lastRollout, routed, started, overlap>>

WriteReport(p) ==
    /\ At(p, "write report") /\ report' = job[p].artifact.decision
    /\ Finish(p)
    /\ UNCHANGED <<artifact, rollout, lastRollout, routed, started, overlap>>

-----------------------------------------------------------------------------
\* The rollout state.

\* defaultRolloutState()
DefaultRollout(percent) ==
    [stage |-> "C", percent |-> percent, cohorts |-> [s \in Session |-> NoHealth]]

\* Mutation: the stage is that of the percentage before the step.
PromoteStageLate(r) ==
    LET up == IF r.percent >= 50 THEN "D" ELSE r.stage
    IN [r EXCEPT !.stage = up,
                 !.percent = Min({IF up = "C" THEN 50 ELSE 100, @ + (IF up = "C" THEN 10 ELSE 15)})]

\* Mutation: the target of stage C is that of stage D.
PromotePastTarget(r) ==
    LET next == Min({100, r.percent + (IF r.percent >= 50 THEN 15 ELSE 20)})
    IN [r EXCEPT !.stage = IF next >= 50 THEN "D" ELSE "C", !.percent = next]

\* promoteRollout(): by ten percent up to 50, then by fifteen up to 100.
Promote(r) ==
    LET stage == IF r.percent >= 50 THEN "D" ELSE r.stage
        next == Min({IF stage = "C" THEN 50 ELSE 100,
                     r.percent + (IF stage = "C" THEN 10 ELSE 15)})
    IN [r EXCEPT !.stage = IF next >= 50 THEN "D" ELSE "C", !.percent = next]

\* rollbackRollout()
Rollback(r) == [r EXCEPT !.stage = "C", !.percent = 0]

\* recordCohortHealth()
RecordHealth(r, s, v2, gate) ==
    [r EXCEPT !.cohorts[s] =
        [total |-> @.total + 1,
         v2 |-> @.v2 + (IF v2 THEN 1 ELSE 0), v1 |-> @.v1 + (IF v2 THEN 0 ELSE 1),
         decided |-> @.decided + (IF gate = None THEN 0 ELSE 1),
         last |-> IF gate = None THEN @.last ELSE gate]]

\* canary promote, canary rollback: getOrCreateState() and the change.
BeginUpdate(p) ==
    \E mode \in {"promote", "rollback"} : Begin(p, [Idle EXCEPT !.step = "update", !.mode = mode])

LoadForUpdate(p) ==
    /\ At(p, "update")
    /\ LET r == IF rollout = Torn THEN DefaultRollout(PolicyPercent) ELSE rollout
           next == IF job[p].mode = "promote" THEN Promote(r) ELSE Rollback(r)
       IN Continue(p, [job[p] EXCEPT !.step = "truncate rollout", !.next = next])
    /\ UNCHANGED <<files, lastRollout, routed, started, overlap>>

TruncateRollout(p) ==
    /\ At(p, "truncate rollout") /\ rollout' = Torn
    /\ Goto(p, "write rollout")
    /\ UNCHANGED <<artifact, report, lastRollout, routed, started, overlap>>

WriteRollout(p) ==
    /\ At(p, "write rollout") /\ rollout' = job[p].next
    /\ lastRollout' = job[p].next
    /\ Finish(p)
    /\ UNCHANGED <<artifact, report, routed, started, overlap>>

-----------------------------------------------------------------------------
\* synth run

\* applyGateDecisionToPercent()
EffectivePercent(percent, gate) ==
    CASE gate = "rollback" -> 0
      [] gate = "hold"     -> Min({percent, 5})
      [] OTHER             -> percent

\* resolveCanaryRoute(), for a policy that is enabled.
RoutesToV2(s, percent, gate) ==
    /\ gate # "rollback"
    /\ s \in Controlled
    /\ Bucket[s] < EffectivePercent(percent, gate)

\* resolveRoutingPolicyFromEnvOrState(): the percentage of the policy.
RoutingPercent == IF rollout = Torn THEN PolicyPercent ELSE rollout.percent

BeginRun(p) == \E s \in Session : Begin(p, [Idle EXCEPT !.step = "read gate", !.session = s])

\* resolveGateStatusFromEnvOrReport() and shouldBlockGACutover()
ReadGate(p) ==
    /\ At(p, "read gate")
    /\ LET gate == IF report = Torn THEN None ELSE report
       IN IF ReleaseGuard /\ gate # "promote" THEN Finish(p)
          ELSE Continue(p, [job[p] EXCEPT !.step = "route", !.gate = gate])
    /\ UNCHANGED <<files, lastRollout, routed, started, overlap>>

Route(p) ==
    /\ At(p, "route")
    /\ LET v2 == RoutesToV2(job[p].session, RoutingPercent, job[p].gate) \/ DefaultV2
       IN /\ Continue(p, [job[p] EXCEPT !.step = "load rollout", !.v2 = v2])
          /\ routed' = [v2 |-> v2, gate |-> job[p].gate]
    /\ UNCHANGED <<files, lastRollout, started, overlap>>

\* After the run: the state is loaded again, or made from the policy, which is
\* a second read of the file.
LoadForHealth(p) ==
    /\ At(p, "load rollout")
    /\ LET j == job[p]
           next == RecordHealth(rollout, j.session, j.v2, j.gate)
       IN IF rollout = Torn THEN Goto(p, "load policy")
          ELSE Continue(p, [j EXCEPT !.step = "truncate rollout", !.next = next])
    /\ UNCHANGED <<files, lastRollout, routed, started, overlap>>

LoadPolicy(p) ==
    /\ At(p, "load policy")
    /\ LET j == job[p]
           next == RecordHealth(DefaultRollout(RoutingPercent), j.session, j.v2, j.gate)
       IN Continue(p, [j EXCEPT !.step = "truncate rollout", !.next = next])
    /\ UNCHANGED <<files, lastRollout, routed, started, overlap>>

Next ==
    \E p \in Process :
        \/ BeginGate(p) \/ ReadPrevious(p) \/ TruncateArtifact(p) \/ WriteArtifact(p)
        \/ TruncateReport(p) \/ WriteReport(p)
        \/ BeginUpdate(p) \/ LoadForUpdate(p) \/ TruncateRollout(p) \/ WriteRollout(p)
        \/ BeginRun(p) \/ ReadGate(p) \/ Route(p) \/ LoadForHealth(p) \/ LoadPolicy(p)

Spec == Init /\ [][Next]_vars

-----------------------------------------------------------------------------
TypeOK ==
    /\ report \in Decision \cup {Torn}
    /\ rollout \in Rollout \cup {Torn}
    /\ artifact # Torn => artifact \in [stage : Stage, zeroPass : BOOLEAN, decision : Decision]

\* Whatever commands overlap, a rollout file that can be read counts every run
\* of a cohort on one runtime and no more decisions than runs, and is in stage D
\* from 50 percent on only. As long as they do not overlap, it is in stage D as
\* soon as it has 50 percent.
RolloutIsConsistent ==
    rollout # Torn =>
        /\ \A s \in Session :
              LET h == rollout.cohorts[s]
              IN h.total = h.v1 + h.v2 /\ h.decided <= h.total /\ (h.decided > 0 <=> h.last # None)
        /\ rollout.stage = "D" => rollout.percent >= 50
        /\ ~overlap => (rollout.percent >= 50 => rollout.stage = "D")

\* Without overlaps the percentage goes up by 15 at most, reaches stage D at
\* exactly 50, and goes down only to zero, whatever runs save in between.
PromotionIsStepwise ==
    [][LET old == IF lastRollout = Torn THEN PolicyPercent ELSE lastRollout.percent
           new == lastRollout'.percent
       IN ~overlap /\ lastRollout' # lastRollout =>
             \/ new = 0
             \/ new \in old..old + 15 /\ (old < 50 => new <= 50)]_vars
=============================================================================
