------------------------- MODULE ToolPipeline_proofs -------------------------
(***************************************************************************)
(* Proofs about ToolPipeline for every set of plans, of any length and any *)
(* shape of dependencies, every configuration and all limits of the gate.  *)
(***************************************************************************)
EXTENDS ToolPipeline, SequenceTheorems, FiniteSetTheorems, TLAPS

\* What the phases of a run say about its nodes. Nodes whose turn has not
\* come are untouched, those of the level wait for nothing that is still to
\* come, and what executeToolDag records is what the callbacks returned.
Untouched(n) == settled[n] = None /\ step[n] = None /\ decision[n] = None /\ attempt[n] = 0
PhasesOK ==
    /\ pc \in {"between", "level", "ended"} => ValidGraph(plan)
    /\ pc # "level" => level = {} /\ toStart = {}
    /\ pc = "planning" => inFlight = {} /\ \A n \in Node : results[n] = None
    /\ ~ValidGraph(plan) => \A n \in Node : results[n] = None
NodesOK ==
    \A n \in Node :
        /\ n \in toStart \/ (n \notin level /\ results[n] = None) => Untouched(n)
        /\ n \in level => results[n] = None
        /\ n \in level \/ results[n] # None => \A d \in plan[n].dependsOn : results[d] # None
        /\ results[n] # None => settled[n] = results[n]
        /\ n \in level \ toStart /\ settled[n] = None => attempt[n] > 0
        /\ attempt[n] > 0 => decision[n] = "allow"
\* What a callback returns and the step it leaves.
StepsOK ==
    pc # "ended" =>
        /\ \A n \in Node :
             /\ settled[n] \in {None, "blocked_dependency"} => step[n] = None
             /\ settled[n] = "success" => step[n] # None
             /\ settled[n] = "failed" => step[n] = "failed"
        /\ replan = \E n \in Node : step[n] = "failed"
PipelineInv == TypeOK /\ PhasesOK /\ NodesOK /\ StepsOK /\ EvaluationIsHonest

LEMMA ConfigTypes ==
    ASSUME TypeOK
    PROVE  /\ config.level \in 1..3 /\ config.mode \in Mode /\ config.budget \in Nat
           /\ Retries \in Nat
           /\ \A n \in Node : plan[n] \in Action
  BY DEF TypeOK, Config, Level, Retries, Node

\* The decision on a node and the counters after it are well-typed.
LEMMA DecisionTypes ==
    ASSUME TypeOK, NEW n \in Node
    PROVE  /\ DecisionOn(n) \in {"allow", "block", "awaiting_approval"}
           /\ GateResult(n).stats \in Stats
<1>1. LevelDecision(config.level, plan[n].class, plan[n].target) \in {"allow", "block",
        "awaiting_approval"}
  BY DEF LevelDecision
<1>2. GateResult(n).decision \in {"allow", "block", "awaiting_approval"}
  BY <1>1 DEF GateResult, Evaluate
<1>3. \A class, decided : Governed(class, decided) \in {"allow", "block", "awaiting_approval",
        decided}
  BY DEF Governed
<1>4. DecisionOn(n) \in {"allow", "block", "awaiting_approval"}
  BY <1>2, <1>3 DEF DecisionOn
<1>5. \A d, class : Counted(stats, d, class) \in Stats
  BY DEF Counted, Stats, TypeOK
<1>6. GateResult(n).stats \in Stats
  BY <1>5 DEF GateResult, Evaluate
<1> QED BY <1>4, <1>6

LEMMA KeptTypes ==
    ASSUME TypeOK
    PROVE  Kept(plan) \in Seq(Action)
<1>1. MaxPlanSteps \in Nat
  BY DEF MaxPlanSteps
<1>2. plan \in Seq(Action) /\ Len(plan) \in Nat
  BY DEF TypeOK
<1>3. \A k \in 0..Len(plan) : SubSeq(plan, 1, k) \in Seq(Action)
  BY <1>2, SubSeqProperties
<1> QED BY <1>1, <1>2, <1>3 DEF Kept

LEMMA InitInv == Init => PipelineInv
<1> SUFFICES ASSUME Init PROVE PipelineInv OBVIOUS
<1> USE PipelineAssumption, LimitsAssumption DEF Init, Node, NodesOf
<1>1. config \in Config /\ plan \in Seq(Action)
  OBVIOUS
<1>2. stats \in Stats
  BY DEF InitialStats, Stats
<1>3. Retries \in Nat /\ config.budget \in Nat /\ budget \in 0 .. config.budget
  BY <1>1 DEF Config, Retries
<1>4. TypeOK
  <2>1. attempt \in [Node -> 0 .. Retries + 1]
    BY <1>3
  <2>2. /\ settled \in [Node -> {None, "success", "failed", "blocked_dependency"}]
        /\ results \in [Node -> {None, "success", "failed", "blocked_dependency"}]
        /\ step \in [Node -> {None, "executed", "failed", "blocked", "awaiting_approval"}]
        /\ decision \in [Node -> {None, "allow", "block", "awaiting_approval"}]
    OBVIOUS
  <2> QED BY <1>1, <1>2, <1>3, <2>1, <2>2 DEF TypeOK
<1>5. PhasesOK /\ NodesOK
  BY DEF PhasesOK, NodesOK, Untouched
<1>6. StepsOK /\ EvaluationIsHonest
  BY DEF StepsOK, EvaluationIsHonest
<1> QED BY <1>4, <1>5, <1>6 DEF PipelineInv


\* What one step promises about the next state.
StepIsKept(n) == step[n] # None => n \in DOMAIN step' /\ step'[n] = step[n] /\ attempt'[n] = attempt[n]
Keeps == PipelineInv' /\ \A n \in Node : StepIsKept(n)

LEMMA BuildGraphKeeps == ASSUME PipelineInv, BuildGraph PROVE Keeps
<1> USE PipelineAssumption DEF PipelineInv, BuildGraph
<1> DEFINE p == Kept(plan)
<1>1. p \in Seq(Action) BY KeptTypes
<1> HIDE DEF p
<1>2. /\ pc = "planning" /\ plan' = p /\ DOMAIN plan' = DOMAIN p
      /\ pc' = (IF ValidGraph(p) THEN "between" ELSE "threw")
      /\ settled' = [n \in DOMAIN p |-> None] /\ results' = [n \in DOMAIN p |-> None]
      /\ step' = [n \in DOMAIN p |-> None] /\ decision' = [n \in DOMAIN p |-> None]
      /\ attempt' = [n \in DOMAIN p |-> 0]
      /\ UNCHANGED <<config, level, toStart, inFlight, stats, budget, replan, evaluation>>
      /\ level = {} /\ toStart = {} /\ inFlight = {}
  BY DEF p, NodesOf, PhasesOK
<1>3. Retries' \in Nat /\ Retries' = Retries
  BY <1>2 DEF Retries
<1>4. TypeOK'
  BY <1>1, <1>2, <1>3 DEF TypeOK, Node
<1>5. PhasesOK'
  BY <1>2 DEF PhasesOK, Node, ValidGraph
<1>6. NodesOK'
  BY <1>2 DEF NodesOK, Node, Untouched
<1>7. \A n \in Node : step[n] = None
  BY <1>2 DEF NodesOK, PhasesOK, Untouched
<1>8. ~replan
  BY <1>2, <1>7 DEF StepsOK
<1>9. StepsOK' /\ EvaluationIsHonest'
  BY <1>2, <1>8 DEF StepsOK, EvaluationIsHonest, Node
<1> QED BY <1>4, <1>5, <1>6, <1>7, <1>9 DEF Keeps, StepIsKept

LEMMA BeginLevelKeeps == ASSUME PipelineInv, BeginLevel PROVE Keeps
<1> USE PipelineAssumption DEF PipelineInv, BeginLevel, execution, Ready, Pending, Node
<1>1. TypeOK' BY DEF TypeOK, Retries
<1>2. PhasesOK' BY DEF PhasesOK
<1>3. NodesOK' BY DEF NodesOK, Untouched, PhasesOK
<1>4. StepsOK' /\ EvaluationIsHonest' BY DEF StepsOK, EvaluationIsHonest
<1> QED BY <1>1, <1>2, <1>3, <1>4 DEF Keeps, StepIsKept, TypeOK

LEMMA ThrowCyclicKeeps == ASSUME PipelineInv, ThrowCyclic PROVE Keeps
<1> USE PipelineAssumption DEF PipelineInv, ThrowCyclic, execution, Node
<1>1. TypeOK' BY DEF TypeOK, Retries
<1>2. PhasesOK' BY DEF PhasesOK, Pending
<1>3. NodesOK' BY DEF NodesOK, Untouched, PhasesOK
<1>4. StepsOK' /\ EvaluationIsHonest' BY DEF StepsOK, EvaluationIsHonest
<1> QED BY <1>1, <1>2, <1>3, <1>4 DEF Keeps, StepIsKept, TypeOK

LEMMA EndLevelKeeps == ASSUME PipelineInv, EndLevel PROVE Keeps
<1> USE PipelineAssumption DEF PipelineInv, EndLevel, execution, Node
<1>1. TypeOK' BY DEF TypeOK, Retries
<1>2. PhasesOK' BY DEF PhasesOK, ValidGraph
<1>3. NodesOK' BY DEF NodesOK, Untouched, PhasesOK, ValidGraph, TypeOK
<1>4. StepsOK' /\ EvaluationIsHonest' BY DEF StepsOK, EvaluationIsHonest
<1> QED BY <1>1, <1>2, <1>3, <1>4 DEF Keeps, StepIsKept, TypeOK

LEMMA FinishKeeps == ASSUME PipelineInv, Finish PROVE Keeps
<1> USE PipelineAssumption DEF PipelineInv, Finish, Node
<1>1. \A n \in Node : results[n] # None /\ settled[n] = results[n]
  BY DEF Pending, NodesOK
<1>2. step' = [n \in Node |-> FinalStep(n)] /\ results' = results /\ replan' = replan /\ plan' = plan
  OBVIOUS
<1>3. \A n \in Node : /\ FinalStep(n) = IF results[n] = "blocked_dependency" THEN "failed" ELSE step[n]
                      /\ FinalStep(n) \in {"executed", "failed", "blocked", "awaiting_approval"}
                      /\ step[n] # None => FinalStep(n) = step[n]
  BY <1>1 DEF FinalStep, StepsOK, TypeOK
<1>4. TypeOK'
  <2>1. \A S : EvaluationOf(S) \in {"success", "failure", "partial"}
    BY DEF EvaluationOf
  <2> QED BY <2>1, <1>3 DEF TypeOK, Retries
<1>5. PhasesOK' BY DEF PhasesOK
<1>6. NodesOK' BY <1>1 DEF NodesOK, Untouched, PhasesOK
<1>7. StepsOK' BY DEF StepsOK
<1>8. EvaluationIsHonest'
  <2>1. \A n \in Node' : step'[n] # None
    BY <1>2, <1>3
  <2>2. {FinalStep(n) : n \in Node} \ {None} = {step'[n] : n \in Node}
    BY <1>2, <1>3
  <2>3. evaluation' = EvaluationOf({step'[n] : n \in Node})
    BY <2>2
  <2>4. evaluation' = "success" <=> (Node # {} /\ \A n \in Node : step'[n] = "executed")
    BY <2>3 DEF EvaluationOf
  <2>5. (\E n \in Node : step'[n] \in {"failed", "blocked"}) => evaluation' = "failure"
    BY <2>3 DEF EvaluationOf
  <2>6. replan = (\E n \in Node : step'[n] = "failed" /\ results[n] # "blocked_dependency")
    BY <1>2, <1>3, <1>1 DEF StepsOK
  <2> QED BY <2>1, <2>4, <2>5, <2>6, <1>2 DEF EvaluationIsHonest
<1> QED BY <1>2, <1>3, <1>4, <1>5, <1>6, <1>7, <1>8 DEF Keeps, StepIsKept

LEMMA LateAnswerKeeps == ASSUME PipelineInv, NEW c \in inFlight, LateAnswer(c) PROVE Keeps
<1> USE PipelineAssumption DEF PipelineInv, LateAnswer, Node
<1>1. TypeOK' BY DEF TypeOK, Retries
<1>2. PhasesOK' BY DEF PhasesOK
<1>3. NodesOK' BY DEF NodesOK, Untouched
<1>4. StepsOK' /\ EvaluationIsHonest' BY DEF StepsOK, EvaluationIsHonest
<1> QED BY <1>1, <1>2, <1>3, <1>4 DEF Keeps, StepIsKept, TypeOK

\* The callback of n begins: n was untouched, and all it depends on has results.
LEMMA StartsFacts ==
    ASSUME PipelineInv, NEW n \in Node, Starts(n)
    PROVE  /\ Untouched(n) /\ n \in level /\ results[n] = None /\ pc = "level"
           /\ toStart' = toStart \ {n}
           /\ UNCHANGED <<config, plan, pc, level, results, evaluation>>
           /\ PhasesOK /\ Node' = Node /\ Retries' = Retries
  BY DEF PipelineInv, Starts, NodesOK, TypeOK, Node, Retries

LEMMA BlockDependentKeeps == ASSUME PipelineInv, NEW n \in Node, BlockDependent(n) PROVE Keeps
<1> USE PipelineAssumption DEF PipelineInv
<1>1. /\ Untouched(n) /\ n \in level /\ results[n] = None /\ pc = "level" /\ n \in toStart
      /\ toStart' = toStart \ {n}
      /\ UNCHANGED <<config, plan, pc, level, results, evaluation>>
      /\ Node' = Node /\ Retries' = Retries
  BY StartsFacts DEF BlockDependent, Settle, SetStep, Starts
<1>2. DecisionOn(n) \in {"allow", "block", "awaiting_approval"} /\ GateResult(n).stats \in Stats
  BY DecisionTypes
<1>3. Retries \in Nat /\ config.budget \in Nat /\ plan[n] \in Action
  BY ConfigTypes
<1>4. TypeOK'
  BY <1>1, <1>2, <1>3 DEF BlockDependent, Settle, SetStep, TypeOK, Untouched
<1>5. PhasesOK'
  BY <1>1 DEF BlockDependent, Settle, SetStep, PhasesOK
<1>6. NodesOK'
  BY <1>1, <1>2, <1>3 DEF BlockDependent, Settle, SetStep, NodesOK, Untouched, TypeOK
<1>7. StepsOK' /\ EvaluationIsHonest'
  BY <1>1 DEF BlockDependent, Settle, SetStep, StepsOK, EvaluationIsHonest, Untouched, TypeOK,
          FailedDeps
<1>8. \A m \in Node : StepIsKept(m)
  BY <1>1 DEF BlockDependent, Settle, SetStep, StepIsKept, Untouched, TypeOK
<1> QED BY <1>4, <1>5, <1>6, <1>7, <1>8 DEF Keeps

LEMMA RefuseKeeps == ASSUME PipelineInv, NEW n \in Node, Refuse(n) PROVE Keeps
<1> USE PipelineAssumption DEF PipelineInv
<1>1. /\ Untouched(n) /\ n \in level /\ results[n] = None /\ pc = "level" /\ n \in toStart
      /\ toStart' = toStart \ {n}
      /\ UNCHANGED <<config, plan, pc, level, results, evaluation>>
      /\ Node' = Node /\ Retries' = Retries
  BY StartsFacts DEF Refuse, Decides, Settle, SetStep, Starts
<1>2. DecisionOn(n) \in {"allow", "block", "awaiting_approval"} /\ GateResult(n).stats \in Stats
  BY DecisionTypes
<1>3. Retries \in Nat /\ config.budget \in Nat /\ plan[n] \in Action
  BY ConfigTypes
<1>4. TypeOK'
  BY <1>1, <1>2, <1>3 DEF Refuse, Decides, Settle, SetStep, TypeOK, Untouched
<1>5. PhasesOK'
  BY <1>1 DEF Refuse, Decides, Settle, SetStep, PhasesOK
<1>6. NodesOK'
  BY <1>1, <1>2, <1>3 DEF Refuse, Decides, Settle, SetStep, NodesOK, Untouched, TypeOK
<1>7. StepsOK' /\ EvaluationIsHonest'
  BY <1>1 DEF Refuse, Decides, Settle, SetStep, StepsOK, EvaluationIsHonest, Untouched, TypeOK,
          FailedDeps
<1>8. \A m \in Node : StepIsKept(m)
  BY <1>1 DEF Refuse, Decides, Settle, SetStep, StepIsKept, Untouched, TypeOK
<1> QED BY <1>4, <1>5, <1>6, <1>7, <1>8 DEF Keeps

LEMMA RunExperimentKeeps == ASSUME PipelineInv, NEW n \in Node, RunExperiment(n) PROVE Keeps
<1> USE PipelineAssumption DEF PipelineInv
<1>1. /\ Untouched(n) /\ n \in level /\ results[n] = None /\ pc = "level" /\ n \in toStart
      /\ toStart' = toStart \ {n}
      /\ UNCHANGED <<config, plan, pc, level, results, evaluation>>
      /\ Node' = Node /\ Retries' = Retries
  BY StartsFacts DEF RunExperiment, Decides, Settle, SetStep, Starts
<1>2. DecisionOn(n) \in {"allow", "block", "awaiting_approval"} /\ GateResult(n).stats \in Stats
  BY DecisionTypes
<1>3. Retries \in Nat /\ config.budget \in Nat /\ plan[n] \in Action
  BY ConfigTypes
<1>4. TypeOK'
  BY <1>1, <1>2, <1>3 DEF RunExperiment, Decides, Settle, SetStep, TypeOK, Untouched, Spend
<1>5. PhasesOK'
  BY <1>1 DEF RunExperiment, Decides, Settle, SetStep, PhasesOK
<1>6. NodesOK'
  BY <1>1, <1>2, <1>3 DEF RunExperiment, Decides, Settle, SetStep, NodesOK, Untouched, TypeOK
<1>7. StepsOK' /\ EvaluationIsHonest'
  BY <1>1 DEF RunExperiment, Decides, Settle, SetStep, StepsOK, EvaluationIsHonest, Untouched,
          TypeOK, FailedDeps
<1>8. \A m \in Node : StepIsKept(m)
  BY <1>1 DEF RunExperiment, Decides, Settle, SetStep, StepIsKept, Untouched, TypeOK
<1> QED BY <1>4, <1>5, <1>6, <1>7, <1>8 DEF Keeps

LEMMA RejectEnvelopeKeeps == ASSUME PipelineInv, NEW n \in Node, RejectEnvelope(n) PROVE Keeps
<1> USE PipelineAssumption DEF PipelineInv
<1>1. /\ Untouched(n) /\ n \in level /\ results[n] = None /\ pc = "level" /\ n \in toStart
      /\ toStart' = toStart \ {n}
      /\ UNCHANGED <<config, plan, pc, level, results, evaluation>>
      /\ Node' = Node /\ Retries' = Retries
  BY StartsFacts DEF RejectEnvelope, CallsTool, Decides, Settle, SetStep, Starts
<1>2. DecisionOn(n) \in {"allow", "block", "awaiting_approval"} /\ GateResult(n).stats \in Stats
  BY DecisionTypes
<1>3. Retries \in Nat /\ config.budget \in Nat /\ plan[n] \in Action
  BY ConfigTypes
<1>4. TypeOK'
  BY <1>1, <1>2, <1>3 DEF RejectEnvelope, CallsTool, Decides, Settle, SetStep, TypeOK, Untouched
<1>5. PhasesOK'
  BY <1>1 DEF RejectEnvelope, CallsTool, Decides, Settle, SetStep, PhasesOK
<1>6. NodesOK'
  BY <1>1, <1>2, <1>3 DEF RejectEnvelope, CallsTool, Decides, Settle, SetStep, NodesOK,
          Untouched, TypeOK
<1>7. StepsOK' /\ EvaluationIsHonest'
  BY <1>1 DEF RejectEnvelope, CallsTool, Decides, Settle, SetStep, StepsOK, EvaluationIsHonest,
          Untouched, TypeOK, FailedDeps
<1>8. \A m \in Node : StepIsKept(m)
  BY <1>1 DEF RejectEnvelope, CallsTool, Decides, Settle, SetStep, StepIsKept, Untouched, TypeOK
<1> QED BY <1>4, <1>5, <1>6, <1>7, <1>8 DEF Keeps

LEMMA CallModelKeeps == ASSUME PipelineInv, NEW n \in Node, CallModel(n) PROVE Keeps
<1> USE PipelineAssumption DEF PipelineInv
<1>1. /\ Untouched(n) /\ n \in level /\ results[n] = None /\ pc = "level" /\ n \in toStart
      /\ toStart' = toStart \ {n}
      /\ UNCHANGED <<config, plan, pc, level, results, evaluation>>
      /\ Node' = Node /\ Retries' = Retries
  BY StartsFacts DEF CallModel, CallsTool, Decides, Settle, SetStep, Starts
<1>2. DecisionOn(n) \in {"allow", "block", "awaiting_approval"} /\ GateResult(n).stats \in Stats
  BY DecisionTypes
<1>3. Retries \in Nat /\ config.budget \in Nat /\ plan[n] \in Action
  BY ConfigTypes
<1>4. TypeOK'
  BY <1>1, <1>2, <1>3 DEF CallModel, CallsTool, Decides, Settle, SetStep, TypeOK, Untouched
<1>5. PhasesOK'
  BY <1>1 DEF CallModel, CallsTool, Decides, Settle, SetStep, PhasesOK
<1>6. NodesOK'
  BY <1>1, <1>2, <1>3 DEF CallModel, CallsTool, Decides, Settle, SetStep, NodesOK, Untouched, TypeOK
<1>7. StepsOK' /\ EvaluationIsHonest'
  BY <1>1 DEF CallModel, CallsTool, Decides, Settle, SetStep, StepsOK, EvaluationIsHonest,
          Untouched, TypeOK, FailedDeps
<1>8. \A m \in Node : StepIsKept(m)
  BY <1>1 DEF CallModel, CallsTool, Decides, Settle, SetStep, StepIsKept, Untouched, TypeOK
<1> QED BY <1>4, <1>5, <1>6, <1>7, <1>8 DEF Keeps

LEMMA AnswerKeeps == ASSUME PipelineInv, NEW n \in Node, Answer(n) PROVE Keeps
<1> USE PipelineAssumption DEF PipelineInv
<1>1. /\ pc = "level" /\ toStart = {} /\ n \in level /\ settled[n] = None /\ step[n] = None
      /\ results[n] = None /\ attempt[n] > 0 /\ decision[n] = "allow"
      /\ UNCHANGED <<config, plan, pc, level, toStart, results, decision, stats, budget,
              evaluation>>
      /\ Node' = Node /\ Retries' = Retries
  BY DEF Answer, Waits, Settle, SetStep, NodesOK, StepsOK, Node, Retries
<1>2. Retries \in Nat /\ config.budget \in Nat /\ attempt[n] \in 0 .. Retries + 1
  BY ConfigTypes DEF TypeOK
<1>3. TypeOK'
  BY <1>1, <1>2 DEF Answer, Waits, Settle, SetStep, TypeOK
<1>4. PhasesOK'
  BY <1>1 DEF Answer, Waits, Settle, SetStep, PhasesOK
<1>5. NodesOK'
  BY <1>1, <1>2 DEF Answer, Waits, Settle, SetStep, NodesOK, Untouched, TypeOK
<1>6. StepsOK' /\ EvaluationIsHonest'
  BY <1>1 DEF Answer, Waits, Settle, SetStep, StepsOK, EvaluationIsHonest, TypeOK
<1>7. \A m \in Node : StepIsKept(m)
  BY <1>1 DEF Answer, Waits, Settle, SetStep, StepIsKept, TypeOK
<1> QED BY <1>3, <1>4, <1>5, <1>6, <1>7 DEF Keeps

LEMMA AfterFailureKeeps ==
    ASSUME PipelineInv, NEW n \in Node, Waits(n), NEW left, left \subseteq inFlight,
            AfterFailure(n, left)
    PROVE  Keeps
<1> USE PipelineAssumption DEF PipelineInv
<1>1. /\ pc = "level" /\ toStart = {} /\ n \in level /\ settled[n] = None /\ step[n] = None
      /\ results[n] = None /\ attempt[n] > 0 /\ decision[n] = "allow"
      /\ UNCHANGED <<config, plan, pc, level, toStart, results, decision, stats, budget,
              evaluation>>
      /\ Node' = Node /\ Retries' = Retries
  BY DEF Waits, NodesOK, StepsOK, Node, Retries
<1>2. Retries \in Nat /\ config.budget \in Nat /\ attempt[n] \in 0 .. Retries + 1
  BY ConfigTypes DEF TypeOK
<1>3. \A c \in left : c \in Node \X (1 .. Retries + 1) /\ c[2] <= attempt[c[1]]
  BY DEF TypeOK
<1>4. PhasesOK'
  BY <1>1 DEF PhasesOK
<1>5. CASE /\ attempt[n] <= Retries
           /\ attempt' = [attempt EXCEPT ![n] = @ + 1]
           /\ inFlight' = left \cup {<<n, attempt[n] + 1>>}
           /\ UNCHANGED <<step, settled, replan>>
  <2>1. attempt' \in [Node -> 0 .. Retries + 1] /\ \A m \in Node : attempt[m] <= attempt'[m]
    BY <1>2, <1>5 DEF TypeOK
  <2>2. inFlight' \subseteq {c \in Node \X (1 .. Retries + 1) : c[2] <= attempt'[c[1]]}
    <3> SUFFICES ASSUME NEW c \in inFlight'
                 PROVE  c \in Node \X (1 .. Retries + 1) /\ c[2] <= attempt'[c[1]]
      OBVIOUS
    <3>1. CASE c \in left
      <4>1. c[1] \in Node /\ c[2] \in 1 .. Retries + 1 /\ c[2] <= attempt[c[1]]
        BY <1>3, <3>1
      <4>2. attempt[c[1]] \in 0 .. Retries + 1 /\ attempt'[c[1]] \in 0 .. Retries + 1
            /\ attempt[c[1]] <= attempt'[c[1]]
        BY <4>1, <2>1 DEF TypeOK
      <4> QED BY <1>2, <1>3, <3>1, <4>1, <4>2
    <3>2. CASE c = <<n, attempt[n] + 1>>
      <4>1. attempt'[n] = attempt[n] + 1 /\ attempt[n] + 1 \in 1 .. Retries + 1
        BY <1>2, <1>5 DEF TypeOK
      <4> QED BY <3>2, <4>1
    <3> QED BY <3>1, <3>2, <1>5
  <2>3. TypeOK'
    BY <1>1, <1>2, <1>5, <2>1, <2>2 DEF TypeOK
  <2>4. NodesOK'
    BY <1>1, <1>2, <1>5 DEF NodesOK, Untouched, TypeOK
  <2>5. StepsOK' /\ EvaluationIsHonest'
    BY <1>1, <1>5 DEF StepsOK, EvaluationIsHonest
  <2>6. \A m \in Node : StepIsKept(m)
    BY <1>1, <1>5 DEF StepIsKept, TypeOK
  <2> QED BY <1>4, <2>3, <2>4, <2>5, <2>6 DEF Keeps
<1>6. CASE /\ attempt[n] > Retries
           /\ inFlight' = left
           /\ SetStep(n, "failed")
           /\ Settle(n, "failed")
           /\ replan' = TRUE
           /\ UNCHANGED attempt
  <2> USE DEF SetStep, Settle
  <2>1. TypeOK'
    BY <1>1, <1>2, <1>3, <1>6 DEF TypeOK
  <2>2. NodesOK'
    BY <1>1, <1>2, <1>6 DEF NodesOK, Untouched, TypeOK
  <2>3. StepsOK' /\ EvaluationIsHonest'
    BY <1>1, <1>6 DEF StepsOK, EvaluationIsHonest, TypeOK
  <2>4. \A m \in Node : StepIsKept(m)
    BY <1>1, <1>6 DEF StepIsKept, TypeOK
  <2> QED BY <1>4, <2>1, <2>2, <2>3, <2>4 DEF Keeps
<1> QED BY <1>5, <1>6 DEF AfterFailure

LEMMA NextKeeps == ASSUME PipelineInv, Next PROVE Keeps
<1>1. ASSUME NEW n \in Node, StartNode(n) PROVE Keeps
  BY <1>1, BlockDependentKeeps, RefuseKeeps, RunExperimentKeeps, RejectEnvelopeKeeps, CallModelKeeps
     DEF StartNode
<1>2. ASSUME NEW n \in Node, Rejects(n) \/ Timeout(n) PROVE Keeps
  BY <1>2, AfterFailureKeeps DEF Rejects, Timeout
<1> QED BY <1>1, <1>2, BuildGraphKeeps, BeginLevelKeeps, ThrowCyclicKeeps, EndLevelKeeps,
        FinishKeeps,
           LateAnswerKeeps, AnswerKeeps DEF Next

LEMMA InvIsKept == PipelineInv /\ [Next]_vars => PipelineInv'
<1>1. ASSUME PipelineInv, UNCHANGED vars PROVE PipelineInv'
  <2> USE <1>1 DEF vars, PipelineInv
  <2>1. Node' = Node /\ Retries' = Retries BY DEF Node, Retries
  <2>2. TypeOK' BY <2>1 DEF TypeOK
  <2>3. PhasesOK' /\ NodesOK' BY <2>1 DEF PhasesOK, NodesOK, Untouched
  <2>4. StepsOK' /\ EvaluationIsHonest' BY <2>1 DEF StepsOK, EvaluationIsHonest
  <2> QED BY <2>2, <2>3, <2>4
<1> QED BY <1>1, NextKeeps DEF Keeps

\* The variables of a run stay in their types, for plans of any length and any limits.
THEOREM TypeCorrect == Spec => []TypeOK
<1>1. PipelineInv => TypeOK BY DEF PipelineInv
<1> QED BY InitInv, InvIsKept, <1>1, PTL DEF Spec

\* Nothing is decided or called for a node before all it depends on has a
\* result, for every plan (executeToolDag).
THEOREM DependenciesFirst == Spec => []DependenciesComeFirst
<1>1. PipelineInv => DependenciesComeFirst
  BY DEF PipelineInv, NodesOK, Untouched, DependenciesComeFirst, TypeOK
<1> QED BY InitInv, InvIsKept, <1>1, PTL DEF Spec

\* The evaluation of a run tells what happened to its steps, for every plan,
\* whatever the model does (the end of runPipeline).
THEOREM EvaluationTellsTheTruth == Spec => []EvaluationIsHonest
<1>1. PipelineInv => EvaluationIsHonest BY DEF PipelineInv
<1> QED BY InitInv, InvIsKept, <1>1, PTL DEF Spec

\* No late answer, retry or end of a level changes a step that has its status.
THEOREM StepsStayFinal == Spec => StepsAreFinal
<1>1. PipelineInv /\ [Next]_vars =>
        [\A n \in Node : step[n] # None =>
           n \in DOMAIN step' /\ step'[n] = step[n] /\ attempt'[n] = attempt[n]]_vars
  BY NextKeeps DEF Keeps, StepIsKept
<1> QED BY InitInv, InvIsKept, <1>1, PTL DEF Spec, StepsAreFinal

------------------------------------------------------------------------------
(* A failure stops what depends on it. FailureStopsDependents looks through    *)
(* any number of nodes; the invariant looks one node back: what was decided    *)
(* depends on successes only, and every success was decided. The successes are *)
(* then closed under "depends on", and hold all ancestors of what was decided. *)

DecidedOK ==
    \A n \in Node :
        /\ decision[n] # None => \A d \in plan[n].dependsOn : results[d] = "success"
        /\ settled[n] \in {"success", "failed"} => decision[n] # None

\* What was decided and recorded so far stays; what a step adds is decided on
\* successes.
LEMMA DecidedStep ==
    ASSUME PipelineInv, DecidedOK, [Next]_vars
    PROVE  DecidedOK'
<1> USE PipelineAssumption
<1>0. TypeOK /\ PhasesOK /\ NodesOK
  BY DEF PipelineInv
<1>1. CASE BuildGraph
  BY <1>1 DEF BuildGraph, NodesOf, DecidedOK, Node
<1>2. CASE EndLevel
  <2>1. /\ plan' = plan /\ Node' = Node /\ settled' = settled /\ decision' = decision
        /\ results' = [n \in Node |-> IF n \in level THEN settled[n] ELSE results[n]]
    BY <1>2 DEF EndLevel, execution, Node
  <2>2. \A n \in Node : results[n] = "success" => results'[n] = "success"
    BY <1>0, <2>1 DEF NodesOK
  <2>3. ValidGraph(plan)
    BY <1>0, <1>2 DEF PhasesOK, EndLevel
  <2>4. QED
    BY <2>1, <2>2, <2>3 DEF DecidedOK, ValidGraph, Node
<1>3. ASSUME NEW n \in Node, Starts(n), FailedDeps(n) = {}
      PROVE  \A d \in plan[n].dependsOn : results[d] = "success"
  BY <1>0, <1>3 DEF Starts, FailedDeps, NodesOK, TypeOK
<1>4. ASSUME NEW n \in Node, NEW d, Decides(n, d),
             settled' = settled \/ \E status : Settle(n, status)
      PROVE  DecidedOK'
  <2>1. /\ Starts(n) /\ FailedDeps(n) = {} /\ d = DecisionOn(n)
        /\ decision' = [decision EXCEPT ![n] = d]
    BY <1>4 DEF Decides
  <2>2. d # None
    BY <1>0, <2>1, DecisionTypes
  <2>3. UNCHANGED <<plan, results>> /\ Node' = Node
    BY <2>1 DEF Starts, Node
  <2>4. \A m \in Node : m # n => settled'[m] = settled[m]
    BY <1>0, <1>4 DEF Settle, TypeOK
  <2>5. decision'[n] = d /\ \A m \in Node : m # n => decision'[m] = decision[m]
    BY <1>0, <2>1 DEF TypeOK
  <2>6. QED
    BY <1>3, <2>1, <2>2, <2>3, <2>4, <2>5 DEF DecidedOK
<1>5. ASSUME NEW n \in Node, UNCHANGED <<plan, results, decision>>, decision[n] # None,
             settled' = settled \/ \E status : Settle(n, status)
      PROVE  DecidedOK'
  BY <1>0, <1>5 DEF DecidedOK, Settle, TypeOK, Node
<1>6. ASSUME NEW n \in Node, BlockDependent(n) PROVE DecidedOK'
  BY <1>0, <1>6 DEF BlockDependent, Starts, Settle, DecidedOK, TypeOK, Node
<1>7. ASSUME NEW n \in Node, Refuse(n) \/ RunExperiment(n) \/ RejectEnvelope(n) \/ CallModel(n)
      PROVE  DecidedOK'
  <2>1. \E d : Decides(n, d)
    BY <1>7 DEF Refuse, RunExperiment, RejectEnvelope, CallModel, CallsTool
  <2>2. settled' = settled \/ \E status : Settle(n, status)
    BY <1>7 DEF Refuse, RunExperiment, RejectEnvelope, CallModel
  <2>3. QED
    BY <1>4, <2>1, <2>2
<1>8. ASSUME NEW n \in Node, Answer(n) \/ Rejects(n) \/ Timeout(n) PROVE DecidedOK'
  <2>1. Waits(n) /\ decision[n] = "allow"
    BY <1>0, <1>8 DEF Answer, Rejects, Timeout, Waits, NodesOK
  <2>2. settled' = settled \/ \E status : Settle(n, status)
    BY <1>8 DEF Answer, Rejects, Timeout, AfterFailure
  <2>3. QED
    BY <1>5, <2>1, <2>2 DEF Waits
<1>9. CASE \/ BeginLevel \/ ThrowCyclic \/ Finish \/ UNCHANGED vars
           \/ \E c \in inFlight : LateAnswer(c)
  BY <1>9 DEF BeginLevel, ThrowCyclic, Finish, LateAnswer, vars, execution, DecidedOK, Node
<1>10. QED
  BY <1>1, <1>2, <1>6, <1>7, <1>8, <1>9 DEF Next, StartNode

\* The successes hold all ancestors of a node that was decided.
LEMMA AncestorsSucceeded ==
    ASSUME PipelineInv, DecidedOK, ValidGraph(plan), NEW n \in Node, decision[n] # None
    PROVE  \A m \in Ancestors(n) : results[m] = "success"
<1> DEFINE S == {m \in Node : results[m] = "success"}
<1>1. Closed(S)
  <2>1. ASSUME NEW m \in S PROVE plan[m].dependsOn \subseteq S
    <3>1. settled[m] = "success"
      BY PipelineAssumption DEF PipelineInv, NodesOK
    <3>2. plan[m].dependsOn \subseteq Node
      BY DEF ValidGraph, Node
    <3>3. QED
      BY <3>1, <3>2 DEF DecidedOK
  <2>2. QED
    BY <2>1 DEF Closed
<1>2. plan[n].dependsOn \subseteq S
  BY DEF DecidedOK, ValidGraph, Node
<1>3. QED
  BY <1>1, <1>2 DEF Ancestors

\* No node below a failed one, through any number of nodes, reaches the gate
\* or the model, for plans of every shape.
THEOREM FailuresStopDependents == Spec => []FailureStopsDependents
<1>1. Init => DecidedOK
  BY PipelineAssumption DEF Init, DecidedOK, Node, NodesOf
<1>2. PipelineInv /\ DecidedOK /\ [Next]_vars => DecidedOK'
  BY DecidedStep
<1>3. PipelineInv /\ DecidedOK => FailureStopsDependents
  <2> SUFFICES ASSUME PipelineInv, DecidedOK, pc \in {"between", "level", "ended"},
                      NEW n \in Node, NEW d \in Ancestors(n), results[d] = "failed"
               PROVE  decision[n] = None /\ attempt[n] = 0
    BY DEF FailureStopsDependents
  <2>1. ValidGraph(plan)
    BY DEF PipelineInv, PhasesOK
  <2>2. decision[n] = None
    BY <2>1, AncestorsSucceeded
  <2>3. attempt[n] = 0
    <3>1. attempt[n] \in 0 .. Retries + 1 /\ Retries \in Nat
      BY ConfigTypes DEF PipelineInv, TypeOK
    <3>2. ~(attempt[n] > 0)
      BY <2>2, PipelineAssumption DEF PipelineInv, NodesOK
    <3>3. QED
      BY <3>1, <3>2
  <2>4. QED
    BY <2>2, <2>3
<1>4. QED
  BY InitInv, InvIsKept, <1>1, <1>2, <1>3, PTL DEF Spec

------------------------------------------------------------------------------
(* What is called is permitted, and within the limits                        *)

Allowed == {n \in Node : decision[n] = "allow"}
AllowedReads == {n \in Node : plan[n].class = "external_read" /\ decision[n] = "allow"}
Confirmed == {n \in Node : plan[n].class = "experiment" /\ step[n] = "executed"}

\* The counters of the gate know every step that was allowed, and the limits
\* were looked at after each; a confirmed experiment has used up its part of
\* the budget.
LimitsOK ==
    /\ Cardinality(Allowed) <= stats.allowed /\ Cardinality(Allowed) <= MaxActions[config.level]
    /\ Cardinality(AllowedReads) <= stats.external /\ Cardinality(AllowedReads) <= MaxExternal[config.level]
    /\ Cardinality(Confirmed) + budget <= config.budget
GovernedInv == PipelineInv /\ OnlyPermittedCalls /\ LimitsOK

\* What the four authorities agree on.
LEMMA CalledIsPermitted ==
    ASSUME TypeOK, NEW n \in Node, DecisionOn(n) = "allow", plan[n].class # "experiment",
            ValidEnvelope(n)
    PROVE  Permitted(plan[n])
<1>1. Governed(plan[n].class, GateResult(n).decision) = "allow" /\ GateResult(n).decision = "allow"
  BY DEF DecisionOn, Governed
<1>2. LevelDecision(config.level, plan[n].class,
        plan[n].target) = "allow" /\ plan[n].class \notin HardBlocked
  BY <1>1 DEF GateResult, Evaluate
<1>3. LevelAllows(config.level, plan[n].class, plan[n].target)
  BY <1>2 DEF LevelDecision
<1>4. config.mode \in Mode /\ config.level \in 1..3 BY ConfigTypes
<1>5. /\ config.mode = "safe_minimal" => plan[n].class \in {"local_only", "experiment"}
      /\ config.mode = "conservative" => plan[n].class # "external_read"
  BY <1>1 DEF Governed
<1>6. plan[n].class = "external_read" /\ plan[n].target # "none" => plan[n].target \notin config.denied
  BY <1>1 DEF DecisionOn, Governed
<1> QED BY <1>3, <1>4, <1>5, <1>6 DEF LevelAllows, ValidEnvelope, Permitted, Mode

\* The gate's counters after a decision, and the limits it has looked at.
LEMMA DecisionCounts ==
    ASSUME TypeOK, NEW n \in Node
    PROVE  LET s == GateResult(n).stats IN
           /\ s.allowed >= stats.allowed /\ s.external >= stats.external
           /\ DecisionOn(n) = "allow" =>
                /\ s.allowed = stats.allowed + 1 /\ s.allowed < MaxActions[config.level]
                /\ plan[n].class = "external_read" =>
                     s.external = stats.external + 1 /\ s.external < MaxExternal[config.level]
<1> USE LimitsAssumption
<1>1. stats.allowed \in Nat /\ stats.external \in Nat /\ config.level \in Level
      /\ MaxActions[config.level] \in Nat /\ MaxExternal[config.level] \in Nat
  BY ConfigTypes DEF TypeOK, Stats, Level, Limits
<1> DEFINE d == IF plan[n].class \in HardBlocked THEN "block"
                ELSE LevelDecision(config.level, plan[n].class, plan[n].target)
<1> HIDE DEF d
<1>2. GateResult(n).stats = Counted(stats, d, plan[n].class)
  BY DEF d, GateResult, Evaluate
<1>3. DecisionOn(n) = "allow" => GateResult(n).decision = "allow"
  BY DEF DecisionOn, Governed
<1>4. GateResult(n).decision = "allow" =>
         d = "allow" /\ ~OverLimit(config.level, GateResult(n).stats, plan[n].class)
  BY <1>2 DEF d, GateResult, Evaluate
<1> QED BY <1>1, <1>2, <1>3, <1>4 DEF Counted, OverLimit

LEMMA SetsAreFinite ==
    ASSUME TypeOK
    PROVE  /\ IsFiniteSet(Allowed) /\ IsFiniteSet(AllowedReads) /\ IsFiniteSet(Confirmed)
           /\ Cardinality(Allowed) \in Nat /\ Cardinality(AllowedReads) \in Nat
           /\ Cardinality(Confirmed) \in Nat
<1>1. Node = 1..Len(plan) /\ Len(plan) \in Nat
  BY DEF TypeOK, Node
<1>2. IsFiniteSet(Node)
  BY <1>1, FS_Interval
<1>3. IsFiniteSet(Allowed) /\ IsFiniteSet(AllowedReads) /\ IsFiniteSet(Confirmed)
  BY <1>2, FS_Subset DEF Allowed, AllowedReads, Confirmed
<1> QED BY <1>3, FS_CardinalityType

\* Steps that decide nothing and confirm nothing.
LEMMA OtherStepsKeepLimits ==
    ASSUME LimitsOK, UNCHANGED <<config, plan, decision, stats, budget>>,
           \A n \in Node : plan[n].class = "experiment" => (step'[n] = "executed" <=> step[n] = "executed")
    PROVE  LimitsOK'
<1>1. Allowed' = Allowed /\ AllowedReads' = AllowedReads /\ Confirmed' = Confirmed
  BY DEF Allowed, AllowedReads, Confirmed, Node
<1> QED BY <1>1 DEF LimitsOK

\* A decision.
LEMMA DecidesKeepsLimits ==
    ASSUME GovernedInv, NEW n \in Node, NEW d, Decides(n, d)
    PROVE  /\ Cardinality(Allowed') <= stats'.allowed
           /\ Cardinality(Allowed') <= MaxActions[config.level]
           /\ Cardinality(AllowedReads') <= stats'.external
           /\ Cardinality(AllowedReads') <= MaxExternal[config.level]
<1> USE LimitsAssumption, PipelineAssumption
<1>1. /\ TypeOK /\ decision[n] = None /\ plan' = plan /\ Node' = Node
      /\ decision' = [decision EXCEPT ![n] = d] /\ stats' = GateResult(n).stats /\ d = DecisionOn(n)
  BY StartsFacts DEF GovernedInv, PipelineInv, Decides, Untouched
<1>2. n \notin Allowed /\ n \notin AllowedReads
  BY <1>1 DEF Allowed, AllowedReads
<1>3. /\ stats.allowed \in Nat /\ stats.external \in Nat
      /\ stats'.allowed \in Nat /\ stats'.external \in Nat
      /\ MaxActions[config.level] \in Nat /\ MaxExternal[config.level] \in Nat
  BY <1>1, ConfigTypes, DecisionTypes DEF TypeOK, Stats, Level, Limits
<1>4. CASE d = "allow"
  <2> DEFINE a == Cardinality(Allowed) a1 == Cardinality(Allowed')
             r == Cardinality(AllowedReads) r1 == Cardinality(AllowedReads')
  <2>6. /\ stats'.allowed = stats.allowed + 1 /\ stats'.allowed < MaxActions[config.level]
        /\ plan[n].class = "external_read" =>
             stats'.external = stats.external + 1 /\ stats'.external < MaxExternal[config.level]
    BY <1>1, <1>4, DecisionCounts
  <2>7. a \in Nat /\ r \in Nat /\ a <= stats.allowed /\ r <= stats.external
    BY <1>1, SetsAreFinite DEF GovernedInv, LimitsOK
  <2>1. Allowed' = Allowed \cup {n}
    BY <1>1, <1>4 DEF Allowed, TypeOK
  <2>2. Cardinality(Allowed') = Cardinality(Allowed) + 1
    BY <2>1, <1>1, <1>2, SetsAreFinite, FS_AddElement
  <2>3. Cardinality(Allowed') <= stats'.allowed /\ Cardinality(Allowed') <= MaxActions[config.level]
    <3>1. a1 = a + 1 BY <2>2
    <3> HIDE DEF a, a1
    <3>2. a1 <= stats'.allowed /\ a1 <= MaxActions[config.level]
      BY <3>1, <2>6, <2>7, <1>3
    <3> QED BY <3>2 DEF a1
  <2>4. CASE plan[n].class = "external_read"
    <3>1. AllowedReads' = AllowedReads \cup {n}
      BY <1>1, <1>4, <2>4 DEF AllowedReads, TypeOK
    <3>2. Cardinality(AllowedReads') = Cardinality(AllowedReads) + 1
      BY <3>1, <1>1, <1>2, SetsAreFinite, FS_AddElement
    <3>3. Cardinality(AllowedReads') <= stats'.external /\ Cardinality(AllowedReads') <= MaxExternal[config.level]
      <4>1. r1 = r + 1 BY <3>2
      <4> HIDE DEF r, r1
      <4>2. r1 <= stats'.external /\ r1 <= MaxExternal[config.level]
        BY <4>1, <2>6, <2>7, <2>4, <1>3
      <4> QED BY <4>2 DEF r1
    <3> QED BY <2>3, <3>3
  <2>5. CASE plan[n].class # "external_read"
    <3>1. AllowedReads' = AllowedReads
      BY <1>1, <2>5 DEF AllowedReads, TypeOK
    <3> QED BY <3>1, <2>3, <1>1, <1>3, DecisionCounts, SetsAreFinite DEF GovernedInv, LimitsOK
  <2> QED BY <2>4, <2>5
<1>5. CASE d # "allow"
  <2>1. Allowed' = Allowed /\ AllowedReads' = AllowedReads
    BY <1>1, <1>5 DEF Allowed, AllowedReads, TypeOK
  <2> QED BY <2>1, <1>1, <1>3, DecisionCounts, SetsAreFinite DEF GovernedInv, LimitsOK
<1> QED BY <1>4, <1>5

\* An experiment is paid for before it is confirmed.
LEMMA RunExperimentKeepsLimits ==
    ASSUME GovernedInv, NEW n \in Node, RunExperiment(n)
    PROVE  LimitsOK'
<1> USE PipelineAssumption DEF RunExperiment
<1>1. /\ TypeOK /\ step[n] = None /\ plan' = plan /\ Node' = Node /\ config' = config
      /\ step' = [step EXCEPT ![n] = IF Succeeds(n) THEN "executed" ELSE "failed"]
  BY StartsFacts DEF GovernedInv, PipelineInv, Decides, Untouched, SetStep
<1>2. budget \in Nat /\ config.budget \in Nat
  BY <1>1, ConfigTypes DEF TypeOK
<1>3. Cardinality(Confirmed') + budget' <= config.budget
  <2>1. CASE Succeeds(n)
    <3>1. Confirmed' = Confirmed \cup {n} /\ n \notin Confirmed
      BY <1>1, <2>1 DEF Confirmed, TypeOK
    <3>2. Cardinality(Confirmed') = Cardinality(Confirmed) + 1
      BY <3>1, <1>1, SetsAreFinite, FS_AddElement
    <3> QED BY <3>2, <2>1, <1>1, <1>2, SetsAreFinite DEF Succeeds, Spend, GovernedInv, LimitsOK
  <2>2. CASE ~Succeeds(n)
    <3>1. Confirmed' = Confirmed
      BY <1>1, <2>2 DEF Confirmed, TypeOK
    <3> QED BY <3>1, <1>1, <1>2, SetsAreFinite DEF Spend, GovernedInv, LimitsOK
  <2> QED BY <2>1, <2>2
<1> QED BY <1>1, <1>3, DecidesKeepsLimits DEF LimitsOK

\* The other decisions.
LEMMA DecisionsKeepLimits ==
    ASSUME GovernedInv, NEW n \in Node, Refuse(n) \/ RejectEnvelope(n) \/ CallModel(n)
    PROVE  LimitsOK'
<1> USE PipelineAssumption
<1>1. PICK d : Decides(n, d) /\ budget' = budget
  BY DEF Refuse, RejectEnvelope, CallModel, CallsTool
<1>2. /\ TypeOK /\ step[n] = None /\ plan' = plan /\ Node' = Node /\ config' = config
      /\ \/ step' = step
         \/ \E s \in {"blocked", "awaiting_approval", "failed"} : step' = [step EXCEPT ![n] = s]
  BY <1>1, StartsFacts
     DEF GovernedInv, PipelineInv, Decides, Untouched, SetStep, Refuse, RejectEnvelope, CallModel
<1>3. Confirmed' = Confirmed
  BY <1>2 DEF Confirmed, TypeOK
<1> QED BY <1>1, <1>2, <1>3, DecidesKeepsLimits DEF LimitsOK, GovernedInv

LEMMA StartNodeKeepsGoverned ==
    ASSUME GovernedInv, NEW n \in Node, StartNode(n)
    PROVE  OnlyPermittedCalls' /\ LimitsOK'
<1> USE PipelineAssumption
<1>1. /\ TypeOK /\ Untouched(n) /\ plan' = plan /\ Node' = Node /\ config' = config
  BY StartsFacts DEF GovernedInv, PipelineInv, StartNode, BlockDependent, Refuse, RunExperiment,
     RejectEnvelope, CallModel, CallsTool, Decides
<1>2. CASE CallModel(n)
  <2>1. Permitted(plan[n])
    BY <1>1, <1>2, CalledIsPermitted DEF CallModel, CallsTool, Decides
  <2>2. attempt' = [attempt EXCEPT ![n] = 1]
    BY <1>2 DEF CallModel
  <2>3. OnlyPermittedCalls'
    BY <1>1, <2>1, <2>2 DEF OnlyPermittedCalls, Permitted, GovernedInv, TypeOK
  <2> QED BY <1>2, <2>3, DecisionsKeepLimits
<1>3. CASE BlockDependent(n)
  <2>1. OnlyPermittedCalls'
    BY <1>1, <1>3 DEF BlockDependent, OnlyPermittedCalls, Permitted, GovernedInv
  <2> QED BY <1>1, <1>3, <2>1, OtherStepsKeepLimits DEF GovernedInv, BlockDependent
<1>4. CASE Refuse(n) \/ RunExperiment(n) \/ RejectEnvelope(n)
  <2>1. attempt' = attempt
    BY <1>4 DEF Refuse, RunExperiment, RejectEnvelope
  <2>2. OnlyPermittedCalls'
    BY <1>1, <2>1 DEF OnlyPermittedCalls, Permitted, GovernedInv
  <2> QED BY <1>4, <2>2, RunExperimentKeepsLimits, DecisionsKeepLimits
<1> QED BY <1>2, <1>3, <1>4 DEF StartNode

LEMMA WaitsKeepGoverned ==
    ASSUME GovernedInv, NEW n \in Node, Answer(n) \/ Rejects(n) \/ Timeout(n)
    PROVE  OnlyPermittedCalls' /\ LimitsOK'
<1> USE PipelineAssumption
<1>1. /\ TypeOK /\ plan' = plan /\ Node' = Node /\ config' = config
      /\ UNCHANGED <<decision, stats, budget>> /\ attempt[n] > 0 /\ step[n] = None
  BY DEF GovernedInv, PipelineInv, NodesOK, StepsOK, Answer, Rejects, Timeout, Waits, Node
<1>2. Permitted(plan[n])
  BY <1>1 DEF GovernedInv, OnlyPermittedCalls
<1>3. \/ attempt' = attempt /\ \E s \in {"executed", "failed"} : step' = [step EXCEPT ![n] = s]
      \/ attempt' = [attempt EXCEPT ![n] = @ + 1] /\ step' = step
  BY DEF Answer, Rejects, Timeout, AfterFailure, SetStep
<1>4. OnlyPermittedCalls'
  BY <1>1, <1>2, <1>3 DEF OnlyPermittedCalls, Permitted, GovernedInv, TypeOK
<1>5. plan[n].class # "experiment"
  BY <1>2 DEF Permitted
<1>6. \A m \in Node : plan[m].class = "experiment" => (step'[m] = "executed" <=> step[m] = "executed")
  BY <1>1, <1>3, <1>5 DEF TypeOK
<1> QED BY <1>1, <1>4, <1>6, OtherStepsKeepLimits DEF GovernedInv

LEMMA NextKeepsGoverned ==
    ASSUME GovernedInv, Next
    PROVE  OnlyPermittedCalls' /\ LimitsOK'
<1> USE PipelineAssumption, LimitsAssumption
<1>1. CASE BuildGraph
  <2>1. /\ attempt' = [m \in Node' |-> 0] /\ decision' = [m \in Node' |-> None]
        /\ step' = [m \in Node' |-> None] /\ UNCHANGED <<config, stats, budget>>
    BY <1>1 DEF BuildGraph, NodesOf, Node
  <2>2. Allowed' = {} /\ AllowedReads' = {} /\ Confirmed' = {}
    BY <2>1 DEF Allowed, AllowedReads, Confirmed
  <2>3. /\ stats.allowed \in Nat /\ stats.external \in Nat /\ budget \in 0 .. config.budget
        /\ config.budget \in Nat /\ MaxActions[config.level] \in Nat /\ MaxExternal[config.level] \in Nat
    BY ConfigTypes DEF GovernedInv, PipelineInv, TypeOK, Stats, Level, Limits
  <2>4. LimitsOK'
    BY <2>1, <2>2, <2>3, FS_EmptySet DEF LimitsOK
  <2>5. OnlyPermittedCalls'
    BY <2>1 DEF OnlyPermittedCalls
  <2> QED BY <2>4, <2>5
<1>2. CASE BeginLevel \/ ThrowCyclic \/ EndLevel
  <2>1. UNCHANGED <<config, plan, execution>>
    BY <1>2 DEF BeginLevel, ThrowCyclic, EndLevel
  <2>2. OnlyPermittedCalls'
    BY <2>1 DEF execution, OnlyPermittedCalls, Permitted, GovernedInv, Node
  <2> QED BY <2>1, <2>2, OtherStepsKeepLimits DEF execution, GovernedInv
<1>3. CASE Finish
  <2>1. /\ UNCHANGED <<config, plan, decision, attempt, stats, budget>>
        /\ step' = [m \in Node |-> FinalStep(m)]
    BY <1>3 DEF Finish
  <2>2. \A m \in Node : step'[m] = "executed" <=> step[m] = "executed"
    BY <2>1 DEF FinalStep
  <2>3. OnlyPermittedCalls'
    BY <2>1 DEF OnlyPermittedCalls, Permitted, GovernedInv, Node
  <2> QED BY <2>1, <2>2, <2>3, OtherStepsKeepLimits DEF GovernedInv
<1>4. ASSUME NEW c \in inFlight, LateAnswer(c) PROVE OnlyPermittedCalls' /\ LimitsOK'
  <2>1. UNCHANGED <<config, plan, decision, attempt, stats, budget, step>>
    BY <1>4 DEF LateAnswer
  <2>2. OnlyPermittedCalls'
    BY <2>1 DEF OnlyPermittedCalls, Permitted, GovernedInv, Node
  <2> QED BY <2>1, <2>2, OtherStepsKeepLimits DEF GovernedInv
<1> QED BY <1>1, <1>2, <1>3, <1>4, StartNodeKeepsGoverned, WaitsKeepGoverned DEF Next

LEMMA LimitsOKHolds == ASSUME GovernedInv PROVE CallsAreGoverned
<1> DEFINE reads == {n \in Node : plan[n].class = "external_read" /\ attempt[n] > 0}
<1>1. reads \subseteq AllowedReads
  BY DEF GovernedInv, PipelineInv, NodesOK, AllowedReads
<1>2. Cardinality(reads) \in Nat /\ Cardinality(reads) <= Cardinality(AllowedReads)
  BY <1>1, SetsAreFinite, FS_Subset, FS_CardinalityType DEF GovernedInv, PipelineInv
<1>3. Cardinality(reads) <= MaxExternal[config.level]
  BY <1>2, SetsAreFinite, ConfigTypes, LimitsAssumption
     DEF GovernedInv, PipelineInv, LimitsOK, Limits, Level
<1>4. Cardinality(Confirmed) <= config.budget
  BY SetsAreFinite, ConfigTypes DEF GovernedInv, PipelineInv, LimitsOK, TypeOK
<1> QED BY <1>3, <1>4 DEF GovernedInv, CallsAreGoverned, LimitsHold, LimitsOK, Allowed, Confirmed

LEMMA InitGoverned == Init => GovernedInv
<1> SUFFICES ASSUME Init PROVE GovernedInv OBVIOUS
<1>1. PipelineInv BY InitInv
<1>2. Allowed = {} /\ AllowedReads = {} /\ Confirmed = {}
  BY PipelineAssumption DEF Init, NodesOf, Allowed, AllowedReads, Confirmed, Node
<1>3. /\ stats.allowed = 0 /\ stats.external = 0 /\ budget = config.budget /\ config.budget \in Nat
      /\ MaxActions[config.level] \in Nat /\ MaxExternal[config.level] \in Nat
  BY <1>1, ConfigTypes, LimitsAssumption DEF Init, InitialStats, PipelineInv, Limits, Level
<1>4. LimitsOK
  BY <1>2, <1>3, FS_EmptySet DEF LimitsOK
<1> QED BY <1>1, <1>4 DEF GovernedInv, Init, OnlyPermittedCalls, Node

\* The model is called only where level, artifact, governor and allowlist all
\* permit it, and no more often over a whole run than the limits allow, for
\* every plan and all limits (evaluate, checkLimits, execute).
THEOREM CallsStayGoverned == Spec => []CallsAreGoverned
<1>1. GovernedInv /\ [Next]_vars => GovernedInv'
  <2>1. ASSUME GovernedInv, UNCHANGED vars PROVE OnlyPermittedCalls' /\ LimitsOK'
    BY <2>1, OtherStepsKeepLimits DEF vars, GovernedInv, OnlyPermittedCalls, Permitted, Node
  <2> QED BY <2>1, NextKeepsGoverned, InvIsKept DEF GovernedInv
<1> QED BY InitGoverned, <1>1, LimitsOKHolds, PTL DEF Spec
==============================================================================
