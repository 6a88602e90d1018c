------------------------------ MODULE MCCommands ------------------------------
(***************************************************************************)
(* What operators and their agents use: "synth ops" (AgenticOps), "synth   *)
(* canary" with "synth run" (CanaryRollout), by two processes each, and    *)
(* the agents with their registry, router and sessions (MultiAgent), and   *)
(* what operators approve (Governance). The families share no state; a     *)
(* behaviour is about one of them.                                         *)
(***************************************************************************)
EXTENDS CanaryRollout, AgenticOps, MultiAgent, Governance

VARIABLE family

CONSTANTS p1, p2, p3, s1, s2

\* Goal 1 needs approval and outranks goal 2, which is preapproved.
TwoScores == <<2, 1>>
OneRetry == <<0, 1>>

Good == [semantic |-> TRUE, parity |-> TRUE, reliable |-> TRUE, zero |-> TRUE]
Close == [Good EXCEPT !.zero = FALSE]
Mismatched == [Close EXCEPT !.parity = FALSE]
Poor == [Close EXCEPT !.semantic = FALSE]

\* A session in the first five percent and one beyond; gates that promote, roll back and hold.
TwoBuckets == [s \in {s1, s2} |-> IF s = s1 THEN 3 ELSE 40]
ThreeGates == {<<Good>>, <<Poor, Good>>, <<Close, Mismatched>>}

Agent(id, can, priority) == [id |-> id, can |-> can, priority |-> priority, valid |-> TRUE]
Task(requires) == [prefers |-> Nothing, requires |-> requires]

\* The file of the registry adds a tester and tries to override a default.
ThreeAgents == <<Agent("orchestrator", {"route"}, 10), Agent("coder", {"code", "review"}, 80),
                 Agent("reviewer", {"review"}, 70)>>
Tester == Agent("tester", {"test", "review"}, 90)
FourFiles == {Unusable, Missing, <<Tester, Agent("coder", {"route"}, 90)>>, <<[Tester EXCEPT !.valid = FALSE]>>}
TwoLoops == {"first loop", "second loop"}
FourTasks == {Task(<<"review", "code">>), Task(<<"test">>), Task(<<>>), [Task(<<>>) EXCEPT !.prefers = "tester"]}

OwnTenants == [o \in {"o1", "o2"} |-> o]

canaryVars == vars
suiteVars == <<family, opsVars, canaryVars, agentsVars, governanceVars>>

SuiteInit ==
    /\ family \in {"ops", "canary", "registry", "agents", "sessions", "requests", "operators", "decisions"}
    /\ OpsInit /\ Init /\ AgentsInit /\ GovernanceInit
    /\ family \notin {"registry", "agents"} => config = Unusable

\* The registry and the loops that reload it, two decisions and a session while a caller reloads it,
\* or two sessions while time passes.
AgentFamilies ==
    /\ AgentsNext
    /\ family = "registry" => UNCHANGED <<sessionVars, decision, routes>>
    /\ family = "agents" => /\ watching' = {} /\ clock' = 0 /\ session'[s2] = Nothing
                            /\ session'[s1] # Nothing => session'[s1].fragments = 0
    /\ family = "sessions" => /\ UNCHANGED registryVars /\ routes' <= 1
                              /\ decision' # Nothing => decision'.task = Task(<<>>)

\* The parts of Governance share the clock only.
GovernanceFamilies ==
    /\ GovernanceNext
    /\ family # "requests" => UNCHANGED <<policies, request>>
    /\ family # "operators" => UNCHANGED <<opSession, boundary>>
    /\ IF family = "decisions" THEN UNCHANGED time ELSE UNCHANGED <<plan, command>>

SuiteNext ==
    /\ UNCHANGED family
    /\ \/ family = "ops" /\ OpsNext /\ UNCHANGED <<canaryVars, agentsVars, governanceVars>>
       \/ family = "canary" /\ Next /\ UNCHANGED <<opsVars, agentsVars, governanceVars>>
       \/ /\ family \in {"registry", "agents", "sessions"}
          /\ AgentFamilies /\ UNCHANGED <<opsVars, canaryVars, governanceVars>>
       \/ /\ family \in {"requests", "operators", "decisions"}
          /\ GovernanceFamilies /\ UNCHANGED <<opsVars, canaryVars, agentsVars>>
SuiteSpec == SuiteInit /\ [][SuiteNext]_suiteVars /\ Fairness
=============================================================================
