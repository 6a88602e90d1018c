----------------------------- MODULE MultiAgent -----------------------------
(***************************************************************************)
(* Agents: the registry that reloads its file while it is used             *)
(* (src/src/multi-agent/registry.ts), the chain of strategies of the       *)
(* router (router.ts) and the sessions with their timers (session.ts).     *)
(* Every method is synchronous except reload(), which reads the file first *)
(* and applies it later, and the loops that watchConfig() starts. A loop   *)
(* reloads for "change" events only, and ends for good, unnoticed, when    *)
(* the file is missing or the watching fails; stopWatching() stops none.   *)
(* The constructor does not read the file. The round robin is left out:    *)
(* when the router gets to it, no agent has a required capability, so it   *)
(* returns nothing.                                                        *)
(***************************************************************************)
EXTENDS Integers, Sequences, SequencesExt, FiniteSets, FiniteSetsExt

CONSTANTS
    AgentSession, Nothing,
    Defaults,          \* DEFAULT_AGENT_PROFILES, records [id, can, priority, valid]
    Contents,          \* what the file of the registry may hold: profiles, Unusable or Missing
    Unusable,          \* no JSON or no list of agents
    Missing,           \* there is no file
    Watcher,           \* the loops that calls of watchConfig() start, one each
    Tasks,             \* tasks [prefers, requires]
    Timeout, MaxFragments,
    MaxClock, MaxChanges, MaxRoutes   \* bounds

Reloader == Watcher \cup {"caller"}
AgentProfile == [id : STRING, can : SUBSET STRING, priority : Int, valid : BOOLEAN]
AgentSessionState ==
    [agent : STRING, status : {"initializing", "completed"}, completedAt : Nat \cup {Nothing}, fragments : Nat]

\* The orchestrator is among the defaults, and no two of them have one id.
ASSUME AgentsAssumption ==
    /\ Defaults \in Seq(AgentProfile) /\ \E i \in DOMAIN Defaults : Defaults[i].id = "orchestrator"
    /\ \A i, j \in DOMAIN Defaults : Defaults[i].id = Defaults[j].id => i = j
    /\ \A file \in Contents \ {Unusable, Missing} : file \in Seq(AgentProfile)
    /\ \A task \in Tasks : task.prefers \in STRING \cup {Nothing} /\ task.requires \in Seq(STRING)
    /\ Timeout \in Nat /\ MaxFragments \in Nat
    /\ Nothing \notin Contents /\ Nothing \notin STRING /\ Nothing \notin Nat /\ Nothing \notin AgentSessionState

VARIABLES
    profiles,          \* the registry, every profile with its place in the order of the map
    config,            \* the file of the registry
    reading,           \* reading[r]: what a reload has read and not yet applied, or Nothing
    watching,          \* the loops that get events of the file there is
    notified,          \* notified[w]: "change" events that w has not handled
    news,              \* history: the last change of the file is "missed", "announced" or "read"
    overlapped,        \* history: two reloads have overlapped
    session,           \* session[s]: Nothing before createSession()
    timer,             \* timer[s]: when the timer fires, or Nothing
    clock,
    lastAccess,        \* history: when the session was created or last retrieved
    cleaned,           \* history: cleanup() has dropped the timer since then
    decision,          \* the last routing decision, with what it was about
    changes, routes

agentsVars == <<profiles, config, reading, watching, notified, news, overlapped, session, timer, clock, lastAccess, cleaned,
          decision, changes, routes>>
registryVars == <<profiles, config, reading, watching, notified, news, overlapped, changes>>
sessionVars == <<session, timer, clock, lastAccess, cleaned>>

Ids(ps) == {p.id : p \in ps}
Entry(p, place) == [id |-> p.id, can |-> p.can, priority |-> p.priority, place |-> place]

\* loadDefaultProfiles()
Preset == {Entry(Defaults[i], i) : i \in DOMAIN Defaults}

\* The valid profiles of a file that do not override a default.
Admitted(agents) == {i \in DOMAIN agents : agents[i].valid /\ agents[i].id \notin Ids(Preset)}

\* An id that comes again keeps its place in the map and gets the later profile.
Loaded(agents) ==
    LET same(i, j) == agents[i].id = agents[j].id
        ends == {e \in Admitted(agents) \X Admitted(agents) :
                    same(e[1], e[2]) /\ \A k \in Admitted(agents) : same(k, e[1]) => k \in e[1]..e[2]}
    IN Preset \cup {Entry(agents[e[2]], Len(Defaults) + e[1]) : e \in ends}

AgentsInit ==
    /\ profiles = Preset /\ config \in Contents
    /\ reading = [r \in Reloader |-> Nothing] /\ overlapped = FALSE
    /\ watching = {} /\ notified = [w \in Watcher |-> 0] /\ news = "missed"
    /\ session = [s \in AgentSession |-> Nothing] /\ timer = [s \in AgentSession |-> Nothing]
    /\ clock = 0 /\ lastAccess = [s \in AgentSession |-> 0] /\ cleaned = {}
    /\ decision = Nothing /\ changes = 0 /\ routes = 0

-----------------------------------------------------------------------------
Announced(events) == {w \in Watcher : events[w] > 0}

\* watchConfig(): a loop on the file there is; without one it ends at once.
WatchConfig(w) ==
    /\ w \notin watching /\ notified[w] = 0 /\ reading[w] = Nothing
    /\ config # Missing /\ watching' = watching \cup {w}
    /\ UNCHANGED <<profiles, config, reading, notified, news, overlapped, decision, changes, routes, sessionVars>>

\* The loops `told` get a "change" event of new contents, the loops `deaf` no other event.
Announce(told, deaf) ==
    /\ changes < MaxChanges /\ changes' = changes + 1
    /\ notified' = [w \in Watcher |-> IF w \in told THEN notified[w] + 1 ELSE notified[w]]
    /\ news' = IF told = {} THEN "missed" ELSE "announced"
    /\ watching' = watching \ deaf
    /\ UNCHANGED <<profiles, reading, overlapped, decision, routes, sessionVars>>

\* The file is written in place.
ChangeFile ==
    /\ config # Missing /\ config' \in Contents \ {config, Missing}
    /\ Announce(watching, {})

\* The file is renamed, deleted, created or replaced by another one: that is a "rename" event, and a
\* "change" event or none; a loop may be left watching the file that is gone.
ReplaceFile ==
    /\ config' \in Contents \ {config}
    /\ \E told, deaf \in SUBSET watching : Announce(told, deaf)

\* The watching fails: the loop ends with the events it has not handled.
EndWatch(w) ==
    /\ w \in watching /\ reading[w] = Nothing
    /\ watching' = watching \ {w} /\ notified' = [notified EXCEPT ![w] = 0]
    /\ news' = IF news = "announced" /\ Announced(notified') = {} THEN "missed" ELSE news
    /\ UNCHANGED <<profiles, config, reading, overlapped, decision, changes, routes, sessionVars>>

\* reload() reads the file; a loop does so for every "change" event, one after the other.
ReadConfig(r) ==
    /\ reading[r] = Nothing
    /\ IF r \in Watcher THEN notified[r] > 0 /\ notified' = [notified EXCEPT ![r] = @ - 1]
       ELSE UNCHANGED notified
    /\ reading' = [reading EXCEPT ![r] = config] /\ news' = "read"
    /\ overlapped' = (overlapped \/ \E q \in Reloader : reading[q] # Nothing)
    /\ UNCHANGED <<profiles, config, watching, decision, changes, routes, sessionVars>>

\* It applies what it has read; a file it cannot use leaves the profiles as they are.
Reload(r) ==
    /\ reading[r] # Nothing
    /\ profiles' = IF reading[r] \in {Unusable, Missing} THEN profiles ELSE Loaded(reading[r])
    /\ reading' = [reading EXCEPT ![r] = Nothing]
    /\ UNCHANGED <<config, watching, notified, news, overlapped, decision, changes, routes, sessionVars>>

-----------------------------------------------------------------------------
Profile(id) == CHOOSE p \in profiles : p.id = id
MatchScore(p, task) == Cardinality({i \in DOMAIN task.requires : task.requires[i] \in p.can})
Candidates(task) == {p \in profiles : MatchScore(p, task) > 0}

\* Candidates are listed capability by capability and sorted by score, then by priority.
Listed(p, task) == Min({k \in DOMAIN task.requires : task.requires[k] \in p.can})
Before(p, q, task) ==
    LET key(c) == <<-MatchScore(c, task), -c.priority, Listed(c, task), c.place>>
    IN \E n \in 1..4 : key(p)[n] < key(q)[n] /\ \A m \in 1..(n - 1) : key(p)[m] = key(q)[m]
BestMatch(task) ==
    CHOOSE p \in Candidates(task) : \A q \in Candidates(task) \ {p} : Before(p, q, task)

ExplicitMention(task) ==
    IF task.prefers = Nothing THEN Nothing
    ELSE IF task.prefers \notin Ids(profiles) THEN "orchestrator" ELSE task.prefers

CapabilityMatch(task) == IF Candidates(task) = {} THEN Nothing ELSE BestMatch(task).id

\* Mutation: the agent of the session is not looked up in the registry.
StickyUnseen(task, current) == IF current = Nothing THEN Nothing ELSE session[current].agent

StickySession(task, current) ==
    IF current = Nothing \/ session[current].agent \notin Ids(profiles) THEN Nothing
    ELSE IF ToSet(task.requires) \subseteq Profile(session[current].agent).can
         THEN session[current].agent ELSE Nothing

\* route(): the first strategy that decides, in the order of the priorities.
RouteTask ==
    /\ routes < MaxRoutes /\ routes' = routes + 1
    /\ \E task \in Tasks, current \in {Nothing} \cup {s \in AgentSession : session[s] # Nothing} :
        LET chain == <<ExplicitMention(task), CapabilityMatch(task), StickySession(task, current),
                       "orchestrator">>
            first == Min({i \in 1..4 : chain[i] # Nothing})
        IN decision' = [task |-> task, agent |-> chain[first], among |-> profiles,
                        strategy |-> <<"explicit", "capability", "sticky", "fallback">>[first],
                        isHandoff |-> current # Nothing /\ first # 3]
    /\ UNCHANGED <<registryVars, sessionVars>>

-----------------------------------------------------------------------------
Open(s) == session[s] # Nothing /\ session[s].status = "initializing"

\* createSession() for the agent of a decision.
CreateSession ==
    /\ decision # Nothing
    /\ \E s \in AgentSession :
        /\ session[s] = Nothing
        /\ session' = [session EXCEPT ![s] = [agent |-> decision.agent, status |-> "initializing",
                                              completedAt |-> Nothing, fragments |-> 0]]
        /\ timer' = [timer EXCEPT ![s] = clock + Timeout]
        /\ lastAccess' = [lastAccess EXCEPT ![s] = clock]
    /\ UNCHANGED <<registryVars, clock, cleaned, decision, routes>>

ResetTimeout(s) == [timer EXCEPT ![s] = clock + Timeout]

\* getSession() of a session that is open; of another one it changes nothing.
GetSession(s) ==
    /\ Open(s)
    /\ timer' = ResetTimeout(s)
    /\ lastAccess' = [lastAccess EXCEPT ![s] = clock] /\ cleaned' = cleaned \ {s}
    /\ UNCHANGED <<registryVars, session, clock, decision, routes>>

Ended(s) == [session EXCEPT ![s].status = "completed", ![s].completedAt = clock]

\* endSession(), also of a session that has ended.
EndSession(s) ==
    /\ session[s] # Nothing
    /\ session' = Ended(s) /\ timer' = [timer EXCEPT ![s] = Nothing]
    /\ UNCHANGED <<registryVars, clock, lastAccess, cleaned, decision, routes>>

\* updateWorkingMemory(), whatever the status: beyond the cap the oldest fragment goes. It is no
\* access.
UpdateWorkingMemory(s) ==
    /\ session[s] # Nothing
    /\ session' = [session EXCEPT ![s].fragments = IF @ + 1 > MaxFragments THEN @ ELSE @ + 1]
    /\ UNCHANGED <<registryVars, timer, clock, lastAccess, cleaned, decision, routes>>

HandleSessionTimeout(s) ==
    /\ timer[s] # Nothing /\ clock >= timer[s]
    /\ session' = IF Open(s) THEN Ended(s) ELSE session
    /\ timer' = [timer EXCEPT ![s] = Nothing]
    /\ UNCHANGED <<registryVars, clock, lastAccess, cleaned, decision, routes>>

Cleanup ==
    /\ \E s \in AgentSession : timer[s] # Nothing
    /\ cleaned' = cleaned \cup {s \in AgentSession : timer[s] # Nothing}
    /\ timer' = [s \in AgentSession |-> Nothing]
    /\ UNCHANGED <<registryVars, session, clock, lastAccess, decision, routes>>

\* A timer that is due fires before more time passes.
Tick ==
    /\ clock < MaxClock /\ \A s \in AgentSession : timer[s] # Nothing => clock < timer[s]
    /\ clock' = clock + 1
    /\ UNCHANGED <<registryVars, session, timer, lastAccess, cleaned, decision, routes>>

AgentsNext ==
    \/ ChangeFile \/ ReplaceFile \/ RouteTask \/ CreateSession \/ Cleanup \/ Tick
    \/ \E w \in Watcher : WatchConfig(w) \/ EndWatch(w)
    \/ \E r \in Reloader : ReadConfig(r) \/ Reload(r)
    \/ \E s \in AgentSession : GetSession(s) \/ EndSession(s) \/ UpdateWorkingMemory(s) \/ HandleSessionTimeout(s)

AgentsSpec == AgentsInit /\ [][AgentsNext]_agentsVars

-----------------------------------------------------------------------------
\* Types: the registry has no two profiles of one id, and the window of a session its cap.
AgentsTypes ==
    /\ \A p, q \in profiles : p.id = q.id \/ p.place = q.place => p = q
    /\ \A s \in AgentSession :
        session[s] # Nothing => session[s] \in AgentSessionState /\ session[s].fragments <= MaxFragments

\* Whatever the registry reloads between two decisions, a task goes to an agent that is registered
\* at that time, and if any agent has a required capability, to one that has no fewer of them than
\* any other, unless the task names its agent.
TasksAreMatched ==
    decision # Nothing =>
        LET task == decision.task
            chosen == {p \in decision.among : p.id = decision.agent}
        IN /\ chosen # {}
           /\ task.prefers = Nothing =>
                \A p \in chosen, q \in decision.among : MatchScore(p, task) >= MatchScore(q, task)

\* Once the last change of the file has been read, by a loop or a call of reload(), and the reloads
\* are done, the registry holds the defaults and the agents of the file, unless reloads have
\* overlapped (the one that has read first may be applied last) or the file is unusable; and a
\* change that a loop was told of waits for a loop to read it, whatever else happens to the file. A
\* change is missed, and nobody told, before watchConfig(), when the file was replaced without a
\* "change" event, and once the loop has ended or watches a file that is gone.
RegistryIsCurrent ==
    /\ (~overlapped /\ news = "read" /\ (\A r \in Reloader : reading[r] = Nothing)
            /\ config \notin {Unusable, Missing}) => profiles = Loaded(config)
    /\ news = "announced" => Announced(notified) # {}

\* Every session that is open was retrieved within the timeout and will be ended, unless cleanup()
\* has dropped its timer; a session that has ended has no timer.
SessionsEnd ==
    \A s \in AgentSession :
        /\ Open(s) => \/ s \in cleaned
                      \/ timer[s] # Nothing /\ timer[s] = lastAccess[s] + Timeout /\ clock <= timer[s]
        /\ ~Open(s) => timer[s] = Nothing
        /\ (session[s] # Nothing /\ ~Open(s)) => session[s].completedAt >= lastAccess[s]

\* Agents are registered, chosen and given sessions that end.
AgentsAreRouted == AgentsTypes /\ TasksAreMatched /\ RegistryIsCurrent /\ SessionsEnd
=============================================================================
