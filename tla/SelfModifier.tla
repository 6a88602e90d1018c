------------------------------ MODULE SelfModifier ------------------------------
(***************************************************************************)
(* The modifications the program makes to its own components: proposals    *)
(* from metrics or callers, their approved application, the measurement of *)
(* what they brought, which takes a minute, and their rollback. Proposals  *)
(* and modifications are kept by the millisecond they are made in. The     *)
(* metrics themselves are left out: which strategies fire, and whether a   *)
(* measurement is a loss, is chosen.                                       *)
(***************************************************************************)
EXTENDS Integers, FiniteSets, Sequences, SequencesExt

CONSTANTS
    Caller, Key, Value,
    Strategies,             \* what the strategies of a component would change: a sequence of [key, to]
    MaxActive,              \* maxActiveModifications
    None, Torn,
    MaxTime, MaxOps, MaxMeasures, MaxCrashes

VARIABLES
    active, initialized, ms,       \* the process, whether the state was loaded, the time
    store,                         \* [proposals, mods, values]
    call,                          \* what each caller does once the state is loaded, and what it has read
    measuring,                     \* the measurements under way, with the modification as it was
    stateFile, saving, overlapped, \* the file, the writes of it under way, whether two have overlapped
    lastSaved, orderly, revived,   \* history: the last state saved; whether changes were taken back last first;
                                   \* how many were active again after they had been rolled back
    ops, measures, crashes

modifierVars == <<active, initialized, ms, store, call, measuring, stateFile, saving, overlapped,
                  lastSaved, orderly, revived, ops, measures, crashes>>

Empty == [proposals |-> <<>>, mods |-> <<>>, values |-> [k \in Key |-> None]]

With(map, id, entry) == [i \in DOMAIN map \cup {id} |-> IF i = id THEN entry ELSE map[i]]

Active(s) == {id \in DOMAIN s.mods : s.mods[id].status = "active"}
Newest(ids) == CHOOSE id \in ids : \A other \in ids : other <= id
ActiveOf(s, key) == {id \in Active(s) : s.mods[id].proposal.key = key}

------------------------------------------------------------------------------
(* Changes of the state *)

\* The value of now is what a rollback will restore, whenever the proposal is applied.
ProposeModification(s, key, to) ==
    [s EXCEPT !.proposals = With(@, ms, [key |-> key, from |-> s.values[key], to |-> to])]

\* All strategies that fire do so in one millisecond.
EvaluateStrategies(s, fired) == FoldLeft(LAMBDA t, f : ProposeModification(t, f.key, f.to), s, fired)

\* One more than configured.
HasRoomForOneMore(s) == Cardinality(Active(s)) <= MaxActive
HasRoom(s) == Cardinality(Active(s)) < MaxActive

CanApply(s, id) == id \in DOMAIN s.proposals /\ HasRoom(s)

\* A proposal stays one and may be applied again.
ApplyModification(s, id) ==
    LET proposal == s.proposals[id]
    IN  [s EXCEPT !.values[proposal.key] = proposal.to,
                  !.mods = With(@, ms, [proposal |-> proposal, status |-> "active"])]

\* The modification is marked, and its value stays.
MarkRolledBack(s, id) == [s EXCEPT !.mods[id].status = "rolled_back"]
RollbackModification(s, id) ==
    LET proposal == s.mods[id].proposal
    IN  [s EXCEPT !.values[proposal.key] = proposal.from, !.mods[id].status = "rolled_back"]

------------------------------------------------------------------------------
(* Saving *)

Starts(s, again) == [state |-> s, again |-> again]

\* The state is serialised at once, and the file emptied before it is written.
SaveState(s, again) ==
    /\ overlapped' = (overlapped \/ saving # {})
    /\ saving' = saving \cup {Starts(s, again)}
    /\ stateFile' = Torn /\ lastSaved' = s

NotSaved == UNCHANGED <<stateFile, saving, overlapped, lastSaved>>

\* A measurement that ends in a rollback saves a second time, when the rollback has.
SaveEnds ==
    /\ active
    /\ \E w \in saving :
          IF w.again
          THEN /\ saving' = (saving \ {w}) \cup {Starts(store, FALSE)}
               /\ overlapped' = (overlapped \/ saving # {w})
               /\ stateFile' = Torn /\ lastSaved' = store
          ELSE /\ saving' = saving \ {w}
               /\ stateFile' \in IF overlapped THEN {w.state, Torn} ELSE {w.state}
               /\ UNCHANGED <<overlapped, lastSaved>>
    /\ UNCHANGED <<active, initialized, ms, store, call, measuring, orderly, revived, ops, measures, crashes>>

------------------------------------------------------------------------------
(* Calls *)

Metric(fired) == [kind |-> "metric", fired |-> fired]
Propose(key, to) == [kind |-> "propose", key |-> key, to |-> to]
Apply(id) == [kind |-> "apply", id |-> id]

\* What a call does to the state it finds, in one go. A proposal alone is not saved.
Do(s, op) ==
    \/ /\ op.kind = "metric"
       /\ store' = EvaluateStrategies(s, op.fired)
       /\ SaveState(store', FALSE)
       /\ UNCHANGED orderly
    \/ /\ op.kind = "propose"
       /\ store' = ProposeModification(s, op.key, op.to)
       /\ NotSaved /\ UNCHANGED orderly
    \/ /\ op.kind = "apply" /\ CanApply(s, op.id)
       /\ store' = ApplyModification(s, op.id)
       /\ SaveState(store', FALSE)
       /\ orderly' = (/\ orderly /\ ms \notin DOMAIN s.mods
                      /\ s.values[s.proposals[op.id].key] = s.proposals[op.id].from)
    \/ /\ op.kind = "apply" /\ ~CanApply(s, op.id)
       /\ store' = s /\ NotSaved /\ UNCHANGED orderly

Unread == <<>>

Begins(c) == active /\ call[c] = None /\ ops < MaxOps /\ ops' = ops + 1

\* The first calls load the state, each for itself ...
Call(c, op) ==
    /\ Begins(c)
    /\ IF initialized
       THEN Do(store, op) /\ UNCHANGED call
       ELSE call' = [call EXCEPT ![c] = [op |-> op, read |-> Unread]] /\ UNCHANGED <<store, orderly>> /\ NotSaved
    /\ UNCHANGED <<active, initialized, ms, measuring, revived, measures, crashes>>

\* ... read the file as it is then ...
ReadState(c) ==
    /\ active /\ call[c] # None /\ call[c].read = Unread
    /\ call' = [call EXCEPT ![c].read = <<stateFile>>]
    /\ UNCHANGED <<active, initialized, ms, store, measuring, stateFile, saving, overlapped, lastSaved,
                   orderly, revived, ops, measures, crashes>>

\* ... and go on from what they have read, whatever others have done and saved by then.
Initialized(c) ==
    /\ active /\ call[c] # None /\ call[c].read # Unread
    /\ initialized' = TRUE
    /\ LET read == Head(call[c].read)
       IN  Do(IF read \in {None, Torn} THEN store ELSE read, call[c].op)
    /\ call' = [call EXCEPT ![c] = None]
    /\ UNCHANGED <<active, ms, measuring, revived, ops, measures, crashes>>

\* Rollbacks and measurements load nothing.
Rollback(c, id) ==
    /\ Begins(c) /\ id \in DOMAIN store.mods
    /\ store' = RollbackModification(store, id)
    /\ orderly' = (orderly /\ id \in Active(store)
                           /\ id = Newest(ActiveOf(store, store.mods[id].proposal.key)))
    /\ SaveState(store', FALSE)
    /\ UNCHANGED <<active, initialized, ms, call, measuring, revived, measures, crashes>>

MeasureOutcome(id) ==
    /\ active /\ measures < MaxMeasures /\ measures' = measures + 1
    /\ id \in DOMAIN store.mods
    /\ measuring' = measuring \cup {[id |-> id, mod |-> store.mods[id]]}
    /\ UNCHANGED <<active, initialized, ms, store, call, stateFile, saving, overlapped, lastSaved,
                   orderly, revived, ops, crashes>>

\* The modification is written back as it was a minute ago, and rolled back if it was a loss.
Measured(m, loss) ==
    /\ active /\ m \in measuring
    /\ measuring' = measuring \ {m}
    /\ LET written == [store EXCEPT !.mods = With(@, m.id, m.mod)]
           known == m.id \in DOMAIN store.mods /\ store.mods[m.id] = m.mod
           last == /\ m.mod.status = "active"
                   /\ m.id = Newest(ActiveOf(written, m.mod.proposal.key))
       IN  /\ store' = IF loss THEN RollbackModification(written, m.id) ELSE written
           /\ orderly' = (orderly /\ known /\ (loss => last))
           /\ revived' = IF m.mod.status = "active" /\ m.id \notin Active(store) THEN revived + 1 ELSE revived
           /\ SaveState(store', loss)
    /\ UNCHANGED <<active, initialized, ms, call, ops, measures, crashes>>

------------------------------------------------------------------------------
NextMs ==
    /\ ms < MaxTime /\ ms' = ms + 1
    /\ UNCHANGED <<active, initialized, store, call, measuring, stateFile, saving, overlapped, lastSaved,
                   orderly, revived, ops, measures, crashes>>

\* A write that is cut off leaves the file empty.
Crash ==
    /\ active /\ crashes < MaxCrashes /\ crashes' = crashes + 1
    /\ active' = FALSE /\ initialized' = FALSE /\ store' = Empty
    /\ call' = [c \in Caller |-> None] /\ measuring' = {} /\ saving' = {}
    /\ UNCHANGED <<ms, stateFile, overlapped, lastSaved, orderly, revived, ops, measures>>

Restart ==
    /\ ~active /\ active' = TRUE
    /\ UNCHANGED <<initialized, ms, store, call, measuring, stateFile, saving, overlapped, lastSaved,
                   orderly, revived, ops, measures, crashes>>

ModifierInit ==
    /\ active = TRUE /\ initialized = FALSE /\ ms = 0
    /\ store = Empty /\ call = [c \in Caller |-> None] /\ measuring = {}
    /\ stateFile = None /\ saving = {} /\ overlapped = FALSE /\ lastSaved = None
    /\ orderly = TRUE /\ revived = 0 /\ ops = 0 /\ measures = 0 /\ crashes = 0

ModifierNext ==
    \/ \E c \in Caller :
          \/ \E n \in 1 .. Len(Strategies) : Call(c, Metric(SubSeq(Strategies, 1, n)))
          \/ \E key \in Key, to \in Value : Call(c, Propose(key, to))
          \/ \E id \in 0 .. MaxTime : Call(c, Apply(id)) \/ Rollback(c, id)
          \/ ReadState(c) \/ Initialized(c)
    \/ \E id \in 0 .. MaxTime : MeasureOutcome(id)
    \/ \E m \in measuring, loss \in BOOLEAN : Measured(m, loss)
    \/ SaveEnds \/ NextMs \/ Crash \/ Restart

------------------------------------------------------------------------------
\* No more modifications are active than configured, but for those that a measurement has written
\* back after their rollback. (applyModification, measureOutcome)
ActiveIsBounded == Cardinality(Active(store)) <= MaxActive + revived

\* As long as the modifications of a property are applied to the value they were proposed for and
\* taken back last first, its value is that of the last one active, and without one what it was
\* in the beginning, through loads, restarts and overlapping calls. (rollbackModification)
ValuesAgree ==
    orderly => \A key \in Key :
        store.values[key] = LET ids == ActiveOf(store, key)
                            IN  IF ids = {} THEN None ELSE store.mods[Newest(ids)].proposal.to

\* While no two writes overlap, the file is what was saved last, or was cut off by a crash.
StateIsSaved ==
    ~overlapped /\ saving = {} /\ lastSaved # None => stateFile = lastSaved \/ (crashes > 0 /\ stateFile = Torn)

ModificationsAreSound == ActiveIsBounded /\ ValuesAgree /\ StateIsSaved
=================================================================================
