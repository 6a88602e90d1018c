-------------------------- MODULE LearningSubstrate --------------------------
(***************************************************************************)
(* Skills and policies induced from solved tasks, and their reuse          *)
(* (src/src/learning/continual-learning-substrate.ts): every operation     *)
(* reads four files, and all but the metrics write the four again. A file  *)
(* is truncated when its write begins; one that cannot be parsed is read   *)
(* as an empty list.                                                       *)
(***************************************************************************)
EXTENDS Naturals, Sequences, SequencesExt, FiniteSets

CONSTANTS
    Client,
    Solved,       \* solved tasks: [task, domain, terms, constraints]
    Torn,
    MaxOperations, MaxCrashes  \* bounds

File == {"skills", "policies", "outcomes", "decisions"}

VARIABLES
    file,      \* file[f]: a list, or Torn
    client,    \* client[c]: what c does, what it has read, which files it has still to read,
               \* to truncate and to write
    induced, decided,  \* history: tasks that were to be induced from, decisions that were made
    disturbed,         \* history: operations have overlapped, or one was cut short
    operations, crashes

vars == <<file, client, induced, decided, disturbed, operations, crashes>>

Nothing == [f \in File |-> <<>>]
Idle == [pc |-> "idle", doing |-> "init", solved |-> CHOOSE s \in Solved : TRUE,
         state |-> Nothing, open |-> {}, left |-> {}]

Init ==
    /\ file = Nothing
    /\ client = [c \in Client |-> Idle]
    /\ induced = {} /\ decided = 0
    /\ disturbed = FALSE
    /\ operations = 0 /\ crashes = 0

Busy == {c \in Client : client[c].pc # "idle"}

Joins(item, domain, terms) == item.domain = domain /\ item.terms \cap terms # {}

\* The half of induceFromSolvedTask() that makes or extends a skill or a policy.
Abstracted(items, domain, terms, task) ==
    LET i == SelectInSeq(items, LAMBDA item : Joins(item, domain, terms))
    IN IF i = 0
       THEN Append(items, [domain |-> domain, version |-> 1, terms |-> terms, tasks |-> {task}])
       ELSE [items EXCEPT ![i].version = @ + 1, ![i].terms = @ \cup terms, ![i].tasks = @ \cup {task}]

Induced(s, r) ==
    [s EXCEPT !.skills = Abstracted(@, r.domain, r.terms, r.task),
              !.policies = Abstracted(@, r.domain, r.constraints, r.task)]

\* decideReuseBeforeFreshSolve(): a policy is looked for with the terms of the task.
Relevant(items, r) == \E item \in ToSet(items) : Joins(item, r.domain, r.terms)
Decided(s, r) ==
    [s EXCEPT !.decisions = Append(@, [attempted |-> Relevant(s.skills, r),
                                       policy |-> Relevant(s.policies, r)])]

\* What an operation writes, from what it has read.
Result(doing, s, r) ==
    CASE doing = "induce" -> Induced(s, r)
      [] doing = "decide" -> Decided(s, r)
      [] doing = "record" -> [s EXCEPT !.outcomes = Append(@, r.task)]
      [] doing = "init" -> s

Begin(c) ==
    /\ client[c].pc = "idle" /\ operations < MaxOperations
    /\ \E doing \in {"init", "induce", "decide", "record"}, r \in Solved :
        /\ client' = [client EXCEPT ![c] = [pc |-> "reading", doing |-> doing, solved |-> r,
                                            state |-> Nothing, open |-> {}, left |-> File]]
        /\ induced' = IF doing = "induce" THEN induced \cup {r} ELSE induced
        /\ decided' = IF doing = "decide" THEN decided + 1 ELSE decided
    /\ operations' = operations + 1
    /\ disturbed' = (disturbed \/ Busy # {})
    /\ UNCHANGED <<file, crashes>>

\* loadState(): four reads at once; with the last of them the result is there.
Read(c) ==
    /\ client[c].pc = "reading"
    /\ \E f \in client[c].left :
        LET s == [client[c].state EXCEPT ![f] = IF file[f] = Torn THEN <<>> ELSE file[f]]
        IN client' = [client EXCEPT ![c] =
            IF client[c].left = {f}
            THEN [@ EXCEPT !.pc = "writing", !.open = File, !.left = File,
                           !.state = Result(client[c].doing, s, client[c].solved)]
            ELSE [@ EXCEPT !.left = @ \ {f}, !.state = s]]
    /\ UNCHANGED <<file, induced, decided, disturbed, operations, crashes>>

\* saveState(): four writes at once, each of two steps.
Truncate(c) ==
    /\ client[c].pc = "writing"
    /\ \E f \in client[c].open :
        /\ file' = [file EXCEPT ![f] = Torn]
        /\ client' = [client EXCEPT ![c].open = @ \ {f}]
    /\ UNCHANGED <<induced, decided, disturbed, operations, crashes>>

Write(c) ==
    /\ client[c].pc = "writing"
    /\ \E f \in client[c].left \ client[c].open :
        /\ file' = [file EXCEPT ![f] = client[c].state[f]]
        /\ client' = [client EXCEPT ![c] = IF client[c].left = {f} THEN Idle ELSE [@ EXCEPT !.left = @ \ {f}]]
    /\ UNCHANGED <<induced, decided, disturbed, operations, crashes>>

\* The process ends. What it has truncated and not written stays so.
Crash ==
    /\ crashes < MaxCrashes /\ crashes' = crashes + 1
    /\ disturbed' = (disturbed \/ Busy # {})
    /\ client' = [c \in Client |-> Idle]
    /\ UNCHANGED <<file, induced, decided, operations>>

Next == (\E c \in Client : Begin(c) \/ Read(c) \/ Truncate(c) \/ Write(c)) \/ Crash

-----------------------------------------------------------------------------
TypeOK ==
    /\ \A f \in File : file[f] # Torn => Len(file[f]) <= MaxOperations
    /\ \A c \in Client : client[c].pc \in {"idle", "reading", "writing"}

\* Operations one after the other, none of them cut short, lose nothing, though each of them
\* writes all files again: every task is in one skill and in one policy of its domain that know
\* all of its terms, and every decision is there, each with the skill that was there for it.
SubstrateIsKept ==
    (Busy = {} /\ ~disturbed) =>
        /\ \A r \in induced :
            /\ \E item \in ToSet(file["skills"]) :
                item.domain = r.domain /\ r.task \in item.tasks /\ r.terms \subseteq item.terms
            /\ \E item \in ToSet(file["policies"]) :
                item.domain = r.domain /\ r.task \in item.tasks /\ r.constraints \subseteq item.terms
        /\ \A item \in ToSet(file["skills"]) : item.version >= Cardinality(item.tasks)
        /\ Len(file["decisions"]) = decided

\* A skill holds tasks that are connected by their terms, whatever overlaps.
SkillsAreCoherent ==
    \A c \in Client : \A item \in ToSet(client[c].state.skills) : \A t \in item.tasks :
        \E r \in Solved : r.task = t /\ r.domain = item.domain
            /\ (Cardinality(item.tasks) > 1 =>
                    \E q \in Solved : q.task \in item.tasks \ {t} /\ q.terms \cap r.terms # {})
=============================================================================
