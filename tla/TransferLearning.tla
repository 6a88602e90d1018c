-------------------------- MODULE TransferLearning --------------------------
(***************************************************************************)
(* Traces of tasks and the skills distilled from them                      *)
(* (src/src/neuronwaves-v2/transfer-learning): an index of traces in       *)
(* memory and in a file, one file per trace, one file per version of a     *)
(* skill, and the active skills in memory, one version per skill. A file   *)
(* is truncated when its write begins.                                     *)
(***************************************************************************)
EXTENDS Naturals, Sequences, SequencesExt, FiniteSets, FiniteSetsExt

CONSTANTS
    Client,
    Task,         \* what a task is like: [signature, result, concepts]
    Signature, Concept,
    Torn, None,
    MaxTraces,    \* traces that stay in the index
    MinOccurrences, MinSuccessPercent,  \* of a signature, to distil a skill
    MaxOperations, MaxCrashes           \* bounds

Draft == 1  \* version 1.0.0, the one every distilled skill has
Version == {Draft, 2}

VARIABLES
    index,      \* the traces that can be found: a sequence of [id, signature, result]
    loaded,     \* the index has been read from its file
    indexFile,  \* its file: a sequence, or Torn
    traceFile,  \* traceFile[i]: [task, parent, children], or Torn; traces are numbered as they are created
    skillFile,  \* skillFile[s][v]: [status, concepts, steps] (steps: the trace it repeats), Torn or None
    active,     \* active[s]: [version, skill], or None
    client,     \* client[c]: what c does and what it has read
    approved,   \* history: <<signature, version, steps>> that were approved
    retired,    \* history: <<signature, version>> deprecated and not approved again since
    disturbed,  \* history: operations have overlapped, or one was cut short
    operations, crashes

vars == <<index, loaded, indexFile, traceFile, skillFile, active, client, approved, retired,
          disturbed, operations, crashes>>
traceVars == <<index, loaded, indexFile, traceFile>>
skillVars == <<skillFile, active, approved, retired>>

Idle == [pc |-> "idle"]

Init ==
    /\ index = <<>> /\ loaded = FALSE /\ indexFile = <<>> /\ traceFile = <<>>
    /\ skillFile = [s \in Signature |-> [v \in Version |-> None]]
    /\ active = [s \in Signature |-> None]
    /\ client = [c \in Client |-> Idle]
    /\ approved = {} /\ retired = {}
    /\ disturbed = FALSE
    /\ operations = 0 /\ crashes = 0

Busy == {c \in Client : client[c].pc # "idle"}

Begin(c, job) ==
    /\ client[c].pc = "idle" /\ operations < MaxOperations
    /\ client' = [client EXCEPT ![c] = job]
    /\ operations' = operations + 1
    /\ disturbed' = (disturbed \/ Busy # {})
    /\ UNCHANGED crashes

Continue(c, job) ==
    /\ client' = [client EXCEPT ![c] = job]
    /\ UNCHANGED <<disturbed, operations, crashes>>

(***************************************************************************)
(* Task traces.                                                            *)
(***************************************************************************)

Entry(i, task) == [id |-> i, signature |-> task.signature, result |-> task.result]

IsIndexed(i) == \E k \in DOMAIN index : index[k].id = i
Readable(i) == i \in DOMAIN traceFile /\ traceFile[i] # Torn

\* loadIndex(): unless the index is loaded, its file is read; a torn one is no index ...
LoadIndex(c) ==
    /\ client[c].pc = "load"
    /\ Continue(c, IF loaded THEN [client[c] EXCEPT !.pc = client[c].then]
                   ELSE [client[c] EXCEPT !.pc = "loading", !.saves = IF indexFile = Torn THEN <<>> ELSE indexFile])
    /\ UNCHANGED <<traceVars, skillVars>>

\* ... and what was read joins what is in memory by then.
IndexLoaded(c) ==
    /\ client[c].pc = "loading"
    /\ loaded' = TRUE
    /\ index' = index \o SelectSeq(client[c].saves, LAMBDA e : ~IsIndexed(e.id))
    /\ Continue(c, [client[c] EXCEPT !.pc = client[c].then])
    /\ UNCHANGED <<indexFile, traceFile, skillVars>>

CreateTrace(c, task, parent) ==
    /\ parent # None => parent \in DOMAIN traceFile
    /\ Begin(c, [pc |-> "load", then |-> "make", task |-> task, parent |-> parent, id |-> None, saves |-> <<>>])
    /\ UNCHANGED <<traceVars, skillVars>>

ClearSession(c) ==
    /\ Begin(c, [pc |-> "load", then |-> "clear", saves |-> <<>>])
    /\ UNCHANGED <<traceVars, skillVars>>

\* createTrace(): the file of the trace is opened ...
MakeTrace(c) ==
    /\ client[c].pc = "make"
    /\ traceFile' = Append(traceFile, Torn)
    /\ Continue(c, [client[c] EXCEPT !.pc = "made", !.id = Len(traceFile) + 1])
    /\ UNCHANGED <<index, loaded, indexFile, skillVars>>

\* ... and written; then the trace is in the index.
TraceMade(c) ==
    /\ client[c].pc = "made"
    /\ traceFile' = [traceFile EXCEPT ![client[c].id] =
                        [task |-> client[c].task, parent |-> client[c].parent, children |-> {}]]
    /\ index' = Append(index, Entry(client[c].id, client[c].task))
    /\ Continue(c, [client[c] EXCEPT !.pc = "save", !.then = "link"])
    /\ UNCHANGED <<loaded, indexFile, skillVars>>

\* saveIndex(): what the index is when its file is opened ...
SaveIndex(c) ==
    /\ client[c].pc = "save"
    /\ indexFile' = Torn
    /\ Continue(c, [client[c] EXCEPT !.pc = "saving", !.saves = index])
    /\ UNCHANGED <<index, loaded, traceFile, skillVars>>

\* ... is what the file has in the end.
IndexSaved(c) ==
    /\ client[c].pc = "saving"
    /\ indexFile' = client[c].saves
    /\ Continue(c, IF client[c].then = "done" THEN Idle ELSE [client[c] EXCEPT !.pc = client[c].then])
    /\ UNCHANGED <<index, loaded, traceFile, skillVars>>

\* addChildTrace(): the file of the parent is read and written again.
LinkParent(c) ==
    /\ client[c].pc = "link"
    /\ IF client[c].parent # None /\ IsIndexed(client[c].parent) /\ Readable(client[c].parent)
       THEN /\ traceFile' = [traceFile EXCEPT ![client[c].parent] = Torn]
            /\ Continue(c, [client[c] EXCEPT !.pc = "linking", !.saves = traceFile[client[c].parent]])
       ELSE /\ Continue(c, [client[c] EXCEPT !.pc = "enforce"])
            /\ UNCHANGED traceFile
    /\ UNCHANGED <<index, loaded, indexFile, skillVars>>

ParentLinked(c) ==
    /\ client[c].pc = "linking"
    /\ traceFile' = [traceFile EXCEPT ![client[c].parent] =
                        [client[c].saves EXCEPT !.children = @ \cup {client[c].id}]]
    /\ Continue(c, [client[c] EXCEPT !.pc = "enforce"])
    /\ UNCHANGED <<index, loaded, indexFile, skillVars>>

\* enforceMaxTraces(): the oldest traces leave the index; their files stay.
Newest == SelectSeq(index, LAMBDA e : Cardinality({k \in DOMAIN index : index[k].id > e.id}) < MaxTraces)
EnforceMax(c) ==
    /\ client[c].pc = "enforce"
    /\ index' = Newest
    /\ Continue(c, IF index' = index THEN Idle ELSE [client[c] EXCEPT !.pc = "save", !.then = "done"])
    /\ UNCHANGED <<loaded, indexFile, traceFile, skillVars>>

ClearIndex(c) ==
    /\ client[c].pc = "clear"
    /\ index' = <<>>
    /\ Continue(c, [client[c] EXCEPT !.pc = "save", !.then = "done"])
    /\ UNCHANGED <<loaded, indexFile, traceFile, skillVars>>

(***************************************************************************)
(* Skills. A skill is saved by opening its file and writing it; then the   *)
(* operation may change the active skills.                                 *)
(***************************************************************************)

Skill(status, concepts, steps) == [status |-> status, concepts |-> concepts, steps |-> steps]

\* loadSkill(): the active version first, then the file.
Loaded(s, v) ==
    IF active[s] # None /\ active[s].version = v THEN active[s].skill
    ELSE IF skillFile[s][v] = Torn THEN None
    ELSE skillFile[s][v]

SkillJob(what, s, v, skill) ==
    [pc |-> "open skill", what |-> what, signature |-> s, version |-> v, skill |-> skill]

\* distillSkills(): for a signature that came often enough and mostly succeeded, the newest
\* success is what the skill repeats. The skill is a draft of version 1.0.0, whatever was there.
Of(s) == {i \in {index[k].id : k \in DOMAIN index} : Readable(i) /\ traceFile[i].task.signature = s}
Successes(s) == {i \in Of(s) : traceFile[i].task.result = "success"}
Distillable(s) ==
    /\ Cardinality(Of(s)) >= MinOccurrences
    /\ Successes(s) # {} /\ 100 * Cardinality(Successes(s)) >= MinSuccessPercent * Cardinality(Of(s))
Distilled(s) == Skill("draft", UNION {traceFile[i].task.concepts : i \in Of(s)}, Max(Successes(s)))

DistillSkill(c, s) ==
    /\ loaded /\ Distillable(s)
    /\ Begin(c, SkillJob("draft", s, Draft, Distilled(s)))
    /\ UNCHANGED <<traceVars, skillVars>>

\* saveSkill() with a new version of a skill, made by hand.
SaveNewVersion(c, s) ==
    /\ skillFile[s][2] = None /\ skillFile[s][Draft] \notin {None, Torn}
    /\ Begin(c, SkillJob("draft", s, 2, Skill("draft", skillFile[s][Draft].concepts, 0)))
    /\ UNCHANGED <<traceVars, skillVars>>

\* approveSkill(), with no look at an evaluation: what was loaded is active.
ApproveSkill(c, s, v) ==
    /\ Loaded(s, v) # None
    /\ Begin(c, SkillJob("approve", s, v, [Loaded(s, v) EXCEPT !.status = "active"]))
    /\ approved' = approved \cup {<<s, v, Loaded(s, v).steps>>}
    /\ retired' = retired \ {<<s, v>>}
    /\ UNCHANGED <<traceVars, skillFile, active>>

DeprecateSkill(c, s, v) ==
    /\ Loaded(s, v) # None
    /\ Begin(c, SkillJob("deprecate", s, v, [Loaded(s, v) EXCEPT !.status = "deprecated"]))
    /\ UNCHANGED <<traceVars, skillVars>>

\* Mutation: a deprecated skill stays in memory.
ActiveKept(job) ==
    CASE job.what = "approve" -> [version |-> job.version, skill |-> job.skill]
      [] OTHER -> active[job.signature]

\* saveSkill(): the file is opened ...
OpenSkill(c) ==
    /\ client[c].pc = "open skill"
    /\ skillFile' = [skillFile EXCEPT ![client[c].signature][client[c].version] = Torn]
    /\ Continue(c, [client[c] EXCEPT !.pc = "saving skill"])
    /\ UNCHANGED <<traceVars, active, approved, retired>>

\* ... and written. An approved version replaces the active one of its skill, whichever that is,
\* and the deprecation of a version removes it, whichever it is.
ActiveAfter(job) ==
    CASE job.what = "approve" -> [version |-> job.version, skill |-> job.skill]
      [] job.what = "deprecate" -> None
      [] OTHER -> active[job.signature]

SkillSaved(c) ==
    /\ client[c].pc = "saving skill"
    /\ LET job == client[c]
       IN /\ skillFile' = [skillFile EXCEPT ![job.signature][job.version] = job.skill]
          /\ active' = [active EXCEPT ![job.signature] = ActiveAfter(job)]
          /\ retired' = IF job.what = "deprecate" THEN retired \cup {<<job.signature, job.version>>} ELSE retired
    /\ Continue(c, Idle)
    /\ UNCHANGED <<traceVars, approved>>

\* The process ends and starts again: what is in memory is gone, a file that was open is torn.
Crash ==
    /\ crashes < MaxCrashes /\ crashes' = crashes + 1
    /\ index' = <<>> /\ loaded' = FALSE
    /\ active' = [s \in Signature |-> None]
    /\ client' = [c \in Client |-> Idle]
    /\ disturbed' = (disturbed \/ Busy # {})
    /\ UNCHANGED <<indexFile, traceFile, skillFile, approved, retired, operations>>

Step(c) ==
    \/ LoadIndex(c) \/ IndexLoaded(c) \/ MakeTrace(c) \/ TraceMade(c) \/ SaveIndex(c) \/ IndexSaved(c)
    \/ LinkParent(c) \/ ParentLinked(c) \/ EnforceMax(c) \/ ClearIndex(c) \/ OpenSkill(c) \/ SkillSaved(c)

Start(c) ==
    \/ \E task \in Task, parent \in 1..MaxOperations \cup {None} : CreateTrace(c, task, parent)
    \/ ClearSession(c)
    \/ \E s \in Signature : DistillSkill(c, s) \/ SaveNewVersion(c, s)
    \/ \E s \in Signature, v \in Version : ApproveSkill(c, s, v) \/ DeprecateSkill(c, s, v)

Next == Crash \/ \E c \in Client : Step(c) \/ Start(c)

Spec == Init /\ [][Next]_vars

(***************************************************************************)
(* Properties.                                                             *)
(***************************************************************************)

TypeOK ==
    /\ \A k \in DOMAIN index : index[k].id \in DOMAIN traceFile
    /\ \A s \in Signature, v \in Version :
        skillFile[s][v] \notin {Torn, None} =>
            skillFile[s][v].status \in {"draft", "active", "deprecated"} /\ skillFile[s][v].concepts \subseteq Concept
    /\ \A c \in Client : client[c].pc \in {"idle", "load", "loading", "make", "made", "save", "saving", "link", "linking",
                                           "enforce", "clear", "open skill", "saving skill"}

\* tryActivate() uses a skill when its status is active and its concepts are there.
Activates(s, v, concepts) ==
    Loaded(s, v) # None /\ Loaded(s, v).status = "active" /\ Loaded(s, v).concepts \subseteq concepts

\* What a skill does when it activates, somebody approved, and nobody has deprecated since. Calls
\* that overlap decide by the order of their writes.
ActivatedWasApproved ==
    \A s \in Signature, v \in Version :
        Activates(s, v, Concept) =>
            /\ <<s, v, Loaded(s, v).steps>> \in approved
            /\ ~disturbed => <<s, v>> \notin retired

\* What the index has, in memory and on disk, is in a readable file, at whatever step a process
\* ends and however calls overlap; only a trace that gets a child later can be lost again.
IndexHasFiles ==
    LET entries == ToSet(index) \cup (IF indexFile = Torn THEN {} ELSE ToSet(indexFile))
    IN \A e \in entries :
        IF Readable(e.id) THEN Entry(e.id, traceFile[e.id].task) = e
        ELSE e.id < Len(traceFile)

\* When calls do not overlap and none was cut short, the file of the index is the index, which is
\* no longer than allowed, and a trace in it knows its children.
TracesAreKept ==
    ~disturbed /\ Busy = {} =>
        /\ Len(index) <= MaxTraces
        /\ loaded => indexFile = index
        /\ \A e \in ToSet(index) : \A i \in DOMAIN traceFile :
            traceFile[i].parent = e.id => i \in traceFile[e.id].children

TransfersAreSound == ActivatedWasApproved /\ IndexHasFiles /\ TracesAreKept
=============================================================================
