--------------------------- MODULE VersionedStorage ---------------------------
(***************************************************************************)
(* src/src/learning/versioned-storage.ts: one resource directory with a    *)
(* directory per version, versions.json (the history, trimmed to           *)
(* maxVersions) and a symlink "current". Clients save and roll back, one   *)
(* await at a time; a crash may fall between any two of them. Each write   *)
(* of a file is atomic (AtomicFile.write renames a temporary file).        *)
(*                                                                         *)
(* Versions are numbers: the automatic one is the last one plus one.       *)
(***************************************************************************)
EXTENDS Naturals, Sequences, SequencesExt

CONSTANTS
    Client,            \* callers that may be in the storage at the same time
    MaxVersion,        \* version numbers in use (bound)
    MaxVersions,       \* VersionedStorageConfig.maxVersions
    ExplicitVersions,  \* do callers pass options.version?
    ExplicitTargets,   \* do callers pass options.toVersion?
    Deletes,           \* do callers delete the resource?
    MaxCrashes         \* how many times a client may end (bound)

Version == 1..MaxVersion
NoVersion == 0

VARIABLES
    data,     \* versions whose data.json exists
    history,  \* versions.json: [version, previous, rolledBackTo]
    link,     \* target of the symlink "current", NoVersion if there is none
    job,      \* job[c]: what client c does next, the history it has read and
              \* the version it is saving or rolling back to
    crashes

disk == <<data, history, link>>
vars == <<disk, job, crashes>>

Entry(v, p) == [version |-> v, previous |-> p, rolledBackTo |-> NoVersion]
LastVersion(h) == IF h = <<>> THEN NoVersion ELSE Last(h).version

Idle == [pc |-> "idle", read |-> <<>>, target |-> NoVersion]

Init ==
    /\ data = {}
    /\ history = <<>>
    /\ link = NoVersion
    /\ job = [c \in Client |-> Idle]
    /\ crashes = 0

At(c, label) == job[c].pc = label
Goto(c, label) == job' = [job EXCEPT ![c].pc = label]
Begin(c, label, v) == job' = [job EXCEPT ![c] = [pc |-> label, read |-> history, target |-> v]]
Finish(c) == job' = [job EXCEPT ![c] = Idle]

\* save(): reads the history and chooses the version.
NewVersions(h) ==
    (IF LastVersion(h) < MaxVersion THEN {LastVersion(h) + 1} ELSE {})
        \cup (IF ExplicitVersions THEN Version ELSE {})

BeginSave(c) ==
    /\ At(c, "idle")
    /\ \E v \in NewVersions(history) : Begin(c, "save data", v)
    /\ UNCHANGED <<disk, crashes>>

SaveData(c) ==
    /\ At(c, "save data")
    /\ data' = data \cup {job[c].target}
    /\ Goto(c, "save history")
    /\ UNCHANGED <<history, link, crashes>>

\* The new entry is pushed and the oldest ones are shifted out.
Trimmed(h) == IF Len(h) > MaxVersions THEN SubSeq(h, Len(h) - MaxVersions + 1, Len(h)) ELSE h

PushVersion(h, v) == Trimmed(Append(h, Entry(v, LastVersion(h))))

SaveHistory(c) ==
    /\ At(c, "save history")
    /\ history' = PushVersion(job[c].read, job[c].target)
    /\ Goto(c, "save unlink")
    /\ UNCHANGED <<data, link, crashes>>

\* rollback(): refuses with fewer than two entries, without a target, and if
\* the target's data cannot be loaded.
RollbackTargets(h) ==
    IF Len(h) < 2 THEN {}
    ELSE ({Last(h).previous} \cup (IF ExplicitTargets THEN Version ELSE {})) \ {NoVersion}

BeginRollback(c) ==
    /\ At(c, "idle")
    /\ \E v \in RollbackTargets(history) : Begin(c, "rollback verify", v)
    /\ UNCHANGED <<disk, crashes>>

VerifyTarget(c) ==
    /\ At(c, "rollback verify")
    /\ IF job[c].target \in data THEN Goto(c, "rollback unlink") ELSE Finish(c)
    /\ UNCHANGED <<disk, crashes>>

\* Both operations replace the symlink by unlink and symlink. symlink fails if
\* another client has made the link meanwhile, and the operation throws.
Unlink(c) ==
    /\ At(c, "save unlink") \/ At(c, "rollback unlink")
    /\ link' = NoVersion
    /\ Goto(c, IF At(c, "save unlink") THEN "save link" ELSE "rollback link")
    /\ UNCHANGED <<data, history, crashes>>

Symlink(c) ==
    /\ At(c, "save link") \/ At(c, "rollback link")
    /\ link' = IF link = NoVersion THEN job[c].target ELSE link
    /\ IF link = NoVersion /\ At(c, "rollback link") THEN Goto(c, "rollback history") ELSE Finish(c)
    /\ UNCHANGED <<data, history, crashes>>

\* Mutation: the entry of the target is marked.
MarkTarget(h, v) ==
    [i \in 1..Len(h) |->
        IF h[i].version = v THEN [h[i] EXCEPT !.rolledBackTo = v] ELSE h[i]]

\* rollback() marks the entries of the version it rolled back.
MarkRolledBack(h, v) ==
    [i \in 1..Len(h) |->
        IF h[i].version = Last(h).version THEN [h[i] EXCEPT !.rolledBackTo = v] ELSE h[i]]

RollbackHistory(c) ==
    /\ At(c, "rollback history")
    /\ history' = MarkRolledBack(job[c].read, job[c].target)
    /\ Finish(c)
    /\ UNCHANGED <<data, link, crashes>>

\* delete(): one synchronous call removes the directory.
Delete(c) ==
    /\ Deletes
    /\ At(c, "idle")
    /\ data' = {} /\ history' = <<>> /\ link' = NoVersion
    /\ UNCHANGED <<job, crashes>>

\* A client ends in the middle of an operation; what is on disk stays.
Crash(c) ==
    /\ ~At(c, "idle")
    /\ crashes < MaxCrashes
    /\ crashes' = crashes + 1
    /\ Finish(c)
    /\ UNCHANGED disk

Next ==
    \E c \in Client :
        \/ BeginSave(c) \/ SaveData(c) \/ SaveHistory(c)
        \/ BeginRollback(c) \/ VerifyTarget(c) \/ RollbackHistory(c)
        \/ Unlink(c) \/ Symlink(c)
        \/ Delete(c) \/ Crash(c)

Spec == Init /\ [][Next]_vars

\* No operation is under way and none was cut short.
Quiet == crashes = 0 /\ \A c \in Client : At(c, "idle")

-----------------------------------------------------------------------------
TypeOK ==
    /\ data \subseteq Version
    /\ history \in Seq([version : Version, previous : Version \cup {NoVersion},
                        rolledBackTo : Version \cup {NoVersion}])
    /\ Len(history) <= MaxVersions
    /\ link \in Version \cup {NoVersion}
    /\ \A c \in Client :
        /\ job[c].pc \in {"idle", "save data", "save history", "save unlink", "save link",
                          "rollback verify", "rollback unlink", "rollback link",
                          "rollback history"}
        /\ job[c].target \in Version \cup {NoVersion}
        /\ Len(job[c].read) <= MaxVersions
    /\ crashes \in 0..MaxCrashes

\* Whatever clients interleave and wherever they crash, "current" and every
\* entry of the history name a version whose data can be loaded: data is
\* written first, and rollback() verifies its target.
DataComesFirst ==
    /\ link # NoVersion => link \in data
    /\ \A i \in 1..Len(history) : history[i].version \in data

\* With one client the history is a chain: each entry names its predecessor,
\* and no version occurs twice, over crashes, retried saves and trimming.
HistoryIsAChain ==
    /\ \A i \in 2..Len(history) : history[i].previous = history[i - 1].version
    /\ IsInjective([i \in 1..Len(history) |-> history[i].version])

\* Between operations of one client that never crashed, the symlink is where
\* the last entry of the history says: at its version, or at the version it
\* was rolled back to.
LinkMatchesHistory ==
    Quiet =>
        link = IF history = <<>> THEN NoVersion
               ELSE IF Last(history).rolledBackTo = NoVersion THEN Last(history).version
               ELSE Last(history).rolledBackTo

\* The history, the data and the link of a stored resource agree.
VersionsAgree ==
    /\ TypeOK
    /\ HistoryIsAChain /\ LinkMatchesHistory /\ DataComesFirst
=============================================================================
