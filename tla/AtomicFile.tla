------------------------------ MODULE AtomicFile ------------------------------
(***************************************************************************)
(* The advisory lock of src/src/utils/atomic-file.ts around one path.      *)
(* Each process has one AtomicFile, with its own map of the locks it       *)
(* believes it holds; the lock itself is a file created with flag wx.      *)
(* Calls of one process interleave at every await; its file operations are *)
(* completed in the order in which they take effect. Time is discrete: the *)
(* age of a map entry and the time a call has waited advance with Tick.    *)
(***************************************************************************)
EXTENDS Naturals, FiniteSets

CONSTANTS
    Process,      \* processes that use the path
    Call,         \* calls that may be in progress at the same time
    ProcessOf,    \* ProcessOf[c]: the process that makes call c
    Kind,         \* Kind[c]: "write", "append", "delete" or "update"
    LockTimeout,  \* lockTimeoutMs, in ticks
    SlowHolders,  \* may a call hold the lock for longer than lockTimeoutMs?
    IOFails,      \* may the body of a call throw?
    MaxCrashes,   \* how many times a process may end (bound)
    None

ASSUME ConstantsAssumption ==
    /\ ProcessOf \in [Call -> Process]
    /\ Kind \in [Call -> {"write", "append", "delete", "update"}]
    /\ LockTimeout \in Nat \ {0}
    /\ SlowHolders \in BOOLEAN /\ IOFails \in BOOLEAN
    /\ MaxCrashes \in Nat
    /\ None \notin Process /\ None \notin Nat

VARIABLES
    lockFile,  \* process that created the .lock file, None if there is none
    entry,     \* entry[p]: age of p's entry in this.locks, None if there is none
    pc,        \* where each call is
    inner,     \* inner[c]: c is in the write() that update() makes
    waited,    \* waited[c]: time since acquireLock began, 0 outside of it
    content,   \* calls whose effect the file shows
    seen,      \* seen[c]: content that update() has read, {} when it needs it no more
    crashes

vars == <<lockFile, entry, pc, inner, waited, content, seen, crashes>>

\* c has gone through acquireLock and not through releaseLock; an update() is
\* still in the outer withLock while its write() waits.
Working(c) == pc[c] \in {"inside", "leaving", "forgetting"}
Holds(c) == Working(c) \/ inner[c]
EntryOf(c) == entry[ProcessOf[c]]

Init ==
    /\ lockFile = None
    /\ entry = [p \in Process |-> None]
    /\ pc = [c \in Call |-> "idle"]
    /\ inner = [c \in Call |-> FALSE]
    /\ waited = [c \in Call |-> 0]
    /\ content = {}
    /\ seen = [c \in Call |-> {}]
    /\ crashes = 0

Goto(c, label) == pc' = [pc EXCEPT ![c] = label]

\* withLock begins: acquireLock starts its clock.
Begin(c) ==
    /\ pc[c] = "idle"
    /\ Goto(c, "polling")
    /\ UNCHANGED <<lockFile, entry, inner, waited, content, seen, crashes>>

\* A turn of acquireLock's loop.
Polls(c) == pc[c] = "polling" /\ waited[c] < LockTimeout

\* No entry of ours: the lock file is to be created.
TryToCreate(c) ==
    /\ Polls(c)
    /\ EntryOf(c) = None
    /\ Goto(c, "creating")
    /\ UNCHANGED <<lockFile, entry, inner, waited, content, seen, crashes>>

\* An earlier unlink of this process has not been completed yet.
Unlinking(p) == \E d \in Call : ProcessOf[d] = p /\ pc[d] \in {"breaking", "forgetting"}

\* Mutation: the lock file is written without wx.
AcquireWithoutExclusion(c) ==
    /\ pc[c] = "creating"
    /\ ~Unlinking(ProcessOf[c])
    /\ lockFile' = ProcessOf[c]
    /\ entry' = [entry EXCEPT ![ProcessOf[c]] = 0]
    /\ waited' = [waited EXCEPT ![c] = 0]
    /\ Goto(c, "inside")
    /\ UNCHANGED <<inner, content, seen, crashes>>

\* The wx write succeeds, and the map gets our entry.
Acquire(c) ==
    /\ pc[c] = "creating"
    /\ ~Unlinking(ProcessOf[c])
    /\ lockFile = None
    /\ lockFile' = ProcessOf[c]
    /\ entry' = [entry EXCEPT ![ProcessOf[c]] = 0]
    /\ waited' = [waited EXCEPT ![c] = 0]
    /\ Goto(c, "inside")
    /\ UNCHANGED <<inner, content, seen, crashes>>

\* The wx write fails: retry after a delay.
AcquireFails(c) ==
    /\ pc[c] = "creating"
    /\ lockFile # None
    /\ Goto(c, "polling")
    /\ UNCHANGED <<lockFile, entry, inner, waited, content, seen, crashes>>

\* Our entry is older than the timeout: whatever lock file is there is
\* unlinked ...
BreakStale(c) ==
    /\ Polls(c)
    /\ EntryOf(c) # None
    /\ EntryOf(c) > LockTimeout
    /\ lockFile # None
    /\ lockFile' = None
    /\ Goto(c, "breaking")
    /\ UNCHANGED <<entry, inner, waited, content, seen, crashes>>

\* ... and the entry deleted, when the unlink has returned.
ForgetBroken(c) ==
    /\ pc[c] = "breaking"
    /\ entry' = [entry EXCEPT ![ProcessOf[c]] = None]
    /\ Goto(c, "polling")
    /\ UNCHANGED <<lockFile, inner, waited, content, seen, crashes>>

\* Mutation: the write() inside update() waits without a limit.
GiveUpOutsideOnly(c) ==
    /\ pc[c] = "polling"
    /\ waited[c] >= LockTimeout
    /\ ~inner[c]
    /\ Goto(c, "idle")
    /\ waited' = [waited EXCEPT ![c] = 0]
    /\ seen' = [seen EXCEPT ![c] = {}]
    /\ UNCHANGED <<lockFile, entry, inner, content, crashes>>

\* The loop ends without the lock. In update() the exception of the inner
\* write() passes through the finally block of the outer withLock.
GiveUp(c) ==
    /\ pc[c] = "polling"
    /\ waited[c] >= LockTimeout
    /\ Goto(c, IF inner[c] THEN "leaving" ELSE "idle")
    /\ inner' = [inner EXCEPT ![c] = FALSE]
    /\ waited' = [waited EXCEPT ![c] = 0]
    /\ seen' = [seen EXCEPT ![c] = {}]
    /\ UNCHANGED <<lockFile, entry, content, crashes>>

\* The body of withLock in write, append and delete: rename, append or unlink.
Effect(c) ==
    CASE Kind[c] = "write"  -> {c}
      [] Kind[c] = "append" -> content \cup {c}
      [] Kind[c] = "delete" -> {}
      [] Kind[c] = "update" -> seen[c] \cup {c}

Perform(c) ==
    /\ pc[c] = "inside"
    /\ Kind[c] # "update" \/ inner[c]
    /\ content' = Effect(c)
    /\ Goto(c, "leaving")
    /\ seen' = [seen EXCEPT ![c] = {}]
    /\ UNCHANGED <<lockFile, entry, inner, waited, crashes>>

\* Mutation: an error in the body skips the finally block.
PerformFailsWithoutFinally(c) ==
    /\ IOFails
    /\ pc[c] = "inside"
    /\ Goto(c, "idle")
    /\ seen' = [seen EXCEPT ![c] = {}]
    /\ UNCHANGED <<lockFile, entry, inner, waited, content, crashes>>

\* An I/O error, or an updater that throws, inside the body.
PerformFails(c) ==
    /\ IOFails
    /\ pc[c] = "inside"
    /\ Goto(c, "leaving")
    /\ seen' = [seen EXCEPT ![c] = {}]
    /\ UNCHANGED <<lockFile, entry, inner, waited, content, crashes>>

\* update(): reads, applies the updater and calls write(), which asks for the
\* same lock again.
ReadForUpdate(c) ==
    /\ pc[c] = "inside"
    /\ Kind[c] = "update" /\ ~inner[c]
    /\ seen' = [seen EXCEPT ![c] = content]
    /\ inner' = [inner EXCEPT ![c] = TRUE]
    /\ Goto(c, "polling")
    /\ UNCHANGED <<lockFile, entry, waited, content, crashes>>

\* withLock returns, to update() if it was the inner one.
Return(c) ==
    /\ Goto(c, IF inner[c] THEN "leaving" ELSE "idle")
    /\ inner' = [inner EXCEPT ![c] = FALSE]

\* releaseLock: the entry is looked up by path and owner, and the owner is the
\* process, so any entry of the process will do.
Release(c) ==
    /\ pc[c] = "leaving"
    /\ IF EntryOf(c) = None
       THEN Return(c) /\ UNCHANGED lockFile
       ELSE Goto(c, "forgetting") /\ lockFile' = None /\ UNCHANGED inner
    /\ UNCHANGED <<entry, waited, content, seen, crashes>>

ForgetReleased(c) ==
    /\ pc[c] = "forgetting"
    /\ entry' = [entry EXCEPT ![ProcessOf[c]] = None]
    /\ Return(c)
    /\ UNCHANGED <<lockFile, waited, content, seen, crashes>>

\* Ages stop where the code stops telling them apart.
Older(age) == IF age = None \/ age > LockTimeout THEN age ELSE age + 1

\* Unless SlowHolders, calls that work under the lock finish before their
\* entry can be called stale.
Tick ==
    /\ ~SlowHolders => \A c \in Call : Working(c) /\ EntryOf(c) # None => EntryOf(c) < LockTimeout
    /\ entry' = [p \in Process |-> Older(entry[p])]
    /\ waited' = [c \in Call |-> IF pc[c] \in {"polling", "creating"} /\ waited[c] < LockTimeout
                                 THEN waited[c] + 1 ELSE waited[c]]
    /\ UNCHANGED <<lockFile, pc, inner, content, seen, crashes>>

\* A process ends and is started again: its map is empty, the lock file stays.
Crash(p) ==
    /\ crashes < MaxCrashes
    /\ crashes' = crashes + 1
    /\ entry' = [entry EXCEPT ![p] = None]
    /\ pc' = [c \in Call |-> IF ProcessOf[c] = p THEN "idle" ELSE pc[c]]
    /\ inner' = [c \in Call |-> inner[c] /\ ProcessOf[c] # p]
    /\ waited' = [c \in Call |-> IF ProcessOf[c] = p THEN 0 ELSE waited[c]]
    /\ seen' = [c \in Call |-> IF ProcessOf[c] = p THEN {} ELSE seen[c]]
    /\ UNCHANGED <<lockFile, content>>

Step(c) ==
    \/ Begin(c) \/ TryToCreate(c) \/ Acquire(c) \/ AcquireFails(c)
    \/ BreakStale(c) \/ ForgetBroken(c) \/ GiveUp(c)
    \/ Perform(c) \/ PerformFails(c) \/ ReadForUpdate(c)
    \/ Release(c) \/ ForgetReleased(c)

Next ==
    \/ Tick
    \/ \E p \in Process : Crash(p)
    \/ \E c \in Call : Step(c)

Spec == Init /\ [][Next]_vars

\* Time passes, file operations return, and calls go on with their next step.
\* (The exclusive create returns whatever other calls do: hence SF.)
FairSpec ==
    /\ Spec
    /\ WF_vars(Tick)
    /\ \A c \in Call : WF_vars(Step(c)) /\ SF_vars(Acquire(c) \/ AcquireFails(c))

-----------------------------------------------------------------------------
TypeOK ==
    /\ lockFile \in Process \cup {None}
    /\ entry \in [Process -> 0..(LockTimeout + 1) \cup {None}]
    /\ pc \in [Call -> {"idle", "polling", "creating", "breaking", "inside", "leaving", "forgetting"}]
    /\ inner \in [Call -> BOOLEAN]
    /\ waited \in [Call -> 0..LockTimeout]
    /\ content \subseteq Call
    /\ seen \in [Call -> SUBSET Call]
    /\ crashes \in 0..MaxCrashes

\* No update() shares its process with another call on the path. (When its
\* write() gives up, releaseLock takes any entry of the process for its own.)
UpdatesAlone ==
    \A c, d \in Call : Kind[c] = "update" /\ ProcessOf[c] = ProcessOf[d] => c = d

\* The header of the class: "Thread-safe file I/O for concurrent
\* environments". Two calls never work on the file together, in one process
\* or in two, as long as their work fits into the timeout (~SlowHolders) and
\* UpdatesAlone holds.
MutualExclusion ==
    \A c, d \in Call : pc[c] = "inside" /\ pc[d] = "inside" => c = d

\* Without crashes a lock is never left behind: whenever a lock file or a map
\* entry exists, a call that will remove it is under way. An orphan of either
\* would block every later call on the path.
NothingLeftBehind ==
    crashes = 0 =>
        /\ lockFile # None =>
             \E c \in Call : ProcessOf[c] = lockFile /\ Holds(c) /\ EntryOf(c) # None
        /\ \A p \in Process :
             entry[p] # None => \E c \in Call : ProcessOf[c] = p /\ Holds(c)

\* Every call returns or throws, even when a crashed process has left its
\* lock file behind: the wait in acquireLock is bounded.
CallsReturn == \A c \in Call : (pc[c] # "idle") ~> (pc[c] = "idle")

-----------------------------------------------------------------------------
\* What the repository says and the code does not do.

\* "Update file (read -> modify -> write atomically)": an update() that nobody
\* disturbs, on a working disk, writes its result.
\* (The inner write() waits for the lock that update() itself holds.)
UpdateSucceeds == \A c \in Call : (pc[c] = "inside") ~> (c \in content)
=============================================================================
