-------------------------- MODULE AtomicFile_proofs --------------------------
(***************************************************************************)
(* Proofs about AtomicFile for any number of processes and calls, any      *)
(* timeout, failing bodies and any number of crashes. Types are correct    *)
(* without further assumptions; the two invariants of the lock need work   *)
(* that fits into the timeout and no update() beside another call of its   *)
(* process.                                                                *)
(***************************************************************************)
EXTENDS AtomicFile, TLAPS

Label == {"idle", "polling", "creating", "breaking", "inside", "leaving", "forgetting"}

LEMMA InitType == Init => TypeOK
  BY ConstantsAssumption DEF Init, TypeOK

\* Time passes.
LEMMA TickType == ASSUME TypeOK, Tick PROVE TypeOK'
<1>1. entry' \in [Process -> 0..(LockTimeout + 1) \cup {None}]
  BY ConstantsAssumption DEF TypeOK, Tick, Older
<1>2. waited' \in [Call -> 0..LockTimeout]
  BY ConstantsAssumption DEF TypeOK, Tick
<1> QED BY <1>1, <1>2 DEF TypeOK, Tick

LEMMA CrashType == ASSUME TypeOK, NEW p \in Process, Crash(p) PROVE TypeOK'
  BY ConstantsAssumption DEF TypeOK, Crash

\* A step of a call.
LEMMA StepType == ASSUME TypeOK, NEW c \in Call, Step(c) PROVE TypeOK'
<1> USE ConstantsAssumption DEF TypeOK, Goto, Polls, EntryOf
<1>1. CASE Begin(c) BY <1>1 DEF Begin
<1>2. CASE TryToCreate(c) BY <1>2 DEF TryToCreate
<1>3. CASE Acquire(c) BY <1>3 DEF Acquire
<1>4. CASE AcquireFails(c) BY <1>4 DEF AcquireFails
<1>5. CASE BreakStale(c) BY <1>5 DEF BreakStale
<1>6. CASE ForgetBroken(c) BY <1>6 DEF ForgetBroken
<1>7. CASE GiveUp(c) BY <1>7 DEF GiveUp
<1>8. CASE Perform(c) BY <1>8 DEF Perform, Effect
<1>9. CASE PerformFails(c) BY <1>9 DEF PerformFails
<1>10. CASE ReadForUpdate(c) BY <1>10 DEF ReadForUpdate
<1>11. CASE Release(c) BY <1>11 DEF Release, Return
<1>12. CASE ForgetReleased(c) BY <1>12 DEF ForgetReleased, Return
<1> QED BY <1>1, <1>2, <1>3, <1>4, <1>5, <1>6, <1>7, <1>8, <1>9, <1>10, <1>11, <1>12 DEF Step

LEMMA NextType == ASSUME TypeOK, [Next]_vars PROVE TypeOK'
<1>1. CASE Tick BY <1>1, TickType
<1>2. ASSUME NEW p \in Process, Crash(p) PROVE TypeOK' BY <1>2, CrashType
<1>3. ASSUME NEW c \in Call, Step(c) PROVE TypeOK' BY <1>3, StepType
<1>4. CASE UNCHANGED vars BY <1>4 DEF vars, TypeOK
<1> QED BY <1>1, <1>2, <1>3, <1>4 DEF Next

\* Every variable of AtomicFile stays in its type, for any processes, calls,
\* timeouts, failures and crashes (acquireLock, releaseLock).
THEOREM TypeCorrect == Spec => []TypeOK
<1>1. Init => TypeOK BY InitType
<1>2. TypeOK /\ [Next]_vars => TypeOK' BY NextType
<1> QED BY <1>1, <1>2, PTL DEF Spec

------------------------------------------------------------------------------
(* The lock                                                                  *)

\* Between the unlink and the update of the map.
Unlinks(c) == pc[c] \in {"breaking", "forgetting"}

\* What makes the exclusion inductive. A call inside has the lock file and an
\* entry; so has one that leaves, unless it is an update() that has lost them
\* already. A call that waits for its entry to be deleted is not taken for
\* the owner of the lock file. An entry that can be called stale is that of
\* an update(), which is alone.
HoldersHaveTheFile ==
    \A c \in Call :
        /\ pc[c] = "inside" => lockFile = ProcessOf[c] /\ EntryOf(c) # None
        /\ pc[c] = "leaving" /\ EntryOf(c) # None => lockFile = ProcessOf[c]
        /\ pc[c] = "leaving" /\ Kind[c] # "update" => EntryOf(c) # None
        /\ Kind[c] = "update" /\ EntryOf(c) # None /\ ~Unlinks(c) => lockFile = ProcessOf[c]
        /\ Unlinks(c) => lockFile # ProcessOf[c]
OneOfAProcess ==
    \A c, d \in Call : Working(c) /\ Working(d) /\ ProcessOf[c] = ProcessOf[d] => c = d
OthersAreFresh ==
    \A c \in Call : Kind[c] # "update" =>
        /\ ~inner[c] /\ pc[c] # "breaking"
        /\ Working(c) /\ EntryOf(c) # None => EntryOf(c) <= LockTimeout
EntriesHaveUsers ==
    \A p \in Process : entry[p] # None =>
        \E c \in Call : ProcessOf[c] = p /\ (Kind[c] = "update" \/ Working(c))

LockInv == TypeOK /\ HoldersHaveTheFile /\ OneOfAProcess /\ OthersAreFresh /\ EntriesHaveUsers

\* One lemma for each action of Step: the lock file, the map and the calls
\* agree afterwards.
LEMMA InitLock == Init => LockInv
<1> USE ConstantsAssumption DEF Init, EntryOf, Working, Unlinks
<1>1. Init => TypeOK BY InitType
<1>2. Init => HoldersHaveTheFile /\ OneOfAProcess
  BY DEF HoldersHaveTheFile, OneOfAProcess
<1>3. Init => OthersAreFresh /\ EntriesHaveUsers
  BY DEF OthersAreFresh, EntriesHaveUsers
<1> QED BY <1>1, <1>2, <1>3 DEF LockInv

LEMMA BeginKeepsLock ==
    ASSUME LockInv, UpdatesAlone, NEW c \in Call, Begin(c)
    PROVE  HoldersHaveTheFile' /\ OneOfAProcess' /\ OthersAreFresh' /\ EntriesHaveUsers'
<1> USE ConstantsAssumption DEF LockInv, TypeOK, Begin, Goto, UpdatesAlone,
        EntryOf, Working, Unlinks, HoldersHaveTheFile, OneOfAProcess
<1>1. HoldersHaveTheFile'
  BY DEF OthersAreFresh, EntriesHaveUsers
<1>2. OneOfAProcess'
  OBVIOUS
<1>3. OthersAreFresh'
  BY DEF OthersAreFresh
<1>4. EntriesHaveUsers'
  BY DEF EntriesHaveUsers
<1> QED BY <1>1, <1>2, <1>3, <1>4

LEMMA TryToCreateKeepsLock ==
    ASSUME LockInv, UpdatesAlone, NEW c \in Call, TryToCreate(c)
    PROVE  HoldersHaveTheFile' /\ OneOfAProcess' /\ OthersAreFresh' /\ EntriesHaveUsers'
<1> USE ConstantsAssumption DEF LockInv, TypeOK, TryToCreate, Goto, Polls, UpdatesAlone,
        EntryOf, Working, Unlinks, HoldersHaveTheFile, OneOfAProcess
<1>1. HoldersHaveTheFile'
  BY DEF OthersAreFresh, EntriesHaveUsers
<1>2. OneOfAProcess'
  OBVIOUS
<1>3. OthersAreFresh'
  BY DEF OthersAreFresh
<1>4. EntriesHaveUsers'
  BY DEF EntriesHaveUsers
<1> QED BY <1>1, <1>2, <1>3, <1>4

LEMMA AcquireKeepsLock ==
    ASSUME LockInv, UpdatesAlone, NEW c \in Call, Acquire(c)
    PROVE  HoldersHaveTheFile' /\ OneOfAProcess' /\ OthersAreFresh' /\ EntriesHaveUsers'
<1> USE ConstantsAssumption DEF LockInv, TypeOK, EntryOf, Working, Unlinks, Goto
<1>1. /\ lockFile = None /\ lockFile' = ProcessOf[c] /\ ProcessOf[c] \in Process
      /\ entry' = [entry EXCEPT ![ProcessOf[c]] = 0]
      /\ pc[c] = "creating" /\ pc' = [pc EXCEPT ![c] = "inside"]
      /\ inner' = inner
  BY DEF Acquire
<1>2. \A d \in Call : ProcessOf[d] = ProcessOf[c] => ~Unlinks(d)
  BY DEF Acquire, Unlinking
<1>3. \A d \in Call : pc[d] # "inside"
  BY <1>1 DEF HoldersHaveTheFile
<1>4. \A d \in Call \ {c} : ProcessOf[d] = ProcessOf[c] => ~Working(d)
  <2> SUFFICES ASSUME NEW d \in Call \ {c}, ProcessOf[d] = ProcessOf[c], pc[d] = "leaving"
               PROVE  FALSE
    BY <1>2, <1>3
  <2>1. CASE Kind[d] = "update" BY <2>1 DEF UpdatesAlone
  <2>2. CASE Kind[d] # "update" BY <2>2, <1>1 DEF HoldersHaveTheFile
  <2> QED BY <2>1, <2>2
<1>5. HoldersHaveTheFile'
  <2> SUFFICES ASSUME NEW d \in Call
               PROVE  /\ pc'[d] = "inside" => lockFile' = ProcessOf[d] /\ EntryOf(d)' # None
                      /\ pc'[d] = "leaving" /\ EntryOf(d)' # None => lockFile' = ProcessOf[d]
                      /\ pc'[d] = "leaving" /\ Kind[d] # "update" => EntryOf(d)' # None
                      /\ Kind[d] = "update" /\ EntryOf(d)' # None /\ ~Unlinks(d)'
                            => lockFile' = ProcessOf[d]
                      /\ Unlinks(d)' => lockFile' # ProcessOf[d]
    BY DEF HoldersHaveTheFile
  <2>1. CASE d = c BY <2>1, <1>1
  <2>2. CASE d # c /\ ProcessOf[d] = ProcessOf[c]
    BY <2>2, <1>1, <1>2, <1>4
  <2>3. CASE ProcessOf[d] # ProcessOf[c]
    <3>1. pc'[d] = pc[d] /\ EntryOf(d)' = EntryOf(d) BY <2>3, <1>1
    <3> QED BY <3>1, <2>3, <1>1, <1>3 DEF HoldersHaveTheFile
  <2> QED BY <2>1, <2>2, <2>3
<1>6. OneOfAProcess'
  BY <1>1, <1>4 DEF OneOfAProcess
<1>7. OthersAreFresh'
  <2> SUFFICES ASSUME NEW d \in Call, Kind[d] # "update"
               PROVE  /\ ~inner'[d] /\ pc'[d] # "breaking"
                      /\ Working(d)' /\ EntryOf(d)' # None => EntryOf(d)' <= LockTimeout
    BY DEF OthersAreFresh
  <2>1. CASE ProcessOf[d] = ProcessOf[c] BY <2>1, <1>1 DEF OthersAreFresh
  <2>2. CASE ProcessOf[d] # ProcessOf[c] BY <2>2, <1>1 DEF OthersAreFresh
  <2> QED BY <2>1, <2>2
<1>8. EntriesHaveUsers'
  BY <1>1 DEF EntriesHaveUsers
<1> QED BY <1>5, <1>6, <1>7, <1>8

LEMMA AcquireFailsKeepsLock ==
    ASSUME LockInv, UpdatesAlone, NEW c \in Call, AcquireFails(c)
    PROVE  HoldersHaveTheFile' /\ OneOfAProcess' /\ OthersAreFresh' /\ EntriesHaveUsers'
<1> USE ConstantsAssumption DEF LockInv, TypeOK, AcquireFails, Goto, UpdatesAlone,
        EntryOf, Working, Unlinks, HoldersHaveTheFile, OneOfAProcess
<1>1. HoldersHaveTheFile'
  BY DEF OthersAreFresh, EntriesHaveUsers
<1>2. OneOfAProcess'
  OBVIOUS
<1>3. OthersAreFresh'
  BY DEF OthersAreFresh
<1>4. EntriesHaveUsers'
  BY DEF EntriesHaveUsers
<1> QED BY <1>1, <1>2, <1>3, <1>4

LEMMA BreakStaleKeepsLock ==
    ASSUME LockInv, UpdatesAlone, NEW c \in Call, BreakStale(c)
    PROVE  HoldersHaveTheFile' /\ OneOfAProcess' /\ OthersAreFresh' /\ EntriesHaveUsers'
<1> USE ConstantsAssumption DEF LockInv, TypeOK, EntryOf, Working, Unlinks, Goto
<1>1. /\ pc[c] = "polling" /\ pc' = [pc EXCEPT ![c] = "breaking"]
      /\ EntryOf(c) # None /\ EntryOf(c) > LockTimeout
      /\ lockFile' = None /\ entry' = entry /\ inner' = inner /\ ProcessOf[c] \in Process
  BY DEF BreakStale, Polls
<1>2. Kind[c] = "update"
  <2>1. PICK d \in Call : ProcessOf[d] = ProcessOf[c] /\ (Kind[d] = "update" \/ Working(d))
    BY <1>1 DEF EntriesHaveUsers
  <2>2. CASE Kind[d] = "update" BY <2>1, <2>2 DEF UpdatesAlone
  <2>3. CASE Kind[d] # "update" /\ Working(d)
    <3>1. EntryOf(d) = EntryOf(c) /\ EntryOf(d) <= LockTimeout
      BY <1>1, <2>1, <2>3 DEF OthersAreFresh
    <3>2. EntryOf(c) \in 0..(LockTimeout + 1) BY <1>1
    <3> QED BY <1>1, <3>1, <3>2
  <2> QED BY <2>1, <2>2, <2>3
<1>3. lockFile = ProcessOf[c] /\ \A d \in Call : ProcessOf[d] = ProcessOf[c] => d = c
  BY <1>1, <1>2 DEF HoldersHaveTheFile, UpdatesAlone
<1>4. HoldersHaveTheFile'
  BY <1>1, <1>3 DEF HoldersHaveTheFile
<1>5. OneOfAProcess'
  BY <1>1 DEF OneOfAProcess
<1>6. OthersAreFresh'
  <2> SUFFICES ASSUME NEW d \in Call, Kind[d] # "update"
               PROVE  /\ ~inner'[d] /\ pc'[d] # "breaking"
                      /\ Working(d)' /\ EntryOf(d)' # None => EntryOf(d)' <= LockTimeout
    BY DEF OthersAreFresh
  <2>1. d # c /\ pc'[d] = pc[d] /\ EntryOf(d)' = EntryOf(d) BY <1>1, <1>2
  <2> QED BY <2>1, <1>1 DEF OthersAreFresh
<1>7. EntriesHaveUsers'
  BY <1>1, <1>2 DEF EntriesHaveUsers
<1> QED BY <1>4, <1>5, <1>6, <1>7

LEMMA ForgetBrokenKeepsLock ==
    ASSUME LockInv, UpdatesAlone, NEW c \in Call, ForgetBroken(c)
    PROVE  HoldersHaveTheFile' /\ OneOfAProcess' /\ OthersAreFresh' /\ EntriesHaveUsers'
<1> USE ConstantsAssumption DEF LockInv, TypeOK, ForgetBroken, Goto, UpdatesAlone,
        EntryOf, Working, Unlinks, HoldersHaveTheFile, OneOfAProcess
<1>1. HoldersHaveTheFile'
  BY DEF OthersAreFresh, EntriesHaveUsers
<1>2. OneOfAProcess'
  OBVIOUS
<1>3. OthersAreFresh'
  BY DEF OthersAreFresh
<1>4. EntriesHaveUsers'
  BY DEF EntriesHaveUsers
<1> QED BY <1>1, <1>2, <1>3, <1>4

LEMMA GiveUpKeepsLock ==
    ASSUME LockInv, UpdatesAlone, NEW c \in Call, GiveUp(c)
    PROVE  HoldersHaveTheFile' /\ OneOfAProcess' /\ OthersAreFresh' /\ EntriesHaveUsers'
<1> USE ConstantsAssumption DEF LockInv, TypeOK, GiveUp, Goto, UpdatesAlone,
        EntryOf, Working, Unlinks, HoldersHaveTheFile, OneOfAProcess
<1>1. HoldersHaveTheFile'
  BY DEF OthersAreFresh, EntriesHaveUsers
<1>2. OneOfAProcess'
  BY DEF OthersAreFresh
<1>3. OthersAreFresh'
  BY DEF OthersAreFresh
<1>4. EntriesHaveUsers'
  BY DEF EntriesHaveUsers
<1> QED BY <1>1, <1>2, <1>3, <1>4

LEMMA PerformKeepsLock ==
    ASSUME LockInv, UpdatesAlone, NEW c \in Call, Perform(c)
    PROVE  HoldersHaveTheFile' /\ OneOfAProcess' /\ OthersAreFresh' /\ EntriesHaveUsers'
<1> USE ConstantsAssumption DEF LockInv, TypeOK, Perform, Goto, UpdatesAlone,
        EntryOf, Working, Unlinks, HoldersHaveTheFile, OneOfAProcess
<1>1. HoldersHaveTheFile'
  BY DEF OthersAreFresh, EntriesHaveUsers
<1>2. OneOfAProcess'
  OBVIOUS
<1>3. OthersAreFresh'
  BY DEF OthersAreFresh
<1>4. EntriesHaveUsers'
  BY DEF EntriesHaveUsers
<1> QED BY <1>1, <1>2, <1>3, <1>4

LEMMA PerformFailsKeepsLock ==
    ASSUME LockInv, UpdatesAlone, NEW c \in Call, PerformFails(c)
    PROVE  HoldersHaveTheFile' /\ OneOfAProcess' /\ OthersAreFresh' /\ EntriesHaveUsers'
<1> USE ConstantsAssumption DEF LockInv, TypeOK, PerformFails, Goto, UpdatesAlone,
        EntryOf, Working, Unlinks, HoldersHaveTheFile, OneOfAProcess
<1>1. HoldersHaveTheFile'
  BY DEF OthersAreFresh, EntriesHaveUsers
<1>2. OneOfAProcess'
  OBVIOUS
<1>3. OthersAreFresh'
  BY DEF OthersAreFresh
<1>4. EntriesHaveUsers'
  BY DEF EntriesHaveUsers
<1> QED BY <1>1, <1>2, <1>3, <1>4

LEMMA ReadForUpdateKeepsLock ==
    ASSUME LockInv, UpdatesAlone, NEW c \in Call, ReadForUpdate(c)
    PROVE  HoldersHaveTheFile' /\ OneOfAProcess' /\ OthersAreFresh' /\ EntriesHaveUsers'
<1> USE ConstantsAssumption DEF LockInv, TypeOK, ReadForUpdate, Goto, UpdatesAlone,
        EntryOf, Working, Unlinks, HoldersHaveTheFile, OneOfAProcess
<1>1. HoldersHaveTheFile'
  BY DEF OthersAreFresh, EntriesHaveUsers
<1>2. OneOfAProcess'
  OBVIOUS
<1>3. OthersAreFresh'
  BY DEF OthersAreFresh
<1>4. EntriesHaveUsers'
  BY DEF EntriesHaveUsers
<1> QED BY <1>1, <1>2, <1>3, <1>4

LEMMA ReleaseKeepsLock ==
    ASSUME LockInv, UpdatesAlone, NEW c \in Call, Release(c)
    PROVE  HoldersHaveTheFile' /\ OneOfAProcess' /\ OthersAreFresh' /\ EntriesHaveUsers'
<1> USE ConstantsAssumption DEF LockInv, TypeOK, Release, Goto, Return, UpdatesAlone,
        EntryOf, Working, Unlinks, HoldersHaveTheFile, OneOfAProcess
<1>1. HoldersHaveTheFile'
  BY DEF OthersAreFresh, EntriesHaveUsers
<1>2. OneOfAProcess'
  OBVIOUS
<1>3. OthersAreFresh'
  BY DEF OthersAreFresh
<1>4. EntriesHaveUsers'
  BY DEF EntriesHaveUsers
<1> QED BY <1>1, <1>2, <1>3, <1>4

LEMMA ForgetReleasedKeepsLock ==
    ASSUME LockInv, UpdatesAlone, NEW c \in Call, ForgetReleased(c)
    PROVE  HoldersHaveTheFile' /\ OneOfAProcess' /\ OthersAreFresh' /\ EntriesHaveUsers'
<1> USE ConstantsAssumption DEF LockInv, TypeOK, EntryOf, Working, Unlinks, Goto
<1>1. /\ pc[c] = "forgetting" /\ lockFile' = lockFile /\ ProcessOf[c] \in Process
      /\ pc' = [pc EXCEPT ![c] = IF inner[c] THEN "leaving" ELSE "idle"]
      /\ inner' = [inner EXCEPT ![c] = FALSE]
      /\ entry' = [entry EXCEPT ![ProcessOf[c]] = None]
  BY DEF ForgetReleased, Return
<1>2. \A d \in Call \ {c} : ProcessOf[d] = ProcessOf[c] => ~Working(d)
  BY <1>1 DEF OneOfAProcess
<1>3. Kind[c] # "update" => ~inner[c]
  BY DEF OthersAreFresh
<1>4. HoldersHaveTheFile'
  <2> SUFFICES ASSUME NEW d \in Call
               PROVE  /\ pc'[d] = "inside" => lockFile' = ProcessOf[d] /\ EntryOf(d)' # None
                      /\ pc'[d] = "leaving" /\ EntryOf(d)' # None => lockFile' = ProcessOf[d]
                      /\ pc'[d] = "leaving" /\ Kind[d] # "update" => EntryOf(d)' # None
                      /\ Kind[d] = "update" /\ EntryOf(d)' # None /\ ~Unlinks(d)'
                            => lockFile' = ProcessOf[d]
                      /\ Unlinks(d)' => lockFile' # ProcessOf[d]
    BY DEF HoldersHaveTheFile
  <2>1. CASE d = c BY <2>1, <1>1, <1>3
  <2>2. CASE d # c /\ ProcessOf[d] = ProcessOf[c]
    <3>1. pc'[d] = pc[d] /\ EntryOf(d)' = None BY <1>1, <2>2
    <3> QED BY <3>1, <2>2, <1>1, <1>2 DEF HoldersHaveTheFile
  <2>3. CASE ProcessOf[d] # ProcessOf[c]
    <3>1. pc'[d] = pc[d] /\ EntryOf(d)' = EntryOf(d) BY <2>3, <1>1
    <3> QED BY <3>1, <1>1 DEF HoldersHaveTheFile
  <2> QED BY <2>1, <2>2, <2>3
<1>5. OneOfAProcess'
  BY <1>1, <1>2 DEF OneOfAProcess
<1>6. OthersAreFresh'
  BY <1>1, <1>3 DEF OthersAreFresh
<1>7. EntriesHaveUsers'
  BY <1>1, <1>2 DEF EntriesHaveUsers
<1> QED BY <1>4, <1>5, <1>6, <1>7


\* Time only makes entries older, and not those of calls at work.
LEMMA TickKeepsLock ==
    ASSUME LockInv, ~SlowHolders, Tick
    PROVE  HoldersHaveTheFile' /\ OneOfAProcess' /\ OthersAreFresh' /\ EntriesHaveUsers'
<1> USE ConstantsAssumption DEF LockInv, TypeOK, EntryOf, Working, Unlinks
<1>1. /\ lockFile' = lockFile /\ pc' = pc /\ inner' = inner
      /\ entry' = [p \in Process |-> Older(entry[p])]
      /\ \A c \in Call : Working(c) /\ EntryOf(c) # None => EntryOf(c) < LockTimeout
  BY DEF Tick
<1>2. \A p \in Process : entry'[p] # None <=> entry[p] # None
  BY <1>1 DEF Older
<1>3. HoldersHaveTheFile'
  BY <1>1, <1>2 DEF HoldersHaveTheFile
<1>4. OneOfAProcess'
  BY <1>1 DEF OneOfAProcess
<1>5. OthersAreFresh'
  <2> SUFFICES ASSUME NEW c \in Call, Kind[c] # "update"
               PROVE  /\ ~inner'[c] /\ pc'[c] # "breaking"
                      /\ Working(c)' /\ EntryOf(c)' # None => EntryOf(c)' <= LockTimeout
    BY DEF OthersAreFresh
  <2> QED BY <1>1, <1>2 DEF OthersAreFresh, Older
<1>6. EntriesHaveUsers'
  BY <1>1, <1>2 DEF EntriesHaveUsers
<1> QED BY <1>3, <1>4, <1>5, <1>6

LEMMA CrashKeepsLock ==
    ASSUME LockInv, NEW p \in Process, Crash(p)
    PROVE  HoldersHaveTheFile' /\ OneOfAProcess' /\ OthersAreFresh' /\ EntriesHaveUsers'
<1> USE ConstantsAssumption DEF LockInv, TypeOK, Crash, EntryOf, Working, Unlinks
<1>1. HoldersHaveTheFile'
  BY DEF HoldersHaveTheFile
<1>2. OneOfAProcess'
  BY DEF OneOfAProcess
<1>3. OthersAreFresh'
  BY DEF OthersAreFresh
<1>4. EntriesHaveUsers'
  BY DEF EntriesHaveUsers
<1> QED BY <1>1, <1>2, <1>3, <1>4

LEMMA StepKeepsLock ==
    ASSUME LockInv, UpdatesAlone, NEW c \in Call, Step(c)
    PROVE  LockInv'
<1>1. TypeOK'
  BY StepType DEF LockInv
<1>2. HoldersHaveTheFile' /\ OneOfAProcess' /\ OthersAreFresh' /\ EntriesHaveUsers'
  BY BeginKeepsLock, TryToCreateKeepsLock, AcquireKeepsLock, AcquireFailsKeepsLock,
     BreakStaleKeepsLock, ForgetBrokenKeepsLock, GiveUpKeepsLock, PerformKeepsLock,
     PerformFailsKeepsLock, ReadForUpdateKeepsLock, ReleaseKeepsLock, ForgetReleasedKeepsLock
     DEF Step
<1> QED BY <1>1, <1>2 DEF LockInv

LEMMA NextKeepsLock ==
    ASSUME LockInv, ~SlowHolders, UpdatesAlone, [Next]_vars
    PROVE  LockInv'
<1>1. TypeOK'
  BY NextType DEF LockInv
<1>2. CASE Tick
  BY <1>1, <1>2, TickKeepsLock DEF LockInv
<1>3. ASSUME NEW p \in Process, Crash(p) PROVE LockInv'
  BY <1>1, <1>3, CrashKeepsLock DEF LockInv
<1>4. ASSUME NEW c \in Call, Step(c) PROVE LockInv'
  BY <1>4, StepKeepsLock
<1>5. CASE UNCHANGED vars
  BY <1>5, <1>1 DEF vars, LockInv, HoldersHaveTheFile, OneOfAProcess, OthersAreFresh,
          EntriesHaveUsers,
     Working, Unlinks, EntryOf
<1> QED BY <1>2, <1>3, <1>4, <1>5 DEF Next

\* Two calls never work on the file together, in one process or in several,
\* whatever fails or ends when, if work fits into the timeout and no update()
\* has another call beside it (withLock).
THEOREM LockExcludes ==
    ASSUME ~SlowHolders, UpdatesAlone
    PROVE  Spec => []MutualExclusion
<1>1. Init => LockInv BY InitLock
<1>2. LockInv /\ [Next]_vars => LockInv' BY NextKeepsLock
<1>3. LockInv => MutualExclusion
  BY DEF LockInv, HoldersHaveTheFile, OneOfAProcess, MutualExclusion, Working
<1> QED BY <1>1, <1>2, <1>3, PTL DEF Spec

------------------------------------------------------------------------------
(* Nothing is left behind                                                    *)

LEMMA StepLeavesNothing ==
    ASSUME LockInv, UpdatesAlone, NothingLeftBehind, NEW c \in Call, Step(c)
    PROVE  NothingLeftBehind'
<1> USE ConstantsAssumption DEF LockInv, TypeOK, EntryOf, Working, Holds, Goto, NothingLeftBehind
<1>1. CASE Begin(c) BY <1>1 DEF Begin
<1>2. CASE TryToCreate(c) BY <1>2 DEF TryToCreate, Polls
<1>3. CASE Acquire(c) BY <1>3 DEF Acquire
<1>4. CASE AcquireFails(c) BY <1>4 DEF AcquireFails
<1>5. CASE BreakStale(c) BY <1>5 DEF BreakStale, Polls
<1>6. CASE ForgetBroken(c) BY <1>6 DEF ForgetBroken, HoldersHaveTheFile, Unlinks
<1>7. CASE GiveUp(c) BY <1>7 DEF GiveUp
<1>8. CASE Perform(c) BY <1>8 DEF Perform
<1>9. CASE PerformFails(c) BY <1>9 DEF PerformFails
<1>10. CASE ReadForUpdate(c) BY <1>10 DEF ReadForUpdate
<1>11. CASE Release(c) BY <1>11 DEF Release, Return
<1>12. CASE ForgetReleased(c) BY <1>12 DEF ForgetReleased, Return, HoldersHaveTheFile, Unlinks
<1> QED BY <1>1, <1>2, <1>3, <1>4, <1>5, <1>6, <1>7, <1>8, <1>9, <1>10, <1>11, <1>12 DEF Step

LEMMA NextLeavesNothing ==
    ASSUME LockInv, ~SlowHolders, UpdatesAlone, NothingLeftBehind, [Next]_vars
    PROVE  NothingLeftBehind'
<1> USE ConstantsAssumption DEF LockInv, TypeOK, EntryOf, Working, Holds, NothingLeftBehind
<1>1. CASE Tick BY <1>1 DEF Tick, Older
<1>2. ASSUME NEW p \in Process, Crash(p) PROVE NothingLeftBehind' BY <1>2 DEF Crash
<1>3. ASSUME NEW c \in Call, Step(c) PROVE NothingLeftBehind' BY <1>3, StepLeavesNothing
<1>4. CASE UNCHANGED vars BY <1>4 DEF vars
<1> QED BY <1>1, <1>2, <1>3, <1>4 DEF Next

\* While no process has ended, a lock file or an entry of a map is never there
\* without a call that will remove it (releaseLock in the finally block).
THEOREM NothingStays ==
    ASSUME ~SlowHolders, UpdatesAlone
    PROVE  Spec => []NothingLeftBehind
<1>1. Init => LockInv /\ NothingLeftBehind
  BY InitLock DEF Init, NothingLeftBehind
<1>2. LockInv /\ NothingLeftBehind /\ [Next]_vars => LockInv' /\ NothingLeftBehind'
  BY NextKeepsLock, NextLeavesNothing
<1> QED BY <1>1, <1>2, PTL DEF Spec
==============================================================================
