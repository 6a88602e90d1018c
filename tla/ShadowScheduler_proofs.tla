----------------------- MODULE ShadowScheduler_proofs -----------------------
(***************************************************************************)
(* Proofs about ShadowScheduler for every number of tasks, every slot      *)
(* limit, every choice of priorities, retries and runs, with and without   *)
(* persistence and reentrant callbacks, and any number of crashes.         *)
(***************************************************************************)
EXTENDS ShadowScheduler, FiniteSetTheorems, SequenceTheorems, TLAPS

\* The outcomes a settled handler can leave its task in.
LEMMA OutcomeTypes ==
    ASSUME NEW t
    PROVE  /\ AfterListeners(t, "completed") \subseteq {"completed", "cancelled"}
           /\ FailureOutcomes(t) \subseteq {"pending", "failed", "cancelled"}
BY DEF AfterListeners, FailureOutcomes

\* The images the persistence layer deals in are well-typed.
LEMMA ImageTypes ==
    /\ NoImage \in Image
    /\ EmptyImage("partial") \in Image
    /\ TypeOK => Snapshot \in Image
<1>1. \A k \in {"absent", "partial", "saved"} : EmptyImage(k) \in Image
  BY DEF EmptyImage, Image, Status
<1>2. ASSUME TypeOK PROVE Snapshot \in Image
  BY <1>2 DEF TypeOK, Snapshot, Image, Status
<1>3. QED
  BY <1>1, <1>2 DEF NoImage

\* What taking one element out of a sequence leaves, and in which order.
LEMMA RemoveAtFacts ==
    ASSUME NEW S, NEW s \in Seq(S), NEW k \in 1..Len(s)
    PROVE  /\ RemoveAt(s, k) \in Seq(S)
           /\ Len(RemoveAt(s, k)) = Len(s) - 1
           /\ \A i \in 1..Len(s) - 1 :
                RemoveAt(s, k)[i] = IF i < k THEN s[i] ELSE s[i + 1]
<1>1. /\ SubSeq(s, 1, k - 1) \in Seq(S) /\ Len(SubSeq(s, 1, k - 1)) = k - 1
      /\ \A i \in 1..k - 1 : SubSeq(s, 1, k - 1)[i] = s[i]
  OBVIOUS
<1>2. /\ SubSeq(s, k + 1, Len(s)) \in Seq(S)
      /\ Len(SubSeq(s, k + 1, Len(s))) = Len(s) - k
      /\ \A i \in 1..Len(s) - k : SubSeq(s, k + 1, Len(s))[i] = s[k + i]
  OBVIOUS
<1> DEFINE front == SubSeq(s, 1, k - 1)
           back == SubSeq(s, k + 1, Len(s))
<1>3. /\ front \o back \in Seq(S) /\ Len(front \o back) = Len(front) + Len(back)
      /\ \A i \in 1..Len(front) + Len(back) :
           (front \o back)[i] = IF i <= Len(front) THEN front[i] ELSE back[i - Len(front)]
  BY <1>1, <1>2, ConcatProperties
<1>4. RemoveAt(s, k) = front \o back
  BY DEF RemoveAt
<1>5. Len(s) \in Nat /\ k \in Nat /\ k >= 1 /\ k <= Len(s)
  OBVIOUS
<1>6. Len(front) = k - 1 /\ Len(back) = Len(s) - k
  BY <1>1, <1>2
<1>7. /\ \A i \in 1..k - 1 : front[i] = s[i]
      /\ \A i \in 1..Len(s) - k : back[i] = s[k + i]
  BY <1>1, <1>2
<1> HIDE DEF front, back
<1>8. ASSUME NEW i \in 1..Len(s) - 1
      PROVE  (front \o back)[i] = IF i < k THEN s[i] ELSE s[i + 1]
  <2>0. i \in Nat /\ i >= 1 /\ i <= Len(s) - 1
    BY <1>5
  <2>1. CASE i < k
    BY <1>3, <1>5, <1>6, <1>7, <2>0, <2>1
  <2>2. CASE i >= k
    <3>1. /\ i - Len(front) \in 1..Len(s) - k /\ k + (i - Len(front)) = i + 1
          /\ ~(i <= Len(front)) /\ i \in 1..Len(front) + Len(back)
      BY <1>5, <1>6, <2>0, <2>2
    <3>2. QED
      <4>1. (front \o back)[i] = back[i - Len(front)]
        BY <1>3, <3>1
      <4>2. back[i - Len(front)] = s[k + (i - Len(front))]
        BY <1>7, <3>1
      <4>3. ~(i < k)
        BY <1>5, <2>0, <2>2
      <4>4. QED
        BY <3>1, <4>1, <4>2, <4>3
  <2>3. i < k \/ i >= k
    BY <1>5, <2>0
  <2>4. QED
    BY <2>1, <2>2, <2>3
<1>9. RemoveAt(s, k) \in Seq(S)
  BY <1>3, <1>4
<1>10. Len(RemoveAt(s, k)) = Len(s) - 1
  <2>1. Len(RemoveAt(s, k)) = (k - 1) + (Len(s) - k)
    BY <1>3, <1>4, <1>6
  <2>2. QED
    BY <1>5, <2>1
<1>11. \A i \in 1..Len(s) - 1 : RemoveAt(s, k)[i] = IF i < k THEN s[i] ELSE s[i + 1]
  BY <1>4, <1>8
<1>12. QED
  BY <1>9, <1>10, <1>11

\* A save that is begun puts the snapshot in flight; one that ends takes its
\* image out and may leave it in the file.
LEMMA BeginSaveImages ==
    ASSUME TypeOK, BeginSave
    PROVE  /\ saving' \in Seq(Image) /\ Len(saving') = Len(saving) + 1
           /\ \A i \in 1..Len(saving) : saving'[i] = saving[i]
           /\ saving'[Len(saving) + 1] = Snapshot
           /\ InFlight' = InFlight \cup {Snapshot}
<1>1. /\ saving' \in Seq(Image) /\ Len(saving') = Len(saving) + 1
      /\ \A i \in 1..Len(saving) : saving'[i] = saving[i]
      /\ saving'[Len(saving) + 1] = Snapshot
  BY ImageTypes DEF TypeOK, BeginSave
<1>2. Len(saving) \in Nat
  BY DEF TypeOK
<1>3. QED
  BY <1>1, <1>2 DEF InFlight

LEMMA EndSaveImages ==
    ASSUME TypeOK, NEW k \in 1..Len(saving), saving' = RemoveAt(saving, k)
    PROVE  /\ saving' \in Seq(Image) /\ Len(saving') = Len(saving) - 1
           /\ \A i \in 1..Len(saving') : saving'[i] = IF i < k THEN saving[i] ELSE saving[i + 1]
           /\ InFlight' \subseteq InFlight
           /\ saving[k] \in InFlight /\ saving[k] \in Image
<1>1. /\ saving' \in Seq(Image) /\ Len(saving') = Len(saving) - 1
      /\ \A i \in 1..Len(saving') : saving'[i] = IF i < k THEN saving[i] ELSE saving[i + 1]
  BY RemoveAtFacts DEF TypeOK
<1>2. Len(saving) \in Nat
  BY DEF TypeOK
<1>3. \A i \in 1..Len(saving') : i \in 1..Len(saving) /\ i + 1 \in 1..Len(saving)
  BY <1>1, <1>2
<1>4. InFlight' \subseteq InFlight
  BY <1>1, <1>3 DEF InFlight
<1>5. QED
  BY <1>1, <1>4 DEF TypeOK, InFlight

\* Marking a task cancelled aborts running tasks only.
LEMMA MarkCancelledType ==
    ASSUME TypeOK, NEW t \in Task, MarkCancelled(t)
    PROVE  status' \in [Task -> Status] /\ aborted' \subseteq runningTasks
<1>1. status' \in [Task -> Status]
  BY DEF TypeOK, MarkCancelled, Status
<1>2. aborted' \subseteq runningTasks
  BY DEF TypeOK, MarkCancelled
<1>3. QED
  BY <1>1, <1>2

\* executeTask keeps the types.
LEMMA ExecuteTaskType ==
    ASSUME TypeOK, NEW t \in Task, ExecuteTask(t)
    PROVE  /\ runningTasks' \subseteq Task
           /\ runningTasks \subseteq runningTasks'
           /\ status' \in [Task -> Status]
           /\ runCount' \in [Task -> Nat]
<1>1. /\ runningTasks \subseteq Task /\ status \in [Task -> Status]
      /\ runCount \in [Task -> Nat] /\ "running" \in Status
  BY DEF TypeOK, Status
<1>2. QED
  BY <1>1 DEF ExecuteTask

\* The finally block keeps the types.
LEMMA FinallyType ==
    ASSUME TypeOK, NEW t \in Task, NEW outcome \in Status, NEW retries \in Nat,
           Finally(t, outcome, retries), zombies' \subseteq Task
    PROVE  TypeOK'
BY DEF TypeOK, Finally, Status, life, files, past

LEMMA InitType == Init => TypeOK
<1>1. NumTasks \in Nat /\ MaxCrashes \in Nat
  BY ConstantsAssumption
<1>2. Init => /\ issued \in 0..NumTasks /\ crashes \in 0..MaxCrashes
  BY <1>1 DEF Init
<1>3. Init => /\ status \in [Task -> Status]
              /\ retryCount \in [Task -> Nat] /\ runCount \in [Task -> Nat]
  BY DEF Init, Status
<1>4. Init => saving \in Seq(Image) /\ disk \in Image
  BY ImageTypes DEF Init
<1>5. QED
  BY <1>2, <1>3, <1>4 DEF Init, TypeOK

LEMMA StepType == TypeOK /\ [Next]_vars => TypeOK'
<1> SUFFICES ASSUME TypeOK, [Next]_vars PROVE TypeOK'
  OBVIOUS
<1>1. CASE Start
  BY <1>1 DEF TypeOK, Start, memory, slots, files, past
<1>2. CASE Stop
  BY <1>2 DEF TypeOK, Stop, memory, files, past
<1>3. CASE Schedule
  <2>1. NumTasks \in Nat /\ issued \in 0..NumTasks /\ issued < NumTasks
    BY <1>3, ConstantsAssumption DEF TypeOK, Schedule
  <2>2. issued + 1 \in Task /\ issued + 1 \in 0..NumTasks
    BY <2>1 DEF Task
  <2>3. /\ issued' \in 0..NumTasks /\ tasks' \subseteq Task /\ due' \subseteq Task
        /\ status' \in [Task -> Status]
    BY <1>3, <2>2 DEF TypeOK, Schedule, Status
  <2>4. QED
    BY <1>3, <2>3 DEF TypeOK, Schedule, slots, files, past
<1>4. CASE ProcessTasks
  <2>1. PICK S \in SUBSET Due, t \in Due :
          ExecuteTask(t) /\ batch' = S \ {t}
    BY <1>4 DEF ProcessTasks
  <2>2. Due \subseteq Task
    BY DEF TypeOK, Due
  <2>3. QED
    BY <1>4, <2>1, <2>2, ExecuteTaskType DEF TypeOK, ProcessTasks, files, life, past
<1>5. CASE ExecuteNext
  <2>1. PICK t \in batch : ExecuteTask(t) /\ batch' = batch \ {t}
    BY <1>5 DEF ExecuteNext
  <2>2. t \in Task
    BY DEF TypeOK
  <2>3. QED
    BY <1>5, <2>1, <2>2, ExecuteTaskType DEF TypeOK, ExecuteNext, files, life, past
<1>6. CASE BeginSave
  BY <1>6, ImageTypes, BeginSaveImages DEF TypeOK, BeginSave, memory, slots, life, past
<1>7. CASE EndSave
  <2>1. PICK k \in 1..Len(saving) :
          /\ saving' = RemoveAt(saving, k) /\ overtaken' = (overtaken \/ k > 1)
          /\ \/ /\ disk' = saving[k]
                /\ settled' = settled \cup {t \in Task : saving[k].status[t] \in Finished}
             \/ disk' = EmptyImage("partial") /\ UNCHANGED settled
    BY <1>7 DEF EndSave
  <2>2. saving' \in Seq(Image) /\ disk' \in Image
    BY <2>1, ImageTypes, EndSaveImages
  <2>3. overtaken' \in BOOLEAN /\ settled' \subseteq Task
    BY <2>1 DEF TypeOK
  <2>4. QED
    BY <1>7, <2>2, <2>3 DEF TypeOK, EndSave, memory, slots, life
<1>8. CASE Crash
  <2>1. crashes' \in 0..MaxCrashes
    BY <1>8, ConstantsAssumption DEF TypeOK, Crash
  <2>2. /\ status' \in [Task -> Status]
        /\ retryCount' \in [Task -> Nat] /\ runCount' \in [Task -> Nat]
    BY <1>8 DEF Crash, Status
  <2>3. saving' \in Seq(Image) /\ settled' \subseteq Task
    BY <1>8 DEF TypeOK, Crash
  <2>4. QED
    BY <1>8, <2>1, <2>2, <2>3 DEF TypeOK, Crash
<1>9. CASE Boot
  <2>1. /\ disk.status \in [Task -> Status]
        /\ disk.runCount \in [Task -> Nat]
    BY DEF TypeOK, Image
  <2>2. status' \in [Task -> Status]
    BY <1>9, <2>1 DEF Boot, RestoredStatus, Status
  <2>3. QED
    BY <1>9, <2>1, <2>2 DEF TypeOK, Boot, slots, files, past
<1>10. ASSUME NEW t \in Task, CancelTask(t) PROVE TypeOK'
  <2>1. status' \in [Task -> Status] /\ aborted' \subseteq runningTasks
    BY <1>10, MarkCancelledType DEF CancelTask
  <2>2. QED
    BY <1>10, <2>1 DEF TypeOK, CancelTask, files, life, past
<1>11. ASSUME NEW t \in Task, RemoveTask(t) PROVE TypeOK'
  <2>1. status' \in [Task -> Status] /\ aborted' \subseteq runningTasks
    BY <1>11, MarkCancelledType DEF RemoveTask, TypeOK
  <2>2. QED
    BY <1>11, <2>1 DEF TypeOK, RemoveTask, files, life, past
<1>12. ASSUME NEW t \in Task, BecomeDue(t) PROVE TypeOK'
  BY <1>12 DEF TypeOK, BecomeDue, slots, files, life, past
<1>13. ASSUME NEW t \in Task, HandlerSucceeds(t) PROVE TypeOK'
  <2>1. PICK outcome \in AfterListeners(t, "completed") : Finally(t, outcome, retryCount[t])
    BY <1>13 DEF HandlerSucceeds
  <2>2. outcome \in Status /\ retryCount[t] \in Nat /\ zombies' \subseteq Task
    BY <1>13, OutcomeTypes DEF TypeOK, HandlerSucceeds, Status
  <2>3. QED
    BY <2>1, <2>2, FinallyType
<1>14. ASSUME NEW t \in Task, HandlerFails(t) \/ TimesOut(t) PROVE TypeOK'
  <2>1. PICK outcome \in FailureOutcomes(t) : Finally(t, outcome, retryCount[t] + 1)
    BY <1>14 DEF HandlerFails, TimesOut
  <2>2. outcome \in Status /\ retryCount[t] + 1 \in Nat /\ zombies' \subseteq Task
    BY <1>14, OutcomeTypes DEF TypeOK, HandlerFails, TimesOut, Status
  <2>3. QED
    BY <2>1, <2>2, FinallyType
<1>15. ASSUME NEW t \in Task, ZombieEnds(t) PROVE TypeOK'
  BY <1>15 DEF TypeOK, ZombieEnds, memory, files, life, past
<1>16. CASE UNCHANGED vars
  BY <1>16 DEF TypeOK, vars, memory, slots, files, life, past
<1>17. QED
  BY <1>1, <1>2, <1>3, <1>4, <1>5, <1>6, <1>7, <1>8, <1>9, <1>10, <1>11, <1>12,
     <1>13, <1>14, <1>15, <1>16 DEF Next

\* TypeOK is an invariant of the scheduler: counters stay natural numbers, a
\* status is one of the code's five, only running tasks are aborted.
THEOREM TypeCorrect == Spec => []TypeOK
BY InitType, StepType, PTL DEF Spec

-----------------------------------------------------------------------------
(***************************************************************************)
(* Slots. ConcurrencyLimit is not inductive: a pass computes how many      *)
(* tasks it starts once, so the slots already promised to the rest of its  *)
(* batch count too. SlotAccounting keeps a promised task from holding a    *)
(* slot already, and needs a fresh id to be really fresh.                  *)
(***************************************************************************)
SlotBudget == Cardinality(runningTasks) + Cardinality(batch) <= MaxConcurrentTasks

\* Ids above "issued" have never been used, in memory or on disk.
Fresh(t) ==
    /\ t \notin tasks \cup runningTasks \cup batch
    /\ runCount[t] = 0 /\ retryCount[t] = 0
    /\ disk.status[t] = "none" /\ disk.runCount[t] = 0
    /\ \A image \in InFlight : image.status[t] = "none" /\ image.runCount[t] = 0
    /\ t \notin settled
FreshIds == \A t \in Task : t > issued => Fresh(t)

\* A process that is down holds nothing.
DownIsEmpty ==
    ~up => /\ runningTasks = {} /\ batch = {} /\ saving = <<>> /\ ~overtaken
           /\ retryCount = [t \in Task |-> 0] /\ tasks = {}

SlotInv == TypeOK /\ FreshIds /\ DownIsEmpty /\ SlotAccounting /\ SlotBudget

\* Sets of tasks are finite, with a size that is a natural number.
LEMMA TaskSetsAreFinite ==
    ASSUME NEW S \in SUBSET Task
    PROVE  IsFiniteSet(S) /\ Cardinality(S) \in Nat
<1>1. IsFiniteSet(Task)
  BY ConstantsAssumption, FS_Interval DEF Task
<1>2. IsFiniteSet(S)
  BY <1>1, FS_Subset
<1>3. QED
  BY <1>2, FS_CardinalityType

\* Only schedule() uses a new id; saving and restoring move known ones.
LEMMA FreshIdsStep == SlotInv /\ [Next]_vars => FreshIds'
<1> SUFFICES ASSUME SlotInv, [Next]_vars, NEW t \in Task, t > issued' PROVE Fresh(t)'
  BY DEF FreshIds
<1>0. TypeOK /\ FreshIds
  BY DEF SlotInv
<1>1. CASE Schedule
  <2>1. t > issued /\ t # issued + 1
    BY <1>0, <1>1 DEF Schedule, TypeOK, Task
  <2>2. QED
    BY <1>0, <1>1, <2>1 DEF Schedule, FreshIds, Fresh, InFlight, slots, files, past
<1>2. CASE ~Schedule
  <2>1. issued' = issued
    BY <1>2 DEF Next, vars, memory, slots, files, life, past, Start, Stop, ProcessTasks, ExecuteNext,
       BeginSave, EndSave, Crash, Boot, CancelTask, RemoveTask, BecomeDue, HandlerSucceeds,
       HandlerFails, TimesOut, ZombieEnds, Finally
  <2>2. Fresh(t)
    BY <1>0, <2>1 DEF FreshIds
  <2>3. \A k : EmptyImage(k).status[t] = "none" /\ EmptyImage(k).runCount[t] = 0
    BY DEF EmptyImage
  <2>4. ASSUME NEW u \in Task, u # t, ExecuteTask(u)
        PROVE  t \notin runningTasks' /\ runCount'[t] = 0
    BY <1>0, <2>2, <2>4 DEF ExecuteTask, Fresh, TypeOK
  <2>5. CASE ProcessTasks
    <3>1. PICK S \in SUBSET Due, u \in Due : ExecuteTask(u) /\ batch' = S \ {u}
      BY <2>5 DEF ProcessTasks
    <3>2. u \in Task /\ u # t /\ t \notin batch'
      BY <1>0, <2>2, <3>1 DEF Due, Fresh, TypeOK
    <3>3. QED
      BY <2>2, <2>4, <2>5, <3>1, <3>2 DEF ProcessTasks, Fresh, InFlight, files, past
  <2>6. CASE ExecuteNext
    <3>1. PICK u \in batch : ExecuteTask(u) /\ batch' = batch \ {u}
      BY <2>6 DEF ExecuteNext
    <3>2. u \in Task /\ u # t /\ t \notin batch'
      BY <1>0, <2>2, <3>1 DEF Fresh, TypeOK
    <3>3. QED
      BY <2>2, <2>4, <2>6, <3>1, <3>2 DEF ExecuteNext, Fresh, InFlight, files, past
  <2>7. CASE BeginSave
    <3>1. Snapshot.status[t] = "none" /\ Snapshot.runCount[t] = 0
      BY <2>2 DEF Snapshot, Serialized, Fresh
    <3>2. QED
      BY <1>0, <2>2, <2>3, <2>7, <3>1, BeginSaveImages DEF BeginSave, Fresh, memory, slots, past
  <2>8. CASE EndSave
    <3>1. PICK k \in 1..Len(saving) :
            /\ saving' = RemoveAt(saving, k)
            /\ \/ /\ disk' = saving[k]
                  /\ settled' = settled \cup {u \in Task : saving[k].status[u] \in Finished}
               \/ disk' = EmptyImage("partial") /\ UNCHANGED settled
      BY <2>8 DEF EndSave
    <3>2. InFlight' \subseteq InFlight /\ saving[k] \in InFlight
      BY <1>0, <3>1, EndSaveImages
    <3>3. saving[k].status[t] = "none" /\ saving[k].runCount[t] = 0
      BY <2>2, <3>2 DEF Fresh
    <3>4. t \notin settled' /\ disk'.status[t] = "none" /\ disk'.runCount[t] = 0
      BY <2>2, <2>3, <3>1, <3>3 DEF Fresh, Finished
    <3>5. QED
      BY <2>2, <2>8, <3>2, <3>4 DEF EndSave, Fresh, memory, slots
  <2>9. CASE Crash
    <3>1. InFlight' = {} /\ settled' \subseteq settled
      BY <2>9 DEF Crash, InFlight
    <3>2. QED
      BY <2>2, <2>9, <3>1 DEF Crash, Fresh
  <2>10. CASE Boot
    BY <2>2, <2>10 DEF Boot, Fresh, InFlight, slots, files, past
  <2>11. ASSUME NEW u \in Task, HandlerSucceeds(u) \/ HandlerFails(u) \/ TimesOut(u)
         PROVE  Fresh(t)'
    <3>1. u # t
      BY <2>2, <2>11 DEF HandlerSucceeds, HandlerFails, TimesOut, Fresh
    <3>2. QED
      BY <1>0, <2>2, <2>11, <3>1
      DEF HandlerSucceeds, HandlerFails, TimesOut, Finally, Fresh, InFlight, TypeOK, files, past
  <2>12. CASE Start \/ Stop \/ (\E u \in Task : \/ CancelTask(u) \/ RemoveTask(u)
                                              \/ BecomeDue(u) \/ ZombieEnds(u))
    BY <2>2, <2>12 DEF Start, Stop, CancelTask, RemoveTask, BecomeDue, ZombieEnds,
       Fresh, InFlight, memory, slots, files, past
  <2>13. CASE UNCHANGED vars
    BY <2>2, <2>13 DEF vars, Fresh, InFlight, memory, slots, files, past
  <2>14. QED
    BY <1>2, <2>5, <2>6, <2>7, <2>8, <2>9, <2>10, <2>11, <2>12, <2>13 DEF Next
<1>3. QED
  BY <1>1, <1>2

\* Only a boot happens while the process is down.
LEMMA DownIsEmptyStep == DownIsEmpty /\ [Next]_vars => DownIsEmpty'
<1> SUFFICES ASSUME DownIsEmpty, [Next]_vars, ~up'
             PROVE  /\ runningTasks' = {} /\ batch' = {} /\ saving' = <<>> /\ ~overtaken'
                    /\ retryCount' = [t \in Task |-> 0] /\ tasks' = {}
  BY DEF DownIsEmpty
<1>1. CASE Crash
  BY <1>1 DEF Crash
<1>2. CASE ~Crash
  <2>1. ~Boot
    BY DEF Boot
  <2>2. UNCHANGED vars
    BY <1>2, <2>1 DEF Next, vars, memory, slots, files, life, past, Start, Stop, Schedule, ProcessTasks,
       ExecuteNext, BeginSave, EndSave, CancelTask, RemoveTask, BecomeDue, HandlerSucceeds,
       HandlerFails, TimesOut, ZombieEnds, Finally, EventLoop, CallerRuns
  <2>3. QED
    BY <2>2 DEF DownIsEmpty, vars, memory, slots, files, life, past
<1>3. QED
  BY <1>1, <1>2

\* A settled task gives its slot back and is not left "running".
LEMMA FinallyAccounting ==
    ASSUME SlotInv, NEW t \in Task, NEW outcome, NEW retries,
           outcome \in {"completed", "pending", "failed", "cancelled"},
           Finally(t, outcome, retries)
    PROVE  SlotAccounting' /\ SlotBudget'
<1>1. SlotAccounting'
  BY DEF SlotInv, TypeOK, SlotAccounting, Finally
<1>2. Cardinality(runningTasks \ {t}) <= Cardinality(runningTasks)
  <2>1. IsFiniteSet(runningTasks) /\ Cardinality(runningTasks) \in Nat
    BY TaskSetsAreFinite DEF SlotInv, TypeOK
  <2>2. QED
    BY <2>1, FS_RemoveElement
<1>3. runningTasks' = runningTasks \ {t} /\ batch' = batch
  BY DEF Finally
<1>4. /\ Cardinality(runningTasks) \in Nat /\ Cardinality(batch) \in Nat
      /\ Cardinality(runningTasks \ {t}) \in Nat
  BY TaskSetsAreFinite DEF SlotInv, TypeOK
<1>5. SlotBudget'
  BY <1>2, <1>3, <1>4, ConstantsAssumption DEF SlotInv, SlotBudget
<1>6. QED
  BY <1>1, <1>5

\* Starting one task of a list that fits in the free slots.
LEMMA ExecuteTaskAccounting ==
    ASSUME SlotInv, NEW S \in SUBSET Task, NEW t \in S,
           S \cap runningTasks = {},
           Cardinality(S) <= MaxConcurrentTasks - Cardinality(runningTasks),
           ExecuteTask(t), batch' = S \ {t}
    PROVE  SlotAccounting' /\ SlotBudget'
<1>1. t \in Task /\ t \notin runningTasks
  OBVIOUS
<1>2. /\ runningTasks' = runningTasks \cup {t}
      /\ status' = [status EXCEPT ![t] = "running"]
  BY <1>1 DEF ExecuteTask
<1>3. SlotAccounting'
  BY <1>1, <1>2 DEF SlotInv, TypeOK, SlotAccounting
<1>4. /\ IsFiniteSet(S) /\ IsFiniteSet(runningTasks)
      /\ Cardinality(S) \in Nat /\ Cardinality(runningTasks) \in Nat
  BY TaskSetsAreFinite DEF SlotInv, TypeOK
<1>5. /\ Cardinality(runningTasks \cup {t}) = Cardinality(runningTasks) + 1
      /\ Cardinality(S \ {t}) = Cardinality(S) - 1
  BY <1>1, <1>4, FS_AddElement, FS_RemoveElement
<1>6. SlotBudget'
  BY <1>2, <1>4, <1>5, ConstantsAssumption DEF SlotBudget
<1>7. QED
  BY <1>3, <1>6

\* Every step keeps the slots accounted for and within the limit.
LEMMA SlotStep == SlotInv /\ [Next]_vars => SlotAccounting' /\ SlotBudget'
<1> SUFFICES ASSUME SlotInv, [Next]_vars PROVE SlotAccounting' /\ SlotBudget'
  OBVIOUS
<1>1. ASSUME runningTasks' = runningTasks, batch' = batch PROVE SlotBudget'
  BY <1>1 DEF SlotInv, SlotBudget
<1>2. CASE Schedule
  <2>1. issued + 1 \in Task /\ issued + 1 > issued
    BY <1>2, ConstantsAssumption DEF SlotInv, TypeOK, Schedule, Task
  <2>2. issued + 1 \notin runningTasks
    BY <2>1 DEF SlotInv, FreshIds, Fresh
  <2>3. QED
    BY <1>1, <1>2, <2>1, <2>2 DEF SlotInv, TypeOK, SlotAccounting, Schedule, slots
<1>3. CASE ProcessTasks
  <2>1. PICK S \in SUBSET Due, t \in Due :
          TasksToRun(S) /\ First(S, t) /\ ExecuteTask(t) /\ batch' = S \ {t}
    BY <1>3 DEF ProcessTasks
  <2>2. S \in SUBSET Task /\ t \in S
    BY <2>1 DEF SlotInv, TypeOK, Due, First
  <2>3. S \cap runningTasks = {}
    BY <2>1 DEF SlotInv, SlotAccounting, Due
  <2>4. Cardinality(S) <= MaxConcurrentTasks - Cardinality(runningTasks)
    BY <2>1 DEF TasksToRun
  <2>5. QED
    BY <2>1, <2>2, <2>3, <2>4, ExecuteTaskAccounting
<1>4. CASE ExecuteNext
  <2>1. PICK t \in batch : ExecuteTask(t) /\ batch' = batch \ {t}
    BY <1>4 DEF ExecuteNext
  <2>2. batch \in SUBSET Task /\ batch \cap runningTasks = {}
    BY DEF SlotInv, TypeOK, SlotAccounting
  <2>3. Cardinality(batch) \in Nat /\ Cardinality(runningTasks) \in Nat
    BY TaskSetsAreFinite DEF SlotInv, TypeOK
  <2>4. Cardinality(batch) <= MaxConcurrentTasks - Cardinality(runningTasks)
    BY <2>3, ConstantsAssumption DEF SlotInv, SlotBudget
  <2>5. QED
    BY <2>1, <2>2, <2>4, ExecuteTaskAccounting
<1>5. CASE Crash
  <2>1. SlotAccounting'
    BY <1>5 DEF Crash, SlotAccounting
  <2>2. Cardinality({}) = 0
    BY FS_EmptySet
  <2>3. QED
    BY <1>5, <2>1, <2>2, ConstantsAssumption DEF Crash, SlotBudget
<1>6. CASE Boot
  <2>1. \A t \in Task : status'[t] # "running"
    BY <1>6 DEF Boot, RestoredStatus
  <2>2. runningTasks' = {} /\ batch' = {} /\ runningTasks = {} /\ batch = {}
    BY <1>6 DEF SlotInv, DownIsEmpty, Boot, slots
  <2>3. QED
    BY <1>1, <2>1, <2>2 DEF SlotAccounting
<1>7. ASSUME NEW t \in Task, CancelTask(t) \/ RemoveTask(t)
      PROVE  SlotAccounting' /\ SlotBudget'
  BY <1>1, <1>7 DEF CancelTask, RemoveTask, MarkCancelled, SlotInv, TypeOK, SlotAccounting
<1>8. ASSUME NEW t \in Task, HandlerSucceeds(t) PROVE SlotAccounting' /\ SlotBudget'
  BY <1>8, OutcomeTypes, FinallyAccounting DEF HandlerSucceeds
<1>9. ASSUME NEW t \in Task, HandlerFails(t) \/ TimesOut(t)
      PROVE  SlotAccounting' /\ SlotBudget'
  BY <1>9, OutcomeTypes, FinallyAccounting DEF HandlerFails, TimesOut
<1>10. CASE \/ Start \/ Stop \/ BeginSave \/ EndSave \/ UNCHANGED vars
            \/ \E t \in Task : BecomeDue(t) \/ ZombieEnds(t)
  BY <1>1, <1>10 DEF Start, Stop, BeginSave, EndSave, BecomeDue, ZombieEnds, SlotInv,
     SlotAccounting, vars, memory, slots
<1>11. QED
  BY <1>2, <1>3, <1>4, <1>5, <1>6, <1>7, <1>8, <1>9, <1>10 DEF Next

\* SlotInv is inductive.
LEMMA SlotInit == Init => SlotInv
<1>1. Init => TypeOK
  BY InitType
<1>2. Cardinality({}) = 0
  BY FS_EmptySet
<1>3. Init => SlotBudget
  BY <1>2, ConstantsAssumption DEF Init, SlotBudget
<1>4. QED
  BY <1>1, <1>3 DEF Init, SlotInv, FreshIds, Fresh, DownIsEmpty, SlotAccounting,
     NoImage, EmptyImage, InFlight

LEMMA SlotInvStep == SlotInv /\ [Next]_vars => SlotInv'
BY StepType, FreshIdsStep, DownIsEmptyStep, SlotStep DEF SlotInv

LEMMA SlotInvariant == Spec => []SlotInv
BY SlotInit, SlotInvStep, PTL DEF Spec

\* However tasks, callbacks, timeouts and crashes interleave, at most
\* maxConcurrentTasks tasks hold a slot.
THEOREM SlotsCorrect == Spec => []ConcurrencyLimit
<1>1. SlotInv => ConcurrencyLimit
  <2> SUFFICES ASSUME SlotInv PROVE ConcurrencyLimit
    OBVIOUS
  <2>1. Cardinality(runningTasks) \in Nat /\ Cardinality(batch) \in Nat
    BY TaskSetsAreFinite DEF SlotInv, TypeOK
  <2>2. QED
    BY <2>1, ConstantsAssumption DEF SlotInv, SlotBudget, ConcurrencyLimit
<1>2. QED
  BY <1>1, SlotInvariant, PTL

\* The statuses and the slots agree: a running task holds a slot, the holder
\* of a slot is running or was cancelled, and a pass starts nobody twice.
THEOREM SlotsAreAccounted == Spec => []SlotAccounting
<1>1. SlotInv => SlotAccounting
  BY DEF SlotInv
<1>2. QED
  BY <1>1, SlotInvariant, PTL

-----------------------------------------------------------------------------
(***************************************************************************)
(* The run budget. A waiting task must have an attempt left, so the bound  *)
(* on runCount is split by where the task is: waiting, running, or in an   *)
(* image of the state file, where retryCount is lost. An image written in  *)
(* an earlier life was written before a crash that forgives the retries.   *)
(***************************************************************************)
MayRun(t, runs, retries) ==
    retries <= MaxRetries[t] /\ runs + 1 <= Runs(t) + retries + RetriesForgiven(t)

Waits(t) == status[t] = "pending" \/ t \in batch

MemoryBudget(t) ==
    /\ Waits(t) => MayRun(t, runCount[t], retryCount[t])
    /\ t \in runningTasks => /\ retryCount[t] <= MaxRetries[t]
                            /\ runCount[t] <= Runs(t) + retryCount[t] + RetriesForgiven(t)
    /\ runCount[t] <= Runs(t) + MaxRetries[t] + RetriesForgiven(t)

ImageBudget(image, t, retries) ==
    /\ image.status[t] # "running"
    /\ image.status[t] = "pending" => MayRun(t, image.runCount[t], retries)
    /\ image.runCount[t] <= Runs(t) + MaxRetries[t] + RetriesForgiven(t)

TaskBudget(t) ==
    /\ MemoryBudget(t)
    /\ \A image \in InFlight : ImageBudget(image, t, MaxRetries[t])
    /\ ImageBudget(disk, t, IF up THEN MaxRetries[t] ELSE 0)

BudgetInv == SlotInv /\ \A t \in Task : Counted(t) => TaskBudget(t)

\* Arithmetic of the budget: all numbers are natural, a restart forgives
\* maxRetries, and a counted task is asked for at least one run if it is new
\* or scheduleNextRun wants it again.
LEMMA BudgetTypes ==
    ASSUME TypeOK, NEW t \in Task
    PROVE  /\ RetriesForgiven(t) \in Nat
           /\ Runs(t) \in Nat
           /\ MaxRetries[t] \in Nat
           /\ Counted(t) => Runs(t) >= 1
           /\ crashes' = crashes => RetriesForgiven(t)' = RetriesForgiven(t)
           /\ crashes' = crashes + 1 =>
                RetriesForgiven(t)' = RetriesForgiven(t) + MaxRetries[t]
<1>1. crashes \in Nat /\ MaxRetries[t] \in Nat /\ MaxRuns[t] \in Nat
  BY ConstantsAssumption DEF TypeOK
<1>2. \A c, m \in Nat : c * m \in Nat /\ (c + 1) * m = c * m + m
  OBVIOUS
<1>3. RetriesForgiven(t) \in Nat
  BY <1>1, <1>2 DEF RetriesForgiven
<1>4. crashes' = crashes + 1 =>
        RetriesForgiven(t)' = RetriesForgiven(t) + MaxRetries[t]
  BY <1>1, <1>2 DEF RetriesForgiven
<1>5. crashes' = crashes => RetriesForgiven(t)' = RetriesForgiven(t)
  BY DEF RetriesForgiven
<1>6. Runs(t) \in Nat /\ (Counted(t) => Runs(t) >= 1)
  BY <1>1 DEF Runs, Counted
<1>7. QED
  BY <1>1, <1>3, <1>4, <1>5, <1>6

\* Starting a task that waits uses the attempt it had left.
LEMMA ExecuteTaskBudget ==
    ASSUME SlotInv, NEW t \in Task, Counted(t), MemoryBudget(t), NEW u \in Task,
           ExecuteTask(u), Waits(u), u \notin runningTasks, u \notin batch',
           \A v \in batch' : Waits(v), retryCount' = retryCount, crashes' = crashes
    PROVE  MemoryBudget(t)'
<1>1. /\ runningTasks' = runningTasks \cup {u}
      /\ status' = [status EXCEPT ![u] = "running"]
      /\ runCount' = IF Counted(u) THEN [runCount EXCEPT ![u] = @ + 1] ELSE runCount
  BY DEF ExecuteTask
<1>2. /\ runCount[t] \in Nat /\ retryCount[t] \in Nat
      /\ status \in [Task -> Status] /\ runCount \in [Task -> Nat]
  BY DEF SlotInv, TypeOK
<1>3. /\ RetriesForgiven(t) \in Nat /\ Runs(t) \in Nat /\ MaxRetries[t] \in Nat
      /\ RetriesForgiven(t)' = RetriesForgiven(t)
  BY BudgetTypes DEF SlotInv
<1>4. CASE u = t
  <2>1. status'[t] # "pending" /\ t \notin batch' /\ runCount'[t] = runCount[t] + 1
    BY <1>1, <1>2, <1>4
  <2>2. MayRun(t, runCount[t], retryCount[t])
    BY <1>4 DEF MemoryBudget
  <2>3. QED
    BY <1>2, <1>3, <2>1, <2>2 DEF MemoryBudget, Waits, MayRun, Runs
<1>5. CASE u # t
  <2>1. /\ status'[t] = status[t] /\ runCount'[t] = runCount[t]
        /\ t \in runningTasks' <=> t \in runningTasks
    BY <1>1, <1>2, <1>5
  <2>2. Waits(t)' => Waits(t)
    BY <2>1 DEF Waits
  <2>3. QED
    BY <1>3, <2>1, <2>2 DEF MemoryBudget, MayRun, Runs
<1>6. QED
  BY <1>4, <1>5

\* A settled task waits again with an attempt left, or does not wait.
LEMMA FinallyBudget ==
    ASSUME SlotInv, NEW t \in Task, Counted(t), MemoryBudget(t), NEW u \in Task,
           u \in runningTasks, NEW outcome, NEW retries \in Nat,
           Finally(u, outcome, retries),
           \/ outcome \in {"completed", "cancelled", "failed"}
           \/ outcome = "pending" /\ retries = retryCount[u] + 1 /\ retries <= MaxRetries[u]
    PROVE  MemoryBudget(t)'
<1>1. /\ runningTasks' = runningTasks \ {u} /\ batch' = batch /\ runCount' = runCount
      /\ crashes' = crashes
      /\ status' = [status EXCEPT ![u] = IF RunsAgain(u, outcome) THEN "pending" ELSE outcome]
      /\ retryCount' = [retryCount EXCEPT ![u] = IF RunsAgain(u, outcome) THEN 0 ELSE retries]
  BY DEF Finally, life
<1>2. /\ runCount[t] \in Nat /\ retryCount[t] \in Nat
      /\ status \in [Task -> Status] /\ retryCount \in [Task -> Nat]
  BY DEF SlotInv, TypeOK
<1>3. /\ RetriesForgiven(t) \in Nat /\ Runs(t) \in Nat /\ MaxRetries[t] \in Nat
      /\ RetriesForgiven(t)' = RetriesForgiven(t)
  BY <1>1, BudgetTypes DEF SlotInv
<1>4. CASE u # t
  <2>1. /\ status'[t] = status[t] /\ retryCount'[t] = retryCount[t]
        /\ t \in runningTasks' <=> t \in runningTasks
    BY <1>1, <1>2, <1>4
  <2>2. QED
    BY <1>1, <1>3, <2>1 DEF MemoryBudget, Waits, MayRun, Runs
<1>5. CASE u = t
  <2>1. t \notin runningTasks' /\ t \notin batch'
    BY <1>1, <1>5 DEF SlotInv, SlotAccounting
  <2>2. CASE RunsAgain(t, outcome)
    <3>1. retryCount'[t] = 0
      BY <1>1, <1>2, <1>5, <2>2
    <3>2. MaxRuns[t] \in Nat /\ runCount[t] < MaxRuns[t] /\ Runs(t) = MaxRuns[t]
      BY <1>2, <2>2, ConstantsAssumption DEF RunsAgain, Counted, Runs
    <3>3. QED
      BY <1>1, <1>2, <1>3, <2>1, <3>1, <3>2 DEF MemoryBudget, MayRun, Runs
  <2>3. CASE ~RunsAgain(t, outcome)
    <3>1. status'[t] = outcome /\ retryCount'[t] = retries
      BY <1>1, <1>2, <1>5, <2>3
    <3>2. runCount[t] <= Runs(t) + retryCount[t] + RetriesForgiven(t)
      BY <1>5 DEF MemoryBudget
    <3>3. QED
      BY <1>1, <1>2, <1>3, <1>5, <2>1, <3>1, <3>2 DEF MemoryBudget, Waits, MayRun, Runs
  <2>4. QED
    BY <2>2, <2>3
<1>6. QED
  BY <1>4, <1>5

\* Every step keeps every counted task within its budget.
LEMMA BudgetStep ==
    ASSUME BudgetInv, [Next]_vars, NEW t \in Task, Counted(t)
    PROVE  TaskBudget(t)'
<1>1. SlotInv /\ TypeOK /\ TaskBudget(t) /\ MemoryBudget(t)
  BY DEF BudgetInv, SlotInv, TaskBudget
<1>2. /\ runCount[t] \in Nat /\ retryCount[t] \in Nat /\ status \in [Task -> Status]
      /\ RetriesForgiven(t) \in Nat /\ Runs(t) \in Nat /\ MaxRetries[t] \in Nat
      /\ disk.runCount[t] \in Nat /\ Runs(t) >= 1
  BY <1>1, BudgetTypes DEF TypeOK, Image
<1>3. \A k : EmptyImage(k).status[t] = "none" /\ EmptyImage(k).runCount[t] = 0
  BY DEF EmptyImage
<1>4. ASSUME UNCHANGED <<saving, disk, up, crashes>>, MemoryBudget(t)' PROVE TaskBudget(t)'
  BY <1>1, <1>4, BudgetTypes DEF TaskBudget, ImageBudget, InFlight, MayRun, Runs
<1>5. ASSUME UNCHANGED <<runCount, retryCount, runningTasks, crashes>>, Waits(t)' => Waits(t)
      PROVE  MemoryBudget(t)'
  BY <1>1, <1>5, BudgetTypes DEF MemoryBudget, MayRun, Runs
<1>6. CASE Schedule
  <2>1. CASE t = issued + 1
    <3>1. Fresh(t)
      BY <1>1, <2>1, ConstantsAssumption DEF SlotInv, FreshIds, TypeOK, Task
    <3>2. runCount'[t] = 0 /\ retryCount'[t] = 0 /\ t \notin runningTasks'
      BY <1>6, <3>1 DEF Schedule, Fresh, slots
    <3>3. RetriesForgiven(t)' = RetriesForgiven(t)
      BY <1>1, <1>6, BudgetTypes DEF Schedule
    <3>4. MemoryBudget(t)'
      BY <1>2, <3>2, <3>3 DEF MemoryBudget, MayRun, Runs
    <3>5. QED
      BY <1>4, <1>6, <3>4 DEF Schedule, files
  <2>2. CASE t # issued + 1
    BY <1>2, <1>4, <1>5, <1>6, <2>2 DEF Schedule, slots, files, Waits
  <2>3. QED
    BY <2>1, <2>2
<1>7. CASE ProcessTasks
  <2>1. PICK S \in SUBSET Due, u \in Due : ExecuteTask(u) /\ batch' = S \ {u}
    BY <1>7 DEF ProcessTasks
  <2>2. /\ u \in Task /\ Waits(u) /\ u \notin runningTasks /\ u \notin batch'
        /\ \A v \in batch' : Waits(v)
    BY <1>1, <2>1 DEF Due, Waits, TypeOK, SlotInv, SlotAccounting
  <2>3. MemoryBudget(t)'
    BY <1>1, <1>7, <2>1, <2>2, ExecuteTaskBudget DEF ProcessTasks, life
  <2>4. QED
    BY <1>4, <1>7, <2>3 DEF ProcessTasks, files, life
<1>8. CASE ExecuteNext
  <2>1. PICK u \in batch : ExecuteTask(u) /\ batch' = batch \ {u}
    BY <1>8 DEF ExecuteNext
  <2>2. /\ u \in Task /\ Waits(u) /\ u \notin runningTasks /\ u \notin batch'
        /\ \A v \in batch' : Waits(v)
    BY <1>1, <2>1 DEF Waits, TypeOK, SlotInv, SlotAccounting
  <2>3. MemoryBudget(t)'
    BY <1>1, <1>8, <2>1, <2>2, ExecuteTaskBudget DEF ExecuteNext, life
  <2>4. QED
    BY <1>4, <1>8, <2>3 DEF ExecuteNext, files, life
<1>9. ASSUME NEW u \in Task, HandlerSucceeds(u) PROVE TaskBudget(t)'
  <2>1. PICK outcome \in AfterListeners(u, "completed") : Finally(u, outcome, retryCount[u])
    BY <1>9 DEF HandlerSucceeds
  <2>2. outcome \in {"completed", "cancelled"} /\ retryCount[u] \in Nat /\ u \in runningTasks
    BY <1>1, <1>9, OutcomeTypes DEF HandlerSucceeds, TypeOK
  <2>3. MemoryBudget(t)'
    BY <1>1, <2>1, <2>2, FinallyBudget
  <2>4. QED
    BY <1>4, <2>1, <2>3 DEF Finally, files, life
<1>10. ASSUME NEW u \in Task, HandlerFails(u) \/ TimesOut(u) PROVE TaskBudget(t)'
  <2>1. PICK outcome \in FailureOutcomes(u) : Finally(u, outcome, retryCount[u] + 1)
    BY <1>10 DEF HandlerFails, TimesOut
  <2>2. retryCount[u] + 1 \in Nat /\ u \in runningTasks
    BY <1>1, <1>10 DEF HandlerFails, TimesOut, TypeOK
  <2>3. \/ outcome \in {"completed", "cancelled", "failed"}
        \/ outcome = "pending" /\ retryCount[u] + 1 <= MaxRetries[u]
    BY DEF FailureOutcomes, AfterListeners
  <2>4. MemoryBudget(t)'
    BY <1>1, <2>1, <2>2, <2>3, FinallyBudget
  <2>5. QED
    BY <1>4, <2>1, <2>4 DEF Finally, files, life
<1>11. CASE BeginSave
  <2>1. MemoryBudget(t)' /\ RetriesForgiven(t)' = RetriesForgiven(t)
    BY <1>1, <1>5, <1>11, BudgetTypes DEF BeginSave, memory, slots, life, Waits
  <2>2. /\ Snapshot.status[t] # "running"
        /\ Snapshot.status[t] = "pending" => status[t] = "pending" /\ Snapshot.runCount[t] = runCount[t]
        /\ Snapshot.runCount[t] \in {0, runCount[t]}
    BY DEF Snapshot, Serialized
  <2>3. retryCount[t] <= MaxRetries[t] \/ Snapshot.status[t] # "pending"
    BY <1>1, <2>2 DEF MemoryBudget, Waits, MayRun
  <2>4. ImageBudget(Snapshot, t, MaxRetries[t])
    BY <1>1, <1>2, <2>2, <2>3 DEF ImageBudget, MemoryBudget, Waits, MayRun, Runs
  <2>5. \A image \in InFlight' : ImageBudget(image, t, MaxRetries[t])
    BY <1>1, <1>11, <2>4, BeginSaveImages DEF TaskBudget
  <2>6. (\A image \in InFlight : ImageBudget(image, t, MaxRetries[t]))'
    BY <2>1, <2>5 DEF ImageBudget, MayRun, Runs
  <2>7. disk'.status[t] = "none" /\ disk'.runCount[t] = 0
    BY <1>3, <1>11 DEF BeginSave
  <2>8. QED
    BY <1>2, <2>1, <2>6, <2>7 DEF TaskBudget, ImageBudget, MayRun, Runs
<1>12. CASE EndSave
  <2>1. MemoryBudget(t)' /\ RetriesForgiven(t)' = RetriesForgiven(t) /\ up'
    BY <1>1, <1>5, <1>12, BudgetTypes DEF EndSave, memory, slots, life, Waits
  <2>2. InFlight' \subseteq InFlight /\ disk' \in InFlight \cup {EmptyImage("partial")}
    BY <1>1, <1>12, EndSaveImages DEF EndSave
  <2>3. ImageBudget(EmptyImage("partial"), t, MaxRetries[t])
    BY <1>2, <1>3 DEF ImageBudget
  <2>4. \A image \in InFlight' \cup {disk'} : ImageBudget(image, t, MaxRetries[t])
    BY <1>1, <2>2, <2>3 DEF TaskBudget
  <2>5. (\A image \in InFlight \cup {disk} : ImageBudget(image, t, MaxRetries[t]))'
    BY <2>1, <2>4 DEF ImageBudget, MayRun, Runs
  <2>6. QED
    BY <2>1, <2>5 DEF TaskBudget
<1>13. CASE Crash
  <2>1. RetriesForgiven(t)' = RetriesForgiven(t) + MaxRetries[t]
    BY <1>1, <1>13, BudgetTypes DEF Crash
  <2>2. /\ status'[t] = "none" /\ runCount'[t] = 0 /\ batch' = {} /\ runningTasks' = {}
        /\ InFlight' = {} /\ disk' = disk /\ ~up' /\ up
    BY <1>13 DEF Crash, InFlight
  <2>3. QED
    BY <1>1, <1>2, <2>1, <2>2 DEF TaskBudget, MemoryBudget, ImageBudget, Waits, MayRun, Runs
<1>14. CASE Boot
  <2>1. /\ RetriesForgiven(t)' = RetriesForgiven(t) /\ retryCount'[t] = 0
        /\ runningTasks' = {} /\ batch' = {} /\ saving' = saving /\ disk' = disk
        /\ ~up /\ up' /\ runCount'[t] = disk.runCount[t]
    BY <1>1, <1>14, BudgetTypes DEF Boot, SlotInv, DownIsEmpty, slots, files
  <2>2. InFlight' = InFlight
    BY <2>1 DEF InFlight
  <2>3. status'[t] = disk.status[t]
    BY <1>1, <1>14 DEF Boot, RestoredStatus, TaskBudget, ImageBudget
  <2>4. QED
    BY <1>1, <1>2, <2>1, <2>2, <2>3 DEF TaskBudget, MemoryBudget, ImageBudget, Waits, MayRun, Runs
<1>15. ASSUME NEW u \in Task, CancelTask(u) \/ RemoveTask(u) PROVE TaskBudget(t)'
  <2>1. Waits(t)' => Waits(t)
    BY <1>2, <1>15 DEF CancelTask, RemoveTask, MarkCancelled, Waits
  <2>2. QED
    BY <1>4, <1>5, <1>15, <2>1 DEF CancelTask, RemoveTask, files, life
<1>16. CASE \/ Start \/ Stop \/ UNCHANGED vars
            \/ \E u \in Task : BecomeDue(u) \/ ZombieEnds(u)
  BY <1>4, <1>5, <1>16 DEF Start, Stop, BecomeDue, ZombieEnds, Waits, vars, memory, slots,
     files, life
<1>17. QED
  BY <1>6, <1>7, <1>8, <1>9, <1>10, <1>11, <1>12, <1>13, <1>14, <1>15, <1>16 DEF Next

\* Neither retries, nor cancellations, nor restores from old state files let
\* a task with a limited number of runs be attempted without bound.
THEOREM RunsAreBounded == Spec => []RunBudget
<1>1. Init => BudgetInv
  <2> SUFFICES ASSUME Init, NEW t \in Task, Counted(t) PROVE TaskBudget(t)
    BY SlotInit DEF BudgetInv
  <2>1. TypeOK
    BY InitType
  <2>2. RetriesForgiven(t) \in Nat /\ Runs(t) \in Nat /\ MaxRetries[t] \in Nat
    BY <2>1, BudgetTypes
  <2>3. QED
    BY <2>2 DEF Init, TaskBudget, MemoryBudget, ImageBudget, InFlight, Waits, MayRun, NoImage,
       EmptyImage
<1>2. BudgetInv /\ [Next]_vars => BudgetInv'
  <2>1. BudgetInv /\ [Next]_vars => SlotInv'
    BY SlotInvStep DEF BudgetInv
  <2>2. ASSUME BudgetInv, [Next]_vars
        PROVE  \A t \in Task : Counted(t)' => TaskBudget(t)'
    BY <2>2, BudgetStep DEF Counted
  <2>3. QED
    BY <2>1, <2>2 DEF BudgetInv
<1>3. BudgetInv => RunBudget
  BY DEF BudgetInv, TaskBudget, MemoryBudget, RunBudget
<1>4. QED
  BY <1>1, <1>2, <1>3, PTL DEF Spec

-----------------------------------------------------------------------------
(***************************************************************************)
(* What is over stays over. An image of the state file may be older than   *)
(* the memory, but a task it holds as finished has left the slots and the  *)
(* waiting line since. That needs to know what a pass may still start, and *)
(* that a new id has no status. Saves in flight are ordered by age: what   *)
(* an older one holds as finished no younger one holds as waiting, so only *)
(* a save that ended before an older one lets the file go back. Without    *)
(* callbacks into the scheduler nothing happens between two tasks of a     *)
(* pass: they stay pending and the timer stays armed, so that stop() is    *)
(* not overtaken by the rest of the batch.                                 *)
(***************************************************************************)
Over(t) == t \notin runningTasks \cup batch /\ status[t] \notin {"pending", "running"}

BatchWaits ==
    /\ \A t \in Task : t > issued => status[t] = "none"
    /\ \A t \in batch : status[t] \in {"pending", "cancelled"}

\* What the file holds, a save in flight holds or the file has held as finished.
Held(t) ==
    \/ t \in settled
    \/ \E image \in {disk} \cup InFlight : image.status[t] \in Finished

OverInv ==
    /\ BatchWaits
    /\ \A t \in Task : Held(t) => Over(t)

\* No image holds a task as running, images in flight get younger, and the
\* file and the saves agree with what was settled unless one was overtaken.
FileOrder ==
    /\ \A t \in Task, image \in {disk} \cup InFlight : image.status[t] # "running"
    /\ \A i, j \in 1..Len(saving) :
         i < j => \A t \in Task : saving[i].status[t] \in Finished
                                    => saving[j].status[t] # "pending"
    /\ ~overtaken =>
         \A t \in settled, image \in {disk} \cup InFlight : image.status[t] # "pending"

QuietInv ==
    /\ batch # {} => started
    /\ StopAbortsAll
QuietUnlessReentrant == ~Reentrant => QuietInv

FinishInv == SlotInv /\ OverInv /\ FileOrder /\ QuietUnlessReentrant

\* A settled task disturbs no task that is over, and no batch.
LEMMA FinallyOver ==
    ASSUME FinishInv, NEW u \in Task, u \in runningTasks,
           NEW outcome \in Status \ {"running"}, NEW retries,
           Finally(u, outcome, retries)
    PROVE  OverInv' /\ QuietUnlessReentrant'
<1>1. u \notin batch /\ ~Over(u) /\ \A t \in Task : status'[t] = status[t] \/ t = u
  BY DEF FinishInv, SlotInv, SlotAccounting, Over, TypeOK, Finally
<1>2. \A t \in Task : t > issued => t # u
  BY DEF FinishInv, SlotInv, FreshIds, Fresh
<1>3. BatchWaits'
  BY <1>1, <1>2 DEF FinishInv, OverInv, BatchWaits, Finally, life
<1>4. ASSUME NEW t \in Task, Over(t) PROVE Over(t)'
  BY <1>1, <1>4 DEF Over, Finally, SlotInv, TypeOK
<1>5. OverInv'
  BY <1>3, <1>4 DEF FinishInv, OverInv, Held, InFlight, Finally, files, past
<1>6. QuietUnlessReentrant'
  BY <1>1 DEF FinishInv, QuietUnlessReentrant, QuietInv, StopAbortsAll, Finally, SlotInv, TypeOK, life
<1>7. QED
  BY <1>5, <1>6

\* Starting one task of a pass starts no task that is over.
LEMMA ExecuteTaskOver ==
    ASSUME FinishInv, NEW S \in SUBSET Task, NEW u \in S,
           S \cap runningTasks = {}, batch \in {{}, S},
           \A t \in S : ~Over(t) /\ status[t] \in {"pending", "cancelled"},
           ~Reentrant => started,
           ExecuteTask(u), batch' = S \ {u},
           UNCHANGED <<disk, saving, settled, issued, started>>
    PROVE  OverInv' /\ QuietUnlessReentrant'
<1>1. /\ runningTasks' = runningTasks \cup {u} /\ status' = [status EXCEPT ![u] = "running"]
      /\ u \in Task /\ ~Over(u)
  BY DEF ExecuteTask
<1>2. \A t \in Task : t > issued => status[t] = "none"
  BY DEF FinishInv, OverInv, BatchWaits
<1>3. \A t \in Task : t > issued => t # u
  BY <1>2
<1>4. BatchWaits'
  BY <1>1, <1>2, <1>3 DEF FinishInv, BatchWaits, SlotInv, TypeOK
<1>5. ASSUME NEW t \in Task, Over(t) PROVE Over(t)'
  BY <1>1, <1>5 DEF Over, FinishInv, SlotInv, TypeOK
<1>6. OverInv'
  BY <1>4, <1>5 DEF FinishInv, OverInv, Held, InFlight
<1>7. ~Reentrant => started'
  OBVIOUS
<1>8. QED
  BY <1>6, <1>7 DEF QuietUnlessReentrant, QuietInv, StopAbortsAll

\* Every step keeps what is over, and, without reentrancy, the batch quiet.
LEMMA OverStep == FinishInv /\ [Next]_vars => OverInv' /\ QuietUnlessReentrant'
<1> SUFFICES ASSUME FinishInv, [Next]_vars PROVE OverInv' /\ QuietUnlessReentrant'
  OBVIOUS
<1>0. /\ TypeOK /\ FreshIds /\ DownIsEmpty /\ SlotAccounting
      /\ OverInv /\ BatchWaits /\ QuietUnlessReentrant
  BY DEF FinishInv, SlotInv, OverInv
<1>1. CASE Schedule
  <2>1. /\ issued + 1 \in Task /\ issued + 1 > issued
        /\ \A t \in Task : t > issued + 1 => t > issued
    BY <1>0, <1>1, ConstantsAssumption DEF TypeOK, Schedule, Task
  <2>2. Fresh(issued + 1)
    BY <1>0, <2>1 DEF FreshIds
  <2>3. ASSUME NEW t \in Task, t # issued + 1 PROVE Over(t) => Over(t)'
    BY <1>0, <1>1, <2>3 DEF Over, Schedule, slots, TypeOK
  <2>4. BatchWaits'
    BY <1>0, <1>1, <2>1, <2>2 DEF BatchWaits, Schedule, slots, TypeOK, Fresh, Task
  <2>5. OverInv'
    BY <1>0, <1>1, <2>2, <2>3, <2>4 DEF OverInv, Held, InFlight, Schedule, files, past, Fresh, Finished
  <2>6. QuietUnlessReentrant'
    BY <1>0, <1>1, <2>1, <2>2 DEF QuietUnlessReentrant, QuietInv, StopAbortsAll, Schedule, slots,
       TypeOK, Fresh
  <2>7. QED
    BY <2>5, <2>6
<1>2. CASE ProcessTasks
  <2>1. PICK S \in SUBSET Due, t \in Due :
          TasksToRun(S) /\ First(S, t) /\ ExecuteTask(t) /\ batch' = S \ {t}
    BY <1>2 DEF ProcessTasks
  <2>2. /\ S \in SUBSET Task /\ t \in S /\ S \cap runningTasks = {} /\ batch = {}
        /\ \A u \in S : ~Over(u) /\ status[u] = "pending"
    BY <1>0, <1>2, <2>1 DEF TypeOK, SlotAccounting, Due, First, Over, ProcessTasks, EventLoop
  <2>3. started /\ UNCHANGED <<disk, saving, settled, issued, started>>
    BY <1>2 DEF ProcessTasks, files, life, past
  <2>4. QED
    BY <2>1, <2>2, <2>3, ExecuteTaskOver
<1>3. CASE ExecuteNext
  <2>1. PICK t \in batch : ExecuteTask(t) /\ batch' = batch \ {t}
    BY <1>3 DEF ExecuteNext
  <2>2. /\ batch \in SUBSET Task /\ batch \cap runningTasks = {}
        /\ \A u \in batch : ~Over(u) /\ status[u] \in {"pending", "cancelled"}
        /\ ~Reentrant => started
    BY <1>0, <2>1 DEF TypeOK, SlotAccounting, BatchWaits, Over, QuietUnlessReentrant, QuietInv
  <2>3. UNCHANGED <<disk, saving, settled, issued, started>>
    BY <1>3 DEF ExecuteNext, files, life, past
  <2>4. QED
    BY <2>1, <2>2, <2>3, ExecuteTaskOver
<1>4. CASE BeginSave
  <2>1. \A t \in Task : Snapshot.status[t] \in Finished => status[t] \in Finished
    BY DEF Snapshot, Finished
  <2>2. \A t \in Task : status[t] \in Finished => Over(t)
    BY <1>0 DEF Finished, Over, SlotAccounting, BatchWaits
  <2>3. \A t \in Task : Over(t)' = Over(t)
    BY <1>4 DEF BeginSave, Over, memory, slots
  <2>4. /\ \A t \in Task : disk'.status[t] = "none"
        /\ InFlight' = InFlight \cup {Snapshot} /\ settled' = settled
    BY <1>0, <1>4, BeginSaveImages DEF BeginSave, EmptyImage, past
  <2>5. \A t \in Task : Held(t)' => Over(t)'
    BY <1>0, <2>1, <2>2, <2>3, <2>4 DEF OverInv, Held, Finished
  <2>6. QED
    BY <1>0, <1>4, <2>5 DEF OverInv, BatchWaits, QuietUnlessReentrant, QuietInv,
       StopAbortsAll, BeginSave, memory, slots, life
<1>5. CASE EndSave
  <2>1. PICK k \in 1..Len(saving) :
          /\ saving' = RemoveAt(saving, k)
          /\ \/ /\ disk' = saving[k]
                /\ settled' = settled \cup {t \in Task : saving[k].status[t] \in Finished}
             \/ disk' = EmptyImage("partial") /\ UNCHANGED settled
    BY <1>5 DEF EndSave
  <2>2. InFlight' \subseteq InFlight /\ saving[k] \in InFlight
    BY <1>0, <2>1, EndSaveImages
  <2>3. \A t \in Task : EmptyImage("partial").status[t] \notin Finished
    BY DEF EmptyImage, Finished
  <2>4. \A t \in Task : Held(t)' => Held(t)
    BY <2>1, <2>2, <2>3 DEF Held
  <2>5. \A t \in Task : Over(t)' = Over(t)
    BY <1>5 DEF EndSave, Over, memory, slots
  <2>6. QED
    BY <1>0, <1>5, <2>4, <2>5 DEF OverInv, BatchWaits, QuietUnlessReentrant, QuietInv,
       StopAbortsAll, EndSave, memory, slots, life
<1>6. CASE Crash
  <2>1. \A t \in Task : Over(t)' /\ status'[t] = "none" /\ batch' = {} /\ runningTasks' = {}
    BY <1>6 DEF Crash, Over
  <2>2. batch' = {} /\ runningTasks' = {}
    BY <1>6 DEF Crash
  <2>3. QED
    BY <1>6, <2>1, <2>2 DEF OverInv, BatchWaits, QuietUnlessReentrant, QuietInv, StopAbortsAll
<1>7. CASE Boot
  <2>1. /\ batch' = {} /\ runningTasks' = {} /\ issued' = issued /\ disk' = disk
        /\ InFlight' = {} /\ settled' = settled /\ ~overtaken
    BY <1>0, <1>7 DEF DownIsEmpty, Boot, slots, files, past, InFlight
  <2>2. \A t \in Task : disk.status[t] # "running" /\ status'[t] = disk.status[t]
    BY <1>7 DEF Boot, RestoredStatus, FinishInv, FileOrder
  <2>3. BatchWaits'
    BY <1>0, <2>1, <2>2 DEF BatchWaits, FreshIds, Fresh
  <2>4. \A t \in Task : Held(t)' => disk.status[t] # "pending"
    BY <2>1 DEF Held, Finished, FinishInv, FileOrder
  <2>5. OverInv'
    BY <2>1, <2>2, <2>3, <2>4 DEF OverInv, Over
  <2>6. QED
    BY <2>1, <2>5 DEF QuietUnlessReentrant, QuietInv, StopAbortsAll
<1>8. ASSUME NEW u \in Task, CancelTask(u) \/ RemoveTask(u)
      PROVE  OverInv' /\ QuietUnlessReentrant'
  <2>1. /\ UNCHANGED <<issued, runningTasks, batch, disk, saving, settled, started>>
        /\ aborted \subseteq aborted' /\ u \in tasks
        /\ status' = [status EXCEPT ![u] = "cancelled"] \/ status' = status
    BY <1>8 DEF CancelTask, RemoveTask, MarkCancelled, files, life, past
  <2>2. /\ \A t \in Task : t > issued => t # u
        /\ \A t \in Task : status'[t] = status[t] \/ (t = u /\ status'[t] = "cancelled")
    BY <1>0, <2>1 DEF FreshIds, Fresh, TypeOK
  <2>3. \A t \in Task : Over(t) => Over(t)'
    BY <2>1, <2>2 DEF Over
  <2>4. BatchWaits'
    BY <1>0, <2>1, <2>2 DEF BatchWaits, TypeOK
  <2>5. OverInv'
    BY <1>0, <2>1, <2>3, <2>4 DEF OverInv, Held, InFlight
  <2>6. ~Reentrant => batch = {}
    BY <1>8 DEF CancelTask, RemoveTask, CallerRuns
  <2>7. QED
    BY <1>0, <2>1, <2>5, <2>6 DEF QuietUnlessReentrant, QuietInv, StopAbortsAll
<1>9. ASSUME NEW u \in Task, HandlerSucceeds(u) PROVE OverInv' /\ QuietUnlessReentrant'
  BY <1>9, OutcomeTypes, FinallyOver DEF HandlerSucceeds, Status
<1>10. ASSUME NEW u \in Task, HandlerFails(u) \/ TimesOut(u)
       PROVE  OverInv' /\ QuietUnlessReentrant'
  BY <1>10, OutcomeTypes, FinallyOver DEF HandlerFails, TimesOut, Status
<1>11. CASE Start
  <2>1. \A t \in Task : Over(t)' = Over(t)
    BY <1>11 DEF Start, Over, memory, slots
  <2>2. QED
    BY <1>0, <1>11, <2>1 DEF Start, OverInv, Held, InFlight, BatchWaits, QuietUnlessReentrant, QuietInv,
     StopAbortsAll, memory, slots, files, past
<1>12. CASE Stop
  <2>1. \A t \in Task : Over(t)' = Over(t)
    BY <1>12 DEF Stop, Over, memory
  <2>2. OverInv'
    BY <1>0, <1>12, <2>1 DEF Stop, OverInv, Held, InFlight, BatchWaits, memory, files, past
  <2>3. ~Reentrant => batch' = {} /\ runningTasks' \subseteq aborted'
    BY <1>12 DEF Stop, CallerRuns
  <2>4. QED
    BY <2>2, <2>3 DEF QuietUnlessReentrant, QuietInv, StopAbortsAll
<1>13. CASE UNCHANGED vars \/ \E t \in Task : BecomeDue(t) \/ ZombieEnds(t)
  <2>1. /\ UNCHANGED <<issued, status, runningTasks, aborted, batch, disk, saving, settled, started>>
    BY <1>13 DEF BecomeDue, ZombieEnds, vars, memory, slots, files, life, past
  <2>2. \A t \in Task : Over(t)' = Over(t)
    BY <2>1 DEF Over
  <2>3. QED
    BY <1>0, <2>1, <2>2 DEF OverInv, Held, InFlight, BatchWaits, QuietUnlessReentrant, QuietInv,
       StopAbortsAll
<1>14. QED
  BY <1>1, <1>2, <1>3, <1>4, <1>5, <1>6, <1>7, <1>8, <1>9, <1>10, <1>11, <1>12, <1>13 DEF Next

\* The images keep their order, and only an overtaken save disagrees with
\* what was settled.
LEMMA FileOrderStep == FinishInv /\ [Next]_vars => FileOrder'
<1> SUFFICES ASSUME FinishInv, [Next]_vars PROVE FileOrder'
  OBVIOUS
<1>0. TypeOK /\ OverInv /\ FileOrder /\ SlotAccounting
  BY DEF FinishInv, SlotInv
<1>1. CASE BeginSave
  <2>1. /\ Len(saving') = Len(saving) + 1 /\ saving'[Len(saving) + 1] = Snapshot
        /\ \A i \in 1..Len(saving) : saving'[i] = saving[i]
        /\ InFlight' = InFlight \cup {Snapshot} /\ Len(saving) \in Nat
    BY <1>0, <1>1, BeginSaveImages DEF TypeOK
  <2>2. \A t \in Task : disk'.status[t] = "none" /\ UNCHANGED <<overtaken, settled>>
    BY <1>1 DEF BeginSave, EmptyImage, past
  <2>3. \A t \in Task : /\ Snapshot.status[t] # "running"
                        /\ Held(t) => Snapshot.status[t] # "pending"
    BY <1>0 DEF Snapshot, Serialized, OverInv, Over
  <2>4. ASSUME NEW i \in 1..Len(saving'), NEW j \in 1..Len(saving'), i < j,
               NEW t \in Task, saving'[i].status[t] \in Finished
        PROVE  saving'[j].status[t] # "pending"
    <3>1. i \in 1..Len(saving) /\ saving'[i] = saving[i] /\ saving[i] \in InFlight
      BY <2>1, <2>4 DEF InFlight
    <3>2. CASE j = Len(saving) + 1
      BY <2>1, <2>3, <2>4, <3>1, <3>2 DEF Held
    <3>3. CASE j # Len(saving) + 1
      <4>1. j \in 1..Len(saving) /\ saving'[j] = saving[j]
        BY <2>1, <3>3
      <4>2. QED
        BY <1>0, <2>4, <3>1, <4>1 DEF FileOrder
    <3>4. QED
      BY <3>2, <3>3
  <2>5. \A t \in settled : t \in Task /\ Snapshot.status[t] # "pending"
    BY <1>0, <2>3 DEF Held, TypeOK
  <2>6. \A t \in Task, image \in {disk'} \cup InFlight' : image.status[t] # "running"
    BY <1>0, <2>1, <2>2, <2>3 DEF FileOrder
  <2>7. ASSUME ~overtaken', NEW t \in settled', NEW image \in {disk'} \cup InFlight'
        PROVE  image.status[t] # "pending"
    <3>1. ~overtaken /\ t \in settled /\ t \in Task
      <4>1. UNCHANGED <<overtaken, settled>>
        BY <1>1 DEF BeginSave, past
      <4>2. QED
        BY <2>5, <2>7, <4>1
    <3>2. QED
      BY <1>0, <2>1, <2>2, <2>5, <2>7, <3>1 DEF FileOrder
  <2>8. QED
    BY <2>4, <2>6, <2>7 DEF FileOrder
<1>2. CASE EndSave
  <2>1. PICK k \in 1..Len(saving) :
          /\ saving' = RemoveAt(saving, k)
          /\ overtaken' = (overtaken \/ k > 1)
          /\ \/ /\ disk' = saving[k]
                /\ settled' = settled \cup {t \in Task : saving[k].status[t] \in Finished}
             \/ disk' = EmptyImage("partial") /\ UNCHANGED settled
    BY <1>2 DEF EndSave
  <2>2. /\ Len(saving') = Len(saving) - 1 /\ Len(saving) \in Nat
        /\ \A i \in 1..Len(saving') : saving'[i] = IF i < k THEN saving[i] ELSE saving[i + 1]
        /\ InFlight' \subseteq InFlight /\ saving[k] \in InFlight
    BY <1>0, <2>1, EndSaveImages DEF TypeOK
  <2>3. \A t \in Task : /\ EmptyImage("partial").status[t] = "none"
                        /\ EmptyImage("partial").status[t] # "pending"
                        /\ EmptyImage("partial").status[t] # "running"
    BY DEF EmptyImage
  <2>4. \A t \in Task, image \in {disk'} \cup InFlight' : image.status[t] # "running"
    BY <1>0, <2>1, <2>2, <2>3 DEF FileOrder
  <2>5. ASSUME NEW i \in 1..Len(saving'), NEW j \in 1..Len(saving'), i < j,
               NEW t \in Task, saving'[i].status[t] \in Finished
        PROVE  saving'[j].status[t] # "pending"
    <3>1. PICK a \in 1..Len(saving) : saving'[i] = saving[a] /\ a = IF i < k THEN i ELSE i + 1
      BY <2>2
    <3>2. PICK b \in 1..Len(saving) : saving'[j] = saving[b] /\ b = IF j < k THEN j ELSE j + 1
      BY <2>2
    <3>3. a < b
      BY <2>5, <3>1, <3>2
    <3>4. QED
      BY <1>0, <2>5, <3>1, <3>2, <3>3 DEF FileOrder
  <2>6. ASSUME ~overtaken', NEW t \in settled', NEW image \in {disk'} \cup InFlight'
        PROVE  image.status[t] # "pending"
    <3>1. k = 1 /\ ~overtaken /\ t \in Task
      <4>1. ~overtaken /\ ~(k > 1)
        BY <2>1, <2>6
      <4>2. settled \subseteq Task
        BY <1>0 DEF TypeOK
      <4>3. QED
        BY <2>1, <2>6, <4>1, <4>2
    <3>2. CASE image = EmptyImage("partial")
      BY <2>3, <3>1, <3>2
    <3>3. CASE image \in InFlight
      <4>1. CASE t \in settled
        BY <1>0, <3>1, <3>3, <4>1 DEF FileOrder
      <4>2. CASE t \notin settled
        <5>1. disk' = saving[k] /\ saving[k].status[t] \in Finished
          BY <2>1, <2>6, <4>2
        <5>2. CASE image = saving[k]
          BY <5>1, <5>2 DEF Finished
        <5>3. CASE image # saving[k]
          <6>1. PICK j \in 1..Len(saving) : image = saving[j]
            BY <3>3 DEF InFlight
          <6>2. k < j
            BY <2>2, <3>1, <5>3, <6>1
          <6>3. QED
            BY <1>0, <3>1, <5>1, <6>1, <6>2 DEF FileOrder
        <5>4. QED
          BY <5>2, <5>3
      <4>3. QED
        BY <4>1, <4>2
    <3>4. QED
      BY <2>1, <2>2, <2>6, <3>2, <3>3
  <2>7. QED
    BY <2>4, <2>5, <2>6 DEF FileOrder
<1>3. CASE Crash
  <2>1. /\ saving' = <<>> /\ InFlight' = {} /\ disk' = disk
        /\ \A t \in settled' : t \in settled /\ (~overtaken \/ disk.status[t] # "pending")
    BY <1>3 DEF Crash, InFlight
  <2>2. QED
    BY <1>0, <2>1 DEF FileOrder
<1>4. CASE ~BeginSave /\ ~EndSave /\ ~Crash
  <2>1. UNCHANGED <<saving, disk, overtaken, settled>>
    BY <1>4 DEF Next, vars, files, past, Start, Stop, Schedule, ProcessTasks, ExecuteNext, Boot,
       CancelTask, RemoveTask, BecomeDue, HandlerSucceeds, HandlerFails, TimesOut, ZombieEnds,
       Finally
  <2>2. QED
    BY <1>0, <2>1 DEF FileOrder, InFlight
<1>5. QED
  BY <1>1, <1>2, <1>3, <1>4

\* FinishInv is inductive.
LEMMA FinishInvariant == Spec => []FinishInv
<1>1. Init => FinishInv
  <2>1. Init => OverInv /\ FileOrder
    BY DEF Init, OverInv, Held, FileOrder, InFlight, BatchWaits, NoImage, EmptyImage, Finished
  <2>2. Init => QuietUnlessReentrant
    BY DEF Init, QuietUnlessReentrant, QuietInv, StopAbortsAll
  <2>3. QED
    BY <2>1, <2>2, SlotInit DEF FinishInv
<1>2. FinishInv /\ [Next]_vars => FinishInv'
  BY SlotInvStep, OverStep, FileOrderStep DEF FinishInv
<1>3. QED
  BY <1>1, <1>2, PTL DEF Spec

\* However many saves are in flight and in whatever order they end, a task
\* that a complete file has held as completed or failed neither waits nor
\* holds a slot again, in this life and after every restart, unless a younger
\* save ended before an older one and the process then ended on its image.
THEOREM FinishedTasksStayFinished == Spec => []FinishedStaysFinished
<1>1. FinishInv => FinishedStaysFinished
  BY DEF FinishInv, OverInv, Over, Held, FinishedStaysFinished
<1>2. QED
  BY <1>1, FinishInvariant, PTL

\* If nothing calls the scheduler back in the middle of a pass, every handler
\* that holds a slot of a stopped scheduler has had its abort signal, for any
\* number of starts, stops, crashes and restores.
THEOREM StopAborts == ~Reentrant => (Spec => []StopAbortsAll)
<1> SUFFICES ASSUME ~Reentrant PROVE Spec => []StopAbortsAll
  OBVIOUS
<1>1. FinishInv => StopAbortsAll
  BY DEF FinishInv, QuietUnlessReentrant, QuietInv
<1>2. QED
  BY <1>1, FinishInvariant, PTL

\* With or without callbacks in the middle of a pass, no step of the living
\* process moves a cancelled task that neither holds a slot nor was picked by
\* the pass before it was cancelled.
THEOREM CancelledTasksStayCancelled == Spec => CancelIsFinal
<1>1. ASSUME FinishInv, [Next]_vars, NEW t \in Task, up, up', status[t] = "cancelled",
             t \notin runningTasks \cup batch
      PROVE  status'[t] = "cancelled"
  <2>0. TypeOK /\ BatchWaits
    BY <1>1 DEF FinishInv, SlotInv, OverInv
  <2>1. CASE Schedule
    <3>1. issued + 1 \in Task /\ issued + 1 > issued
      BY <2>0, <2>1, ConstantsAssumption DEF TypeOK, Schedule, Task
    <3>2. t # issued + 1
      BY <2>0, <3>1, <1>1 DEF BatchWaits
    <3>3. QED
      BY <1>1, <2>0, <2>1, <3>2 DEF Schedule, TypeOK
  <2>2. CASE ProcessTasks
    <3>1. PICK S \in SUBSET Due, u \in Due : ExecuteTask(u)
      BY <2>2 DEF ProcessTasks
    <3>2. u # t
      BY <1>1 DEF Due
    <3>3. QED
      BY <1>1, <2>0, <3>1, <3>2 DEF ExecuteTask, TypeOK
  <2>3. CASE ExecuteNext
    <3>1. PICK u \in batch : ExecuteTask(u)
      BY <2>3 DEF ExecuteNext
    <3>2. u # t
      BY <1>1
    <3>3. QED
      BY <1>1, <2>0, <3>1, <3>2 DEF ExecuteTask, TypeOK
  <2>4. CASE Crash \/ Boot
    BY <1>1, <2>4 DEF Crash, Boot
  <2>5. ASSUME NEW u \in Task, HandlerSucceeds(u) \/ HandlerFails(u) \/ TimesOut(u)
        PROVE  status'[t] = "cancelled"
    <3>1. u # t
      BY <1>1, <2>5 DEF HandlerSucceeds, HandlerFails, TimesOut
    <3>2. QED
      BY <1>1, <2>0, <2>5, <3>1 DEF HandlerSucceeds, HandlerFails, TimesOut, Finally, TypeOK
  <2>6. ASSUME NEW u \in Task, CancelTask(u) \/ RemoveTask(u) PROVE status'[t] = "cancelled"
    BY <1>1, <2>0, <2>6 DEF CancelTask, RemoveTask, MarkCancelled, TypeOK
  <2>7. CASE \/ Start \/ Stop \/ BeginSave \/ EndSave \/ UNCHANGED vars
             \/ \E u \in Task : BecomeDue(u) \/ ZombieEnds(u)
    BY <1>1, <2>7 DEF Start, Stop, BeginSave, EndSave, BecomeDue, ZombieEnds, vars, memory
  <2>8. QED
    BY <1>1, <2>1, <2>2, <2>3, <2>4, <2>5, <2>6, <2>7 DEF Next
<1>2. FinishInv /\ [Next]_vars =>
        [\A t \in Task :
            /\ up /\ up'
            /\ status[t] = "cancelled"
            /\ t \notin runningTasks \cup batch
            => status'[t] = "cancelled"]_vars
  BY <1>1
<1>3. QED
  BY <1>2, FinishInvariant, PTL DEF Spec, CancelIsFinal

-----------------------------------------------------------------------------
(***************************************************************************)
(* Refinement: every step of the scheduler is a step of the slot pool.     *)
(***************************************************************************)

\* The slot pool counts with its own instance of FiniteSets.
LEMMA SameCardinality == \A S : Pool!Cardinality(S) = Cardinality(S)
BY DEF Pool!Cardinality, Cardinality

\* Giving a slot to one task of a list that fits in the free slots.
LEMMA ExecuteTaskAcquires ==
    ASSUME SlotInv, NEW S \in SUBSET Task, NEW t \in S,
           S \cap runningTasks = {}, S \subseteq Waiting, batch \subseteq S,
           Cardinality(S) <= MaxConcurrentTasks - Cardinality(runningTasks),
           ExecuteTask(t), batch' = S \ {t}, tasks' = tasks
    PROVE  Pool!Acquire(t)
<1>1. /\ runningTasks' = runningTasks \cup {t}
      /\ status' = [status EXCEPT ![t] = "running"]
      /\ t \in Waiting \ runningTasks
  BY DEF ExecuteTask
<1>2. Waiting' = Waiting \ {t}
  BY <1>1 DEF Waiting, SlotInv, TypeOK
<1>3. /\ IsFiniteSet(S) /\ Cardinality(S) \in Nat /\ Cardinality(runningTasks) \in Nat
      /\ Cardinality(S \ {t}) \in Nat /\ Cardinality(S \ {t}) = Cardinality(S) - 1
  BY TaskSetsAreFinite, FS_RemoveElement DEF SlotInv, TypeOK
<1>4. Cardinality(runningTasks) < MaxConcurrentTasks
  BY <1>3, ConstantsAssumption
<1>5. QED
  BY <1>1, <1>2, <1>4, SameCardinality DEF Pool!Acquire

\* A settled task gives its slot back and may wait again.
LEMMA FinallyReleases ==
    ASSUME SlotInv, NEW t \in Task, t \in runningTasks, NEW outcome, NEW retries,
           Finally(t, outcome, retries)
    PROVE  Pool!Release(t)
<1>1. /\ runningTasks' = runningTasks \ {t} /\ batch' = batch /\ tasks' = tasks
      /\ \A u \in Task \ {t} : status'[u] = status[u]
  BY DEF Finally, SlotInv, TypeOK
<1>2. t \notin Waiting
  BY DEF Waiting, SlotInv, SlotAccounting
<1>3. \A u : u \in Waiting' /\ u # t <=> u \in Waiting
  BY <1>1, <1>2 DEF Waiting, SlotInv, TypeOK
<1>4. Waiting' \in {Waiting, Waiting \cup {t}}
  BY <1>3
<1>5. QED
  BY <1>1, <1>4 DEF Pool!Release

LEMMA PoolStep == SlotInv /\ [Next]_vars => [Pool!Next]_<<Waiting, runningTasks>>
<1> SUFFICES ASSUME SlotInv, [Next]_vars
             PROVE  Pool!Next \/ UNCHANGED <<Waiting, runningTasks>>
  OBVIOUS
<1>0. TypeOK /\ SlotAccounting /\ FreshIds /\ DownIsEmpty
  BY DEF SlotInv
<1>1. CASE Schedule
  <2>1. issued + 1 \in Task /\ issued + 1 > issued
    BY <1>0, <1>1, ConstantsAssumption DEF TypeOK, Schedule, Task
  <2>2. Fresh(issued + 1)
    BY <1>0, <2>1 DEF FreshIds
  <2>3. Waiting' = Waiting \cup {issued + 1}
    BY <1>0, <1>1, <2>1, <2>2 DEF Schedule, Waiting, Fresh, TypeOK, slots
  <2>4. Pool!Submit(issued + 1)
    BY <1>1, <2>2, <2>3 DEF Schedule, Pool!Submit, Waiting, Fresh, slots
  <2>5. QED
    BY <2>1, <2>4 DEF Pool!Next
<1>2. CASE ProcessTasks
  <2>1. PICK S \in SUBSET Due, t \in Due :
          TasksToRun(S) /\ First(S, t) /\ ExecuteTask(t) /\ batch' = S \ {t}
    BY <1>2 DEF ProcessTasks
  <2>2. /\ S \in SUBSET Task /\ t \in S /\ S \cap runningTasks = {} /\ S \subseteq Waiting
        /\ batch \subseteq S /\ tasks' = tasks
    BY <1>0, <1>2, <2>1 DEF TypeOK, SlotAccounting, Due, First, Waiting, ProcessTasks, EventLoop
  <2>3. Cardinality(S) <= MaxConcurrentTasks - Cardinality(runningTasks)
    BY <2>1 DEF TasksToRun
  <2>4. Pool!Acquire(t)
    BY <2>1, <2>2, <2>3, ExecuteTaskAcquires
  <2>5. QED
    BY <2>2, <2>4 DEF Pool!Next
<1>3. CASE ExecuteNext
  <2>1. PICK t \in batch : ExecuteTask(t) /\ batch' = batch \ {t}
    BY <1>3 DEF ExecuteNext
  <2>2. /\ batch \in SUBSET Task /\ batch \cap runningTasks = {} /\ batch \subseteq Waiting
        /\ tasks' = tasks
    BY <1>0, <1>3 DEF TypeOK, SlotAccounting, Waiting, ExecuteNext
  <2>3. Cardinality(batch) <= MaxConcurrentTasks - Cardinality(runningTasks)
    <3>1. Cardinality(batch) \in Nat /\ Cardinality(runningTasks) \in Nat
      BY <1>0, TaskSetsAreFinite DEF TypeOK
    <3>2. QED
      BY <3>1, ConstantsAssumption DEF SlotInv, SlotBudget
  <2>4. Pool!Acquire(t)
    BY <2>1, <2>2, <2>3, ExecuteTaskAcquires
  <2>5. QED
    BY <2>2, <2>4 DEF Pool!Next
<1>4. CASE Crash
  BY <1>4 DEF Crash, Waiting, Pool!Next, Pool!Halt
<1>5. CASE Boot
  <2>1. Waiting = {} /\ runningTasks = {} /\ runningTasks' = {} /\ batch' = {}
    BY <1>0, <1>5 DEF Boot, DownIsEmpty, Waiting, slots
  <2>2. Waiting' \in SUBSET Task
    BY <1>5, <2>1 DEF Boot, Waiting
  <2>3. QED
    BY <2>1, <2>2 DEF Pool!Next, Pool!Recover
<1>6. ASSUME NEW t \in Task, CancelTask(t) \/ RemoveTask(t)
      PROVE  Pool!Next \/ UNCHANGED <<Waiting, runningTasks>>
  <2>1. /\ runningTasks' = runningTasks /\ batch' = batch
        /\ tasks' = tasks \/ tasks' = tasks \ {t}
        /\ \A u \in Task \ {t} : status'[u] = status[u]
        /\ t \notin tasks' \/ status'[t] = "cancelled"
    BY <1>0, <1>6 DEF CancelTask, RemoveTask, MarkCancelled, TypeOK
  <2>2. CASE t \in batch \/ t \notin Waiting
    <3>1. Waiting' = Waiting
      BY <1>0, <2>1, <2>2 DEF Waiting, TypeOK
    <3>2. QED
      BY <2>1, <3>1
  <2>3. CASE t \notin batch /\ t \in Waiting
    <3>1. Waiting' = Waiting \ {t}
      BY <1>0, <2>1, <2>3 DEF Waiting, TypeOK
    <3>2. QED
      BY <2>1, <2>3, <3>1 DEF Pool!Next, Pool!Withdraw
  <2>4. QED
    BY <2>2, <2>3
<1>7. ASSUME NEW t \in Task, HandlerSucceeds(t) \/ HandlerFails(t) \/ TimesOut(t)
      PROVE  Pool!Next
  BY <1>7, FinallyReleases DEF HandlerSucceeds, HandlerFails, TimesOut, Pool!Next
<1>8. CASE \/ Start \/ Stop \/ BeginSave \/ EndSave \/ UNCHANGED vars
           \/ \E t \in Task : BecomeDue(t) \/ ZombieEnds(t)
  BY <1>8 DEF Start, Stop, BeginSave, EndSave, BecomeDue, ZombieEnds, Waiting, vars, memory, slots
<1>9. QED
  BY <1>1, <1>2, <1>3, <1>4, <1>5, <1>6, <1>7, <1>8 DEF Next

\* The scheduler implements the slot pool.
THEOREM SchedulerIsSlotPool == Spec => ImplementsSlotPool
<1>1. Init => Pool!Init
  BY DEF Init, Pool!Init, Waiting
<1>2. SlotInv /\ [Next]_vars => [Pool!Next]_(Pool!pvars)
  BY PoolStep DEF Pool!pvars
<1>3. QED
  BY <1>1, <1>2, SlotInvariant, PTL DEF Spec, Pool!Spec, ImplementsSlotPool
=============================================================================
