---------------------------- MODULE Learning_proofs ----------------------------
(***************************************************************************)
(* What is learnt, proved. VersionedStorage: what is named on disk can be  *)
(* loaded, for any number of clients; with one client the history is a     *)
(* chain that the symlink follows. LearningCategories: what is deployed    *)
(* was decided, what is rolled back is marked, and a restart finds both.   *)
(***************************************************************************)
EXTENDS VersionedStorage, LearningCategories, SequenceTheorems, TLAPS

-----------------------------------------------------------------------------
(* VersionedStorage *)


Record == [version : Version, previous : Version \cup {NoVersion},
           rolledBackTo : Version \cup {NoVersion}]
Label == {"idle", "save data", "save history", "save unlink", "save link",
          "rollback verify", "rollback unlink", "rollback link", "rollback history"}

\* What the clients carry between two awaits is on disk already, so the order
\* of the writes carries over from operation to operation.
HasData(j) == j.pc \notin {"idle", "save data", "rollback verify"}
JobOK(j) ==
    /\ IF j.pc = "idle" THEN j.read = <<>> ELSE j.target \in Version
    /\ HasData(j) => j.target \in data
Loadable(h) == \A i \in 1..Len(h) : h[i].version \in data
Job == [pc : Label, read : Seq(Record), target : Version \cup {NoVersion}]
JobsType == job \in [Client -> Job]
DataInv ==
    /\ JobsType /\ history \in Seq(Record) /\ link \in Version \cup {NoVersion}
    /\ link # NoVersion => link \in data
    /\ Loadable(history)
    /\ \A c \in Client :
        /\ Loadable(job[c].read)
        /\ JobOK(job[c])

\* Deleting is safe only where nobody is in the middle of an operation.
DeletesAlone == Deletes => \A c, d \in Client : c = d

LEMMA LastIsEntry ==
    ASSUME NEW h \in Seq(Record), h # <<>>
    PROVE  Last(h) \in Record /\ Last(h).version \in Version /\ Last(h).previous \in Version \cup {NoVersion}
<1>1. Len(h) \in 1..Len(h) /\ h[Len(h)] \in Record
  OBVIOUS
<1> QED BY <1>1 DEF Last, Record

LEMMA TrimmedEntries ==
    ASSUME MaxVersions \in Nat \ {0}, NEW h \in Seq(Record)
    PROVE  /\ Trimmed(h) \in Seq(Record)
           /\ Loadable(h) => Loadable(Trimmed(h))
<1>1. CASE Len(h) > MaxVersions
  <2> DEFINE from == Len(h) - MaxVersions + 1
  <2>1. from \in 1..Len(h) /\ Len(h) \in Nat
    BY <1>1
  <2>2. /\ SubSeq(h, from, Len(h)) \in Seq(Record)
        /\ Len(SubSeq(h, from, Len(h))) = Len(h) - from + 1
        /\ \A i \in 1..(Len(h) - from + 1) : SubSeq(h, from, Len(h))[i] = h[from + i - 1]
    BY <2>1, SubSeqProperties
  <2>3. \A i \in 1..(Len(h) - from + 1) : from + i - 1 \in 1..Len(h)
    BY <2>1
  <2> QED BY <1>1, <2>2, <2>3 DEF Trimmed, Loadable
<1>2. CASE ~(Len(h) > MaxVersions)
  BY <1>2 DEF Trimmed
<1> QED BY <1>1, <1>2

LEMMA PushedEntries ==
    ASSUME MaxVersions \in Nat \ {0}, NEW h \in Seq(Record), NEW v \in Version
    PROVE  /\ PushVersion(h, v) \in Seq(Record)
           /\ Loadable(h) /\ v \in data => Loadable(PushVersion(h, v))
<1>1. LastVersion(h) \in Version \cup {NoVersion}
  BY LastIsEntry DEF LastVersion
<1>2. Entry(v, LastVersion(h)) \in Record /\ Entry(v, LastVersion(h)).version = v
  BY <1>1 DEF Entry, Record
<1>3. Append(h, Entry(v, LastVersion(h))) \in Seq(Record)
  BY <1>2
<1>4. Loadable(h) /\ v \in data => Loadable(Append(h, Entry(v, LastVersion(h))))
  BY <1>2 DEF Loadable
<1> QED BY <1>3, <1>4, TrimmedEntries DEF PushVersion

LEMMA MarkedEntries ==
    ASSUME NEW h \in Seq(Record), NEW v \in Version
    PROVE  /\ MarkRolledBack(h, v) \in Seq(Record)
           /\ Loadable(h) => Loadable(MarkRolledBack(h, v))
<1> DEFINE m == MarkRolledBack(h, v)
<1>1. Len(h) \in Nat /\ m = [i \in 1..Len(h) |-> m[i]]
  BY DEF MarkRolledBack
<1>2. \A i \in 1..Len(h) : m[i] \in Record /\ m[i].version = h[i].version
  <2> SUFFICES ASSUME NEW i \in 1..Len(h) PROVE m[i] \in Record /\ m[i].version = h[i].version
    OBVIOUS
  <2>1. h[i] \in Record OBVIOUS
  <2>2. m[i] = h[i] \/ m[i] = [h[i] EXCEPT !.rolledBackTo = v]
    BY DEF MarkRolledBack
  <2> QED BY <2>1, <2>2 DEF Record
<1> HIDE DEF m
<1>3. m \in Seq(Record) /\ Len(m) = Len(h)
  BY <1>1, <1>2
<1> QED BY <1>2, <1>3 DEF m, Loadable

LEMMA IdleJob == Idle \in Job /\ Idle.pc = "idle" /\ Idle.read = <<>> /\ ~HasData(Idle)
<1>1. <<>> \in Seq(Record) /\ NoVersion \in Version \cup {NoVersion} /\ "idle" \in Label
  BY DEF Label
<1>2. Idle \in Job
  BY <1>1 DEF Idle, Job
<1> QED BY <1>2 DEF Idle, HasData

\* A step of c that leaves it with the job j, and takes no data away.
LEMMA ClientStep ==
    ASSUME DataInv, NEW c \in Client, NEW j \in Job, job' = [job EXCEPT ![c] = j],
           data \subseteq data',
           history' \in Seq(Record), Loadable(history)',
           link' \in Version \cup {NoVersion}, link' # NoVersion => link' \in data',
           \A i \in 1..Len(j.read) : j.read[i].version \in data',
           IF j.pc = "idle" THEN j.read = <<>> ELSE j.target \in Version,
           HasData(j) => j.target \in data'
    PROVE  DataInv'
<1>1. JobsType'
  BY DEF DataInv, JobsType
<1>2. ASSUME NEW d \in Client
      PROVE  /\ \A i \in 1..Len(job'[d].read) : job'[d].read[i].version \in data'
             /\ JobOK(job[d])'
  <2>1. CASE d = c BY <2>1 DEF DataInv, JobsType, JobOK, HasData
  <2>2. CASE d # c
    <3>1. job'[d] = job[d] BY <2>2
    <3> QED BY <3>1 DEF DataInv, Loadable, JobOK, HasData
  <2> QED BY <2>1, <2>2
<1> QED BY <1>1, <1>2 DEF DataInv, Loadable

\* The job of a client that goes on with its next step.
LEMMA NextJob ==
    ASSUME DataInv, NEW c \in Client, NEW label \in Label
    PROVE  /\ [job[c] EXCEPT !.pc = label] \in Job
           /\ [job[c] EXCEPT !.pc = label].pc = label
           /\ [job[c] EXCEPT !.pc = label].read = job[c].read
           /\ [job[c] EXCEPT !.pc = label].target = job[c].target
           /\ Goto(c, label) => job' = [job EXCEPT ![c] = [job[c] EXCEPT !.pc = label]]
           /\ job[c].read \in Seq(Record) /\ Loadable(job[c].read)
           /\ job[c].target \in Version \cup {NoVersion}
<1>1. job[c] \in Job /\ Loadable(job[c].read)
  BY DEF DataInv, JobsType
<1>2. Goto(c, label) => job' = [job EXCEPT ![c] = [job[c] EXCEPT !.pc = label]]
  BY DEF Goto
<1> QED BY <1>1, <1>2 DEF Job

LEMMA DataStep ==
    ASSUME MaxVersion \in Nat, MaxVersions \in Nat \ {0}, DeletesAlone, DataInv, NEW c \in Client,
           \/ BeginSave(c) \/ SaveData(c) \/ SaveHistory(c)
           \/ BeginRollback(c) \/ VerifyTarget(c) \/ RollbackHistory(c)
           \/ Unlink(c) \/ Symlink(c)
           \/ Delete(c) \/ Crash(c)
    PROVE  DataInv'
<1>0. /\ history \in Seq(Record) /\ link \in Version \cup {NoVersion} /\ Loadable(history)
      /\ link # NoVersion => link \in data
      /\ JobOK(job[c]) /\ (HasData(job[c]) => job[c].target \in data /\ job[c].target \in Version)
  BY DEF DataInv, JobOK, HasData
<1>1. ASSUME NEW v \in Version, NEW label \in {"save data", "rollback verify"}, Begin(c, label, v),
             UNCHANGED <<disk, crashes>>
      PROVE  DataInv'
  <2> DEFINE j == [pc |-> label, read |-> history, target |-> v]
  <2>1. j \in Job /\ ~HasData(j) /\ j.read = history /\ j.pc # "idle" /\ j.target \in Version
    BY <1>0 DEF Job, Label, HasData
  <2>2. job' = [job EXCEPT ![c] = j]
    BY <1>1 DEF Begin
  <2>3. /\ data \subseteq data' /\ history' \in Seq(Record) /\ Loadable(history)'
        /\ link' \in Version \cup {NoVersion} /\ (link' # NoVersion => link' \in data')
        /\ \A i \in 1..Len(history) : history[i].version \in data'
    BY <1>0, <1>1 DEF disk, Loadable
  <2> HIDE DEF j
  <2> QED BY <2>1, <2>2, <2>3, ClientStep
<1>2. CASE BeginSave(c)
  <2>1. PICK v \in NewVersions(history) : Begin(c, "save data", v)
    BY <1>2 DEF BeginSave
  <2>2. LastVersion(history) \in 0..MaxVersion
    <3>1. CASE history = <<>>
      BY <3>1 DEF LastVersion, NoVersion
    <3>2. CASE history # <<>>
      BY <1>0, <3>2, LastIsEntry DEF LastVersion, Version
    <3> QED BY <3>1, <3>2
  <2>3. v \in Version
    <3>1. CASE v \in Version
      BY <3>1
    <3>2. CASE LastVersion(history) < MaxVersion /\ v = LastVersion(history) + 1
      BY <2>2, <3>2 DEF Version
    <3> QED BY <2>1, <3>1, <3>2 DEF NewVersions
  <2> QED BY <1>1, <1>2, <2>1, <2>3 DEF BeginSave
<1>3. CASE BeginRollback(c)
  <2>1. PICK v \in RollbackTargets(history) : Begin(c, "rollback verify", v)
    BY <1>3 DEF BeginRollback
  <2>2. Len(history) >= 2 /\ history # <<>>
    <3>1. ~(Len(history) < 2) BY <2>1 DEF RollbackTargets
    <3>2. Len(<<>>) = 0 OBVIOUS
    <3> QED BY <1>0, <3>1, <3>2
  <2>3. Last(history).previous \in Version \cup {NoVersion}
    BY <1>0, <2>2, LastIsEntry
  <2>4. v \in Version
    BY <2>1, <2>3 DEF RollbackTargets
  <2> QED BY <1>1, <1>3, <2>1, <2>4 DEF BeginRollback
<1>4. ASSUME NEW label \in Label, Goto(c, label), data \subseteq data',
             history' \in Seq(Record), Loadable(history)',
             link' \in Version \cup {NoVersion}, link' # NoVersion => link' \in data',
             label # "idle", job[c].pc # "idle",
             label \notin {"idle", "save data", "rollback verify"} => job[c].target \in data'
      PROVE  DataInv'
  <2> DEFINE j == [job[c] EXCEPT !.pc = label]
  <2>1. /\ j \in Job /\ j.pc = label /\ j.read = job[c].read /\ j.target = job[c].target
        /\ job' = [job EXCEPT ![c] = j]
    BY <1>4, NextJob
  <2>2. \A i \in 1..Len(j.read) : j.read[i].version \in data'
    BY <1>4, <2>1, NextJob DEF Loadable
  <2> HIDE DEF j
  <2> QED BY <1>0, <1>4, <2>1, <2>2, ClientStep DEF HasData, JobOK
<1>5. ASSUME Finish(c), data \subseteq data',
             history' \in Seq(Record), Loadable(history)',
             link' \in Version \cup {NoVersion}, link' # NoVersion => link' \in data'
      PROVE  DataInv'
  <2>1. Idle \in Job /\ Idle.pc = "idle" /\ Idle.read = <<>> /\ ~HasData(Idle) /\ \A i \in 1..Len(Idle.read) : Idle.read[i].version \in data'
    BY IdleJob
  <2> QED BY <1>5, <2>1, ClientStep DEF Finish
<1>6. UNCHANGED <<data, history>> => history' \in Seq(Record) /\ Loadable(history)'
  BY <1>0 DEF Loadable
<1>7. CASE SaveData(c)
  <2>1. job[c].pc = "save data" /\ job[c].target \in Version
    BY <1>0, <1>7 DEF SaveData, At, JobOK
  <2> QED BY <1>0, <1>4, <1>7, <2>1 DEF SaveData, Label, Loadable
<1>8. CASE SaveHistory(c)
  <2>1. HasData(job[c]) /\ job[c].read \in Seq(Record) /\ Loadable(job[c].read)
    BY <1>8, NextJob DEF SaveHistory, At, HasData, Label
  <2>2. history' \in Seq(Record) /\ Loadable(history)'
    BY <1>0, <1>8, <2>1, PushedEntries DEF SaveHistory, Loadable
  <2> QED BY <1>0, <1>4, <1>8, <2>1, <2>2 DEF SaveHistory, At, Label
<1>9. CASE VerifyTarget(c)
  <2>1. CASE job[c].target \in data
    BY <1>0, <1>4, <1>6, <1>9, <2>1 DEF VerifyTarget, At, disk, Label
  <2>2. CASE job[c].target \notin data
    BY <1>0, <1>5, <1>6, <1>9, <2>2 DEF VerifyTarget, disk
  <2> QED BY <2>1, <2>2
<1>10. CASE RollbackHistory(c)
  <2>1. HasData(job[c]) /\ job[c].read \in Seq(Record) /\ Loadable(job[c].read)
    BY <1>10, NextJob DEF RollbackHistory, At, HasData, Label
  <2>2. history' \in Seq(Record) /\ Loadable(history)'
    BY <1>0, <1>10, <2>1, MarkedEntries DEF RollbackHistory, Loadable
  <2> QED BY <1>0, <1>5, <1>10, <2>2 DEF RollbackHistory
<1>11. CASE Unlink(c)
  <2>1. HasData(job[c])
    BY <1>11 DEF Unlink, At, HasData
  <2> QED BY <1>0, <1>4, <1>6, <1>11, <2>1 DEF Unlink, At, Label
<1>12. CASE Symlink(c)
  <2>1. HasData(job[c])
    BY <1>12 DEF Symlink, At, HasData
  <2>2. link' \in Version \cup {NoVersion} /\ (link' # NoVersion => link' \in data')
    BY <1>0, <1>12, <2>1 DEF Symlink
  <2> QED BY <1>0, <1>4, <1>5, <1>6, <1>12, <2>1, <2>2 DEF Symlink, At, Label
<1>13. CASE Delete(c)
  <2>1. \A d \in Client : d = c /\ job[d].pc = "idle" /\ job[d].read = <<>> /\ job' = job
    BY <1>0, <1>13 DEF Delete, DeletesAlone, At, JobOK
  <2>2. history' = <<>> /\ link' = NoVersion /\ \A h : h = <<>> => Loadable(h)'
    BY <1>13 DEF Delete, Loadable
  <2>3. JobsType' /\ <<>> \in Seq(Record)
    BY <2>1, <1>0 DEF DataInv, JobsType
  <2>4. \A d \in Client : Loadable(job[d].read)' /\ JobOK(job[d])'
    <3>1. \A d \in Client : job'[d].pc = "idle" /\ job'[d].read = <<>>
      BY <2>1
    <3> QED BY <2>2, <3>1 DEF JobOK, HasData, Loadable
  <2> QED BY <2>2, <2>3, <2>4 DEF DataInv
<1>14. CASE Crash(c)
  BY <1>0, <1>5, <1>6, <1>14 DEF Crash, disk
<1> QED BY <1>2, <1>3, <1>7, <1>8, <1>9, <1>10, <1>11, <1>12, <1>13, <1>14

LEMMA InitDataInv == Init => DataInv
<1> SUFFICES ASSUME Init PROVE DataInv
  OBVIOUS
<1>1. job \in [Client -> Job] /\ \A c \in Client : job[c] = Idle
  BY IdleJob DEF Init
<1>2. /\ \A d : Loadable(<<>>)
      /\ history = <<>> /\ link = NoVersion /\ <<>> \in Seq(Record)
  BY DEF Init, Loadable
<1> QED BY <1>1, <1>2, IdleJob DEF DataInv, JobsType, JobOK

LEMMA NextDataInv ==
    ASSUME MaxVersion \in Nat, MaxVersions \in Nat \ {0}, DeletesAlone, DataInv, [Next]_vars
    PROVE  DataInv'
<1>1. CASE UNCHANGED vars
  BY <1>1 DEF vars, disk, DataInv, JobsType, Loadable, JobOK, HasData
<1> QED BY <1>1, DataStep DEF Next

\* However many clients interleave, with whatever versions and targets, and
\* wherever they end: the link and the history name data that can be loaded,
\* as long as a resource in use is not deleted (save, rollback).
THEOREM NamedDataExists ==
    ASSUME MaxVersion \in Nat, MaxVersions \in Nat \ {0}, DeletesAlone
    PROVE  Spec => []DataComesFirst
<1>1. DataInv => DataComesFirst
  BY DEF DataInv, DataComesFirst, Loadable
<1> QED BY <1>1, InitDataInv, NextDataInv, PTL DEF Spec

-----------------------------------------------------------------------------
(* One client.                                                              *)

\* Each entry names its predecessor, and the versions count upwards one by one
\* towards the last one.
Linked(h) == \A i \in 2..Len(h) : h[i].previous = h[i - 1].version
Steady(h) == \A i \in 1..Len(h) : h[i].version + Len(h) = Last(h).version + i

\* The version the history tells the reader to use.
Named(h) ==
    IF h = <<>> THEN NoVersion
    ELSE IF Last(h).rolledBackTo = NoVersion THEN Last(h).version
    ELSE Last(h).rolledBackTo

\* Until it writes it, what the client has read is the history.
UpToDate(j, h) ==
    /\ j.pc \in {"save data", "save history", "rollback verify", "rollback unlink",
                 "rollback link", "rollback history"} => j.read = h
    /\ j.pc \in {"save data", "save history"} => j.target = LastVersion(h) + 1
    /\ j.pc \in {"rollback verify", "rollback unlink", "rollback link", "rollback history"}
         => h # <<>>

\* Where the symlink is at each step of an operation.
LinkOf(j, h, l) ==
    /\ j.pc \in {"idle", "save data", "save history", "rollback verify", "rollback unlink"}
         => l = Named(h)
    /\ j.pc \in {"save unlink", "save link"}
         => h # <<>> /\ Last(h).version = j.target
            /\ Last(h).rolledBackTo = NoVersion
    /\ j.pc \in {"save link", "rollback link"} => l = NoVersion
    /\ j.pc = "rollback history" => l = j.target

ChainInv ==
    /\ Linked(history) /\ Steady(history)
    /\ crashes \in Nat
    /\ \A c \in Client : UpToDate(job[c], history) /\ (crashes = 0 => LinkOf(job[c], history, link))

LEMMA OneLonger ==
    ASSUME NEW x \in Nat, NEW y \in Nat, NEW l \in Nat, NEW i \in Nat, x + l = y + i
    PROVE  x + (l + 1) = (y + 1) + i
  OBVIOUS

LEMMA CutShort ==
    ASSUME NEW x \in Nat, NEW n \in Nat, NEW m \in Nat, NEW f \in Nat, NEW i \in Nat,
           NEW v \in Nat, f + m = n + 1, x + n = v + (f + i - 1)
    PROVE  x + m = v + i
  OBVIOUS

\* A save prolongs the chain; trimming it keeps its end.
LEMMA PushedChain ==
    ASSUME MaxVersion \in Nat, MaxVersions \in Nat \ {0}, NEW h \in Seq(Record),
           NEW v \in Version, v = LastVersion(h) + 1, Linked(h), Steady(h)
    PROVE  LET p == PushVersion(h, v)
           IN  /\ Linked(p) /\ Steady(p) /\ p # <<>>
               /\ Last(p).version = v /\ Last(p).rolledBackTo = NoVersion
<1> DEFINE e == Entry(v, LastVersion(h))
           a == Append(h, e)
<1>0. /\ Len(h) \in Nat /\ \A i \in 1..Len(h) : h[i] \in Record /\ h[i].version \in Nat
      /\ v \in Nat
  <2>1. \A i \in 1..Len(h) : h[i] \in Record OBVIOUS
  <2> QED BY <2>1 DEF Record, Version
<1>1. LastVersion(h) \in Version \cup {NoVersion}
  BY LastIsEntry DEF LastVersion
<1>2. e \in Record /\ e.version = v /\ e.previous = LastVersion(h) /\ e.rolledBackTo = NoVersion
  BY <1>1 DEF Entry, Record
<1> HIDE DEF e
<1>3. /\ a \in Seq(Record) /\ Len(a) = Len(h) + 1 /\ a[Len(h) + 1] = e
      /\ \A i \in 1..Len(h) : a[i] = h[i]
  BY <1>2
<1> HIDE DEF a
<1>4. h # <<>> => Len(h) \in 1..Len(h) /\ LastVersion(h) = h[Len(h)].version
  BY <1>0 DEF LastVersion, Last
<1>5. Linked(a)
  <2> SUFFICES ASSUME NEW i \in 2..Len(a) PROVE a[i].previous = a[i - 1].version
    BY DEF Linked
  <2>1. CASE i = Len(h) + 1
    <3>1. Len(h) \in 1..Len(h) /\ h # <<>>
      BY <1>0, <2>1
    <3> QED BY <1>2, <1>3, <1>4, <2>1, <3>1
  <2>2. CASE i # Len(h) + 1
    <3>1. i \in 2..Len(h) /\ i - 1 \in 1..Len(h) /\ i \in 1..Len(h)
      BY <1>0, <1>3, <2>2
    <3> QED BY <1>3, <3>1 DEF Linked
  <2> QED BY <2>1, <2>2
<1>6. \A i \in 1..Len(a) : a[i].version + Len(a) = v + i
  <2> SUFFICES ASSUME NEW i \in 1..Len(a) PROVE a[i].version + Len(a) = v + i
    OBVIOUS
  <2>1. CASE i = Len(h) + 1
    BY <1>0, <1>2, <1>3, <2>1
  <2>2. CASE i # Len(h) + 1
    <3>1. i \in 1..Len(h) /\ h # <<>>
      BY <1>0, <1>3, <2>2
    <3>2. h[i].version + Len(h) = h[Len(h)].version + i
      BY <3>1 DEF Steady, Last
    <3>3. h[Len(h)].version + 1 = v /\ h[Len(h)].version \in Nat /\ h[i].version \in Nat
      BY <1>0, <1>4, <3>1
    <3>4. a[i].version = h[i].version /\ Len(a) = Len(h) + 1 /\ i \in Nat
      BY <1>3, <3>1
    <3>5. Len(h) \in Nat
      BY <1>0
    <3> DEFINE x == h[i].version
               y == h[Len(h)].version
               l == Len(h)
    <3>6. x \in Nat /\ y \in Nat /\ l \in Nat /\ x + l = y + i
      BY <3>2, <3>3, <3>5
    <3>7. a[i].version = x /\ Len(a) = l + 1 /\ y + 1 = v
      BY <3>3, <3>4
    <3> HIDE DEF x, y, l
    <3>8. x + (l + 1) = (y + 1) + i
      BY <3>4, <3>6, OneLonger
    <3> QED BY <3>7, <3>8
  <2> QED BY <2>1, <2>2
<1>7. a # <<>> /\ Last(a) = e
  BY <1>0, <1>3 DEF Last
<1>8. CASE ~(Len(a) > MaxVersions)
  <2>1. PushVersion(h, v) = a
    BY <1>8 DEF PushVersion, Trimmed, a, e
  <2> QED BY <1>2, <1>5, <1>6, <1>7, <2>1 DEF Steady
<1>9. CASE Len(a) > MaxVersions
  <2> DEFINE from == Len(a) - MaxVersions + 1
             p == SubSeq(a, from, Len(a))
  <2>1. PushVersion(h, v) = p
    BY <1>9 DEF PushVersion, Trimmed, a, e
  <2>2. from \in 1..Len(a) /\ Len(a) \in Nat /\ Len(a) - from + 1 = MaxVersions
    BY <1>3, <1>9
  <2>3. /\ p \in Seq(Record) /\ Len(p) = MaxVersions
        /\ \A i \in 1..MaxVersions : p[i] = a[from + i - 1]
    BY <1>3, <2>2, SubSeqProperties
  <2> HIDE DEF p
  <2>4. \A i \in 1..MaxVersions : from + i - 1 \in 1..Len(a)
    BY <2>2
  <2>5. Last(p) = e /\ p # <<>>
    <3>1. MaxVersions \in 1..MaxVersions /\ from + MaxVersions - 1 = Len(a)
      BY <2>2
    <3>2. p[MaxVersions] = a[Len(a)]
      BY <2>3, <3>1
    <3>3. p[MaxVersions] = e
      BY <1>0, <1>3, <3>2
    <3> QED BY <2>3, <3>3 DEF Last
  <2>6. Linked(p)
    <3> SUFFICES ASSUME NEW i \in 2..MaxVersions PROVE p[i].previous = p[i - 1].version
      BY <2>3 DEF Linked
    <3>1. /\ p[i] = a[from + i - 1] /\ p[i - 1] = a[from + (i - 1) - 1]
          /\ from + i - 1 \in 2..Len(a) /\ from + (i - 1) - 1 = (from + i - 1) - 1
      BY <2>2, <2>3
    <3> QED BY <1>5, <3>1 DEF Linked
  <2>7. Steady(p)
    <3> SUFFICES ASSUME NEW i \in 1..MaxVersions PROVE p[i].version + MaxVersions = v + i
      BY <1>2, <2>3, <2>5 DEF Steady
    <3>1. p[i].version + Len(a) = v + (from + i - 1)
      BY <1>6, <2>3, <2>4
    <3>2. p[i] \in Record
      BY <2>3
    <3>3. p[i].version \in Nat
      BY <3>2 DEF Record, Version
    <3>4. from \in Nat /\ Len(a) \in Nat /\ from + MaxVersions = Len(a) + 1 /\ i \in Nat
      BY <2>2
    <3> DEFINE x == p[i].version
               n == Len(a)
    <3>5. x \in Nat /\ n \in Nat /\ from \in Nat /\ i \in Nat /\ MaxVersions \in Nat /\ v \in Nat
      BY <1>0, <3>3, <3>4
    <3>6. from + MaxVersions = n + 1 /\ x + n = v + (from + i - 1)
      BY <3>1, <3>4
    <3> HIDE DEF from, x, n
    <3>7. x + MaxVersions = v + i
      BY <3>5, <3>6, CutShort
    <3> QED BY <3>7 DEF x
  <2> QED BY <1>2, <2>1, <2>5, <2>6, <2>7
<1> QED BY <1>8, <1>9

\* Only the last entry of a chain is marked by a rollback.
LEMMA MarkedChain ==
    ASSUME MaxVersion \in Nat, NEW h \in Seq(Record), h # <<>>, NEW v \in Version,
           Linked(h), Steady(h)
    PROVE  LET m == MarkRolledBack(h, v)
           IN  Linked(m) /\ Steady(m) /\ m # <<>> /\ Named(m) = v
<1> DEFINE m == MarkRolledBack(h, v)
<1>1. Len(h) \in Nat /\ Len(h) \in 1..Len(h) /\ \A i \in 1..Len(h) : h[i] \in Record
  OBVIOUS
<1>2. \A i \in 1..Len(h) : m[i].version = h[i].version /\ m[i].previous = h[i].previous
  <2> SUFFICES ASSUME NEW i \in 1..Len(h)
               PROVE m[i].version = h[i].version /\ m[i].previous = h[i].previous
    OBVIOUS
  <2>1. m[i] = h[i] \/ m[i] = [h[i] EXCEPT !.rolledBackTo = v]
    BY DEF MarkRolledBack
  <2> QED BY <1>1, <2>1 DEF Record
<1>3. m[Len(h)].rolledBackTo = v
  <2>1. m[Len(h)] = [h[Len(h)] EXCEPT !.rolledBackTo = v]
    BY <1>1 DEF MarkRolledBack, Last
  <2> QED BY <1>1, <2>1 DEF Record
<1>4. m \in Seq(Record)
  BY MarkedEntries
<1>5. Len(m) = Len(h)
  BY <1>1 DEF MarkRolledBack
<1> HIDE DEF m
<1>6. Linked(m)
  <2> SUFFICES ASSUME NEW i \in 2..Len(h) PROVE m[i].previous = m[i - 1].version
    BY <1>5 DEF Linked
  <2>1. i \in 1..Len(h) /\ i - 1 \in 1..Len(h)
    BY <1>1
  <2> QED BY <1>2, <2>1 DEF Linked
<1>7. Steady(m)
  BY <1>1, <1>2, <1>5 DEF Steady, Last
<1>8. m # <<>> /\ Named(m) = v
  <2>1. v # NoVersion BY DEF Version, NoVersion
  <2>2. m # <<>> BY <1>1, <1>5
  <2> QED BY <1>3, <1>5, <2>1, <2>2 DEF Named, Last
<1> QED BY <1>6, <1>7, <1>8 DEF m

\* No version occurs twice in a chain.
LEMMA SteadyInjective ==
    ASSUME MaxVersion \in Nat, NEW h \in Seq(Record), Steady(h)
    PROVE  IsInjective([i \in 1..Len(h) |-> h[i].version])
<1> SUFFICES ASSUME NEW i \in 1..Len(h), NEW k \in 1..Len(h), h[i].version = h[k].version
             PROVE i = k
  BY DEF IsInjective
<1>1. Last(h).version + i = Last(h).version + k
  BY DEF Steady
<1>2. h # <<>>
  OBVIOUS
<1>3. Last(h).version \in Nat
  BY <1>2, LastIsEntry DEF Version
<1> QED BY <1>1, <1>3

LEMMA ChainStep ==
    ASSUME MaxVersion \in Nat, MaxVersions \in Nat \ {0}, ~ExplicitVersions, NEW c, Client = {c},
           DataInv, ChainInv,
           \/ BeginSave(c) \/ SaveData(c) \/ SaveHistory(c)
           \/ BeginRollback(c) \/ VerifyTarget(c) \/ RollbackHistory(c)
           \/ Unlink(c) \/ Symlink(c)
           \/ Delete(c) \/ Crash(c)
    PROVE  ChainInv'
<1>0. /\ c \in Client /\ \A d \in Client : d = c
      /\ job \in [Client -> Job] /\ job[c] \in Job /\ history \in Seq(Record)
      /\ Linked(history) /\ Steady(history) /\ crashes \in Nat
      /\ UpToDate(job[c], history) /\ (crashes = 0 => LinkOf(job[c], history, link))
      /\ JobOK(job[c])
  BY DEF DataInv, JobsType, ChainInv
<1>1. ASSUME NEW j \in Job, job' = [job EXCEPT ![c] = j], crashes' \in Nat,
             Linked(history)', Steady(history)',
             UpToDate(j, history'), (crashes' = 0 => LinkOf(j, history', link'))
      PROVE  ChainInv'
  <2>1. \A d \in Client : job'[d] = j
    BY <1>0, <1>1
  <2> QED BY <1>1, <2>1 DEF ChainInv, UpToDate, LinkOf
<1>2. ASSUME UNCHANGED history PROVE Linked(history)' /\ Steady(history)'
  BY <1>0, <1>2 DEF Linked, Steady
<1>3. ASSUME NEW label \in Label, Goto(c, label)
      PROVE  LET j == [job[c] EXCEPT !.pc = label]
             IN  /\ j \in Job /\ job' = [job EXCEPT ![c] = j]
                 /\ j.pc = label /\ j.read = job[c].read /\ j.target = job[c].target
  BY <1>0, <1>3 DEF Goto, Job
<1>4. CASE BeginSave(c)
  <2>1. PICK v \in NewVersions(history) : Begin(c, "save data", v)
    BY <1>4 DEF BeginSave
  <2>2. LastVersion(history) \in 0..MaxVersion
    <3>1. CASE history = <<>>
      BY <3>1 DEF LastVersion, NoVersion
    <3>2. CASE history # <<>>
      BY <1>0, <3>2, LastIsEntry DEF LastVersion, Version
    <3> QED BY <3>1, <3>2
  <2>3. v = LastVersion(history) + 1 /\ v \in Version
    <3>1. v = LastVersion(history) + 1 /\ LastVersion(history) < MaxVersion
      BY <2>1 DEF NewVersions
    <3> QED BY <2>2, <3>1 DEF Version
  <2> DEFINE j == [pc |-> "save data", read |-> history, target |-> v]
  <2>4. j \in Job /\ j.pc = "save data" /\ j.read = history /\ j.target = v /\ job' = [job EXCEPT ![c] = j]
    BY <1>0, <2>1, <2>3 DEF Begin, Job, Label
  <2> HIDE DEF j
  <2>5. UNCHANGED <<history, link, crashes>>
    BY <1>4 DEF BeginSave, disk
  <2>6. crashes = 0 => link = Named(history)
    BY <1>0, <1>4 DEF BeginSave, At, LinkOf
  <2>7. UpToDate(j, history') /\ (crashes' = 0 => LinkOf(j, history', link'))
    BY <2>3, <2>4, <2>5, <2>6 DEF UpToDate, LinkOf
  <2> QED BY <1>0, <1>1, <1>2, <2>4, <2>5, <2>7
<1>5. CASE BeginRollback(c)
  <2>1. PICK v \in RollbackTargets(history) : Begin(c, "rollback verify", v)
    BY <1>5 DEF BeginRollback
  <2>2. Len(history) >= 2 /\ history # <<>>
    <3>1. ~(Len(history) < 2) BY <2>1 DEF RollbackTargets
    <3>2. Len(<<>>) = 0 OBVIOUS
    <3> QED BY <1>0, <3>1, <3>2
  <2>3. v \in Version
    <3>1. Last(history).previous \in Version \cup {NoVersion}
      BY <1>0, <2>2, LastIsEntry
    <3> QED BY <2>1, <3>1 DEF RollbackTargets
  <2> DEFINE j == [pc |-> "rollback verify", read |-> history, target |-> v]
  <2>4. j \in Job /\ j.pc = "rollback verify" /\ j.read = history /\ j.target = v /\ job' = [job EXCEPT ![c] = j]
    BY <1>0, <2>1, <2>3 DEF Begin, Job, Label
  <2> HIDE DEF j
  <2>5. UNCHANGED <<history, link, crashes>>
    BY <1>5 DEF BeginRollback, disk
  <2>6. crashes = 0 => link = Named(history)
    BY <1>0, <1>5 DEF BeginRollback, At, LinkOf
  <2>7. UpToDate(j, history') /\ (crashes' = 0 => LinkOf(j, history', link'))
    BY <2>2, <2>4, <2>5, <2>6 DEF UpToDate, LinkOf
  <2> QED BY <1>0, <1>1, <1>2, <2>4, <2>5, <2>7
<1>6. CASE SaveData(c)
  <2>1. /\ job[c].pc = "save data" /\ Goto(c, "save history") /\ UNCHANGED <<history, link, crashes>>
        /\ "save history" \in Label
    BY <1>6 DEF SaveData, At, Label
  <2> DEFINE j == [job[c] EXCEPT !.pc = "save history"]
  <2>2. /\ j \in Job /\ job' = [job EXCEPT ![c] = j]
        /\ j.pc = "save history" /\ j.read = job[c].read /\ j.target = job[c].target
    BY <1>3, <2>1
  <2> HIDE DEF j
  <2>3. UpToDate(j, history') /\ (crashes' = 0 => LinkOf(j, history', link'))
    BY <1>0, <2>1, <2>2 DEF UpToDate, LinkOf
  <2> QED BY <1>0, <1>1, <1>2, <2>1, <2>2, <2>3
<1>7. CASE SaveHistory(c)
  <2>1. /\ job[c].pc = "save history" /\ Goto(c, "save unlink") /\ UNCHANGED <<link, crashes>>
        /\ "save unlink" \in Label /\ history' = PushVersion(job[c].read, job[c].target)
    BY <1>7 DEF SaveHistory, At, Label
  <2>2. /\ job[c].read = history /\ job[c].target = LastVersion(history) + 1
        /\ job[c].target \in Version
    BY <1>0, <2>1 DEF UpToDate, JobOK
  <2>3. /\ Linked(history)' /\ Steady(history)' /\ history' # <<>>
        /\ Last(history').version = job[c].target /\ Last(history').rolledBackTo = NoVersion
    BY <1>0, <2>1, <2>2, PushedChain DEF Linked, Steady
  <2> DEFINE j == [job[c] EXCEPT !.pc = "save unlink"]
  <2>4. /\ j \in Job /\ job' = [job EXCEPT ![c] = j]
        /\ j.pc = "save unlink" /\ j.read = job[c].read /\ j.target = job[c].target
    BY <1>3, <2>1
  <2> HIDE DEF j
  <2>5. UpToDate(j, history') /\ (crashes' = 0 => LinkOf(j, history', link'))
    BY <2>1, <2>3, <2>4 DEF UpToDate, LinkOf
  <2> QED BY <1>0, <1>1, <2>1, <2>3, <2>4, <2>5
<1>8. ASSUME Finish(c), UNCHANGED <<history, crashes>>, crashes = 0 => link' = Named(history)
      PROVE  ChainInv'
  <2>1. Idle \in Job /\ Idle.pc = "idle" /\ job' = [job EXCEPT ![c] = Idle]
    BY <1>8, IdleJob DEF Finish
  <2>2. UpToDate(Idle, history') /\ (crashes' = 0 => LinkOf(Idle, history', link'))
    BY <1>8, <2>1 DEF UpToDate, LinkOf
  <2> QED BY <1>0, <1>1, <1>2, <1>8, <2>1, <2>2
<1>9. CASE VerifyTarget(c)
  <2>1. job[c].pc = "rollback verify" /\ UNCHANGED <<history, link, crashes>>
    BY <1>9 DEF VerifyTarget, At, disk
  <2>2. crashes = 0 => link = Named(history)
    BY <1>0, <2>1 DEF LinkOf
  <2>3. CASE Finish(c)
    BY <1>8, <2>1, <2>2, <2>3
  <2>4. CASE Goto(c, "rollback unlink")
    <3> DEFINE j == [job[c] EXCEPT !.pc = "rollback unlink"]
    <3>1. /\ j \in Job /\ job' = [job EXCEPT ![c] = j]
          /\ j.pc = "rollback unlink" /\ j.read = job[c].read /\ j.target = job[c].target
      BY <1>3, <2>4 DEF Label
    <3> HIDE DEF j
    <3>2. UpToDate(j, history') /\ (crashes' = 0 => LinkOf(j, history', link'))
      BY <1>0, <2>1, <2>2, <3>1 DEF UpToDate, LinkOf
    <3> QED BY <1>0, <1>1, <1>2, <2>1, <3>1, <3>2
  <2> QED BY <1>9, <2>3, <2>4 DEF VerifyTarget
<1>10. CASE Unlink(c)
  <2>1. UNCHANGED <<history, crashes>> /\ link' = NoVersion
    BY <1>10 DEF Unlink
  <2>2. PICK label \in {"save link", "rollback link"} :
          /\ Goto(c, label)
          /\ job[c].pc = IF label = "save link" THEN "save unlink" ELSE "rollback unlink"
    BY <1>10 DEF Unlink, At
  <2> DEFINE j == [job[c] EXCEPT !.pc = label]
  <2>3. /\ j \in Job /\ job' = [job EXCEPT ![c] = j]
        /\ j.pc = label /\ j.read = job[c].read /\ j.target = job[c].target
    BY <1>3, <2>2 DEF Label
  <2> HIDE DEF j
  <2>4. UpToDate(j, history') /\ (crashes' = 0 => LinkOf(j, history', link'))
    BY <1>0, <2>1, <2>2, <2>3 DEF UpToDate, LinkOf
  <2> QED BY <1>0, <1>1, <1>2, <2>1, <2>3, <2>4
<1>11. CASE Symlink(c)
  <2>1. UNCHANGED <<history, crashes>>
    BY <1>11 DEF Symlink
  <2>2. link' = IF link = NoVersion THEN job[c].target ELSE link
    BY <1>11 DEF Symlink
  <2>3. job[c].pc \in {"save link", "rollback link"} /\ (crashes = 0 => link = NoVersion)
    BY <1>0, <1>11 DEF Symlink, At, LinkOf
  <2>4. CASE link = NoVersion /\ job[c].pc = "rollback link"
    <3> DEFINE j == [job[c] EXCEPT !.pc = "rollback history"]
    <3>1. /\ j \in Job /\ job' = [job EXCEPT ![c] = j]
          /\ j.pc = "rollback history" /\ j.read = job[c].read /\ j.target = job[c].target
      BY <1>3, <1>11, <2>4 DEF Symlink, At, Label
    <3> HIDE DEF j
    <3>2. UpToDate(j, history') /\ (crashes' = 0 => LinkOf(j, history', link'))
      BY <1>0, <2>1, <2>2, <2>4, <3>1 DEF UpToDate, LinkOf
    <3> QED BY <1>0, <1>1, <1>2, <2>1, <3>1, <3>2
  <2>5. CASE ~(link = NoVersion /\ job[c].pc = "rollback link")
    <3>1. Finish(c)
      BY <1>11, <2>5 DEF Symlink, At
    <3>2. crashes = 0 => link' = Named(history)
      <4>1. SUFFICES ASSUME crashes = 0 PROVE link' = Named(history)
        OBVIOUS
      <4>2. job[c].pc = "save link" /\ link' = job[c].target
        BY <2>2, <2>3, <2>5, <4>1
      <4> QED BY <1>0, <4>1, <4>2 DEF LinkOf, Named
    <3> QED BY <1>8, <2>1, <3>1, <3>2
  <2> QED BY <2>4, <2>5
<1>12. CASE RollbackHistory(c)
  <2>1. /\ job[c].pc = "rollback history" /\ UNCHANGED <<link, crashes>>
        /\ history' = MarkRolledBack(job[c].read, job[c].target)
        /\ job' = [job EXCEPT ![c] = Idle]
    BY <1>12 DEF RollbackHistory, At, Finish
  <2>2. job[c].read = history /\ history # <<>> /\ job[c].target \in Version
    BY <1>0, <2>1 DEF UpToDate, JobOK
  <2>3. Linked(history)' /\ Steady(history)' /\ Named(history') = job[c].target
    BY <1>0, <2>1, <2>2, MarkedChain DEF Linked, Steady
  <2>4. UpToDate(Idle, history') /\ (crashes' = 0 => LinkOf(Idle, history', link'))
    BY <1>0, <2>1, <2>3, IdleJob DEF UpToDate, LinkOf
  <2> QED BY <1>0, <1>1, <2>1, <2>3, <2>4, IdleJob
<1>13. CASE Delete(c)
  <2>1. job[c].pc = "idle" /\ history' = <<>> /\ link' = NoVersion /\ UNCHANGED <<job, crashes>>
    BY <1>13 DEF Delete, At
  <2>2. Linked(history)' /\ Steady(history)'
    BY <2>1 DEF Linked, Steady
  <2>3. job' = [job EXCEPT ![c] = job[c]]
    BY <1>0, <2>1
  <2>4. UpToDate(job[c], history') /\ (crashes' = 0 => LinkOf(job[c], history', link'))
    BY <2>1 DEF UpToDate, LinkOf, Named
  <2> QED BY <1>0, <2>1, <2>2, <2>4 DEF ChainInv
<1>14. CASE Crash(c)
  <2>1. crashes' = crashes + 1 /\ UNCHANGED <<history, link>> /\ job' = [job EXCEPT ![c] = Idle]
    BY <1>14 DEF Crash, Finish, disk
  <2>2. crashes' \in Nat /\ crashes' # 0
    BY <1>0, <2>1
  <2>3. UpToDate(Idle, history')
    BY <2>1, IdleJob DEF UpToDate
  <2> QED BY <1>1, <1>2, <2>1, <2>2, <2>3, IdleJob
<1> QED BY <1>4, <1>5, <1>6, <1>7, <1>9, <1>10, <1>11, <1>12, <1>13, <1>14

\* With one client and automatic versions the history stays a chain whatever
\* is saved, rolled back, trimmed or deleted and wherever the client ends, and
\* between operations that were not cut short the symlink is where the history
\* says. (save, rollback, delete)
THEOREM HistoryFollows ==
    ASSUME MaxVersion \in Nat, MaxVersions \in Nat \ {0}, ~ExplicitVersions,
           NEW c, Client = {c}
    PROVE  Spec => [](HistoryIsAChain /\ LinkMatchesHistory)
<1>0. DeletesAlone
  BY DEF DeletesAlone
<1>1. Init => ChainInv
  <2> SUFFICES ASSUME Init PROVE ChainInv
    OBVIOUS
  <2>1. history = <<>> /\ link = NoVersion /\ crashes = 0 /\ \A d \in Client : job[d] = Idle
    BY DEF Init
  <2>2. Linked(history) /\ Steady(history)
    BY <2>1 DEF Linked, Steady
  <2> QED BY <2>1, <2>2, IdleJob DEF ChainInv, UpToDate, LinkOf, Named
<1>2. ASSUME DataInv, ChainInv, [Next]_vars PROVE ChainInv'
  <2>1. CASE UNCHANGED vars
    BY <1>2, <2>1 DEF vars, disk, ChainInv, Linked, Steady, UpToDate, LinkOf
  <2> QED BY <1>2, <2>1, ChainStep DEF Next
<1>3. ASSUME DataInv, ChainInv PROVE HistoryIsAChain
  <2>1. history \in Seq(Record) /\ Linked(history) /\ Steady(history)
    BY <1>3 DEF DataInv, ChainInv
  <2> QED BY <2>1, SteadyInjective DEF HistoryIsAChain, Linked
<1>4. ASSUME DataInv, ChainInv PROVE LinkMatchesHistory
  BY <1>4 DEF ChainInv, LinkMatchesHistory, Quiet, At, LinkOf, Named
<1> QED BY <1>0, <1>1, <1>2, <1>3, <1>4, InitDataInv, NextDataInv, PTL DEF Spec

-----------------------------------------------------------------------------
(* Types, and the whole of what a resource promises.                         *)

\* No history is longer than maxVersions, and what is on disk has a version.
SizeInv ==
    /\ data \subseteq Version
    /\ crashes \in 0..MaxCrashes
    /\ Len(history) <= MaxVersions
    /\ \A c \in Client : Len(job[c].read) <= MaxVersions

LEMMA PushedLength ==
    ASSUME MaxVersions \in Nat \ {0}, NEW h \in Seq(Record), NEW v \in Version
    PROVE  Len(PushVersion(h, v)) <= MaxVersions
<1> DEFINE g == Append(h, Entry(v, LastVersion(h)))
<1>1. LastVersion(h) \in Version \cup {NoVersion}
  BY LastIsEntry DEF LastVersion
<1>2. Entry(v, LastVersion(h)) \in Record
  BY <1>1 DEF Entry, Record
<1>3. g \in Seq(Record)
  BY <1>2
<1>4. PushVersion(h, v) = Trimmed(g)
  BY DEF PushVersion
<1> HIDE DEF g
<1>5. CASE Len(g) > MaxVersions
  <2> DEFINE from == Len(g) - MaxVersions + 1
  <2>1. from \in 1..Len(g) /\ Len(g) \in Nat
    BY <1>3, <1>5
  <2>2. Len(SubSeq(g, from, Len(g))) = Len(g) - from + 1
    BY <1>3, <2>1, SubSeqProperties
  <2> QED BY <1>4, <1>5, <2>1, <2>2 DEF Trimmed
<1>6. CASE ~(Len(g) > MaxVersions)
  BY <1>3, <1>4, <1>6 DEF Trimmed
<1> QED BY <1>5, <1>6

LEMMA MarkedLength ==
    ASSUME NEW h \in Seq(Record), NEW v
    PROVE  Len(MarkRolledBack(h, v)) = Len(h)
<1>1. Len(h) \in Nat
  OBVIOUS
<1> QED BY <1>1 DEF MarkRolledBack

LEMMA SizeStep ==
    ASSUME MaxVersion \in Nat, MaxVersions \in Nat \ {0}, MaxCrashes \in Nat,
           DataInv, SizeInv, NEW c \in Client,
           \/ BeginSave(c) \/ SaveData(c) \/ SaveHistory(c)
           \/ BeginRollback(c) \/ VerifyTarget(c) \/ RollbackHistory(c)
           \/ Unlink(c) \/ Symlink(c)
           \/ Delete(c) \/ Crash(c)
    PROVE  SizeInv'
<1>0. /\ job \in [Client -> Job] /\ job[c].read \in Seq(Record) /\ JobOK(job[c])
      /\ Len(<<>>) = 0 /\ Idle.read = <<>>
  BY NextJob DEF DataInv, JobsType, Idle, Label
<1>1. \/ job' = job
      \/ \E j : job' = [job EXCEPT ![c] = j] /\ j.read \in {<<>>, history, job[c].read}
  <2>1. ASSUME NEW label, Goto(c, label)
        PROVE  job' = [job EXCEPT ![c] = [job[c] EXCEPT !.pc = label]]
    BY <2>1 DEF Goto
  <2>2. \A label : [job[c] EXCEPT !.pc = label].read = job[c].read
    BY <1>0 DEF Job
  <2>3. ASSUME NEW label, NEW v, Begin(c, label, v)
        PROVE  job' = [job EXCEPT ![c] = [pc |-> label, read |-> history, target |-> v]]
    BY <2>3 DEF Begin
  <2>4. Finish(c) => job' = [job EXCEPT ![c] = Idle]
    BY DEF Finish
  <2>5. \/ \E label : Goto(c, label)
        \/ \E label, v : Begin(c, label, v)
        \/ Finish(c)
        \/ job' = job
    BY DEF BeginSave, SaveData, SaveHistory, BeginRollback, VerifyTarget, RollbackHistory,
           Unlink, Symlink, Delete, Crash
  <2> QED BY <1>0, <2>1, <2>2, <2>3, <2>4, <2>5
<1>2. \A d \in Client : Len(job'[d].read) <= MaxVersions
  BY <1>0, <1>1 DEF SizeInv
<1>3. Len(history') <= MaxVersions
  <2>1. CASE UNCHANGED history
    BY <2>1 DEF SizeInv
  <2>2. CASE SaveHistory(c)
    <3>1. job[c].target \in Version
      BY <1>0, <2>2 DEF SaveHistory, At, JobOK
    <3> QED BY <1>0, <2>2, <3>1, PushedLength DEF SaveHistory
  <2>3. CASE RollbackHistory(c)
    <3>1. Len(job[c].read) <= MaxVersions
      BY DEF SizeInv
    <3> QED BY <1>0, <2>3, <3>1, MarkedLength DEF RollbackHistory
  <2>4. CASE Delete(c)
    BY <1>0, <2>4 DEF Delete
  <2> QED BY <2>1, <2>2, <2>3, <2>4 DEF BeginSave, SaveData, BeginRollback, VerifyTarget, Unlink, Symlink, Crash, disk
<1>4. data' \subseteq Version
  <2>1. CASE UNCHANGED data
    BY <2>1 DEF SizeInv
  <2>2. CASE SaveData(c)
    BY <1>0, <2>2 DEF SaveData, At, JobOK, SizeInv
  <2>3. CASE Delete(c)
    BY <2>3 DEF Delete
  <2> QED BY <2>1, <2>2, <2>3 DEF BeginSave, SaveHistory, BeginRollback, VerifyTarget, RollbackHistory, Unlink, Symlink, Crash, disk
<1>5. crashes' \in 0..MaxCrashes
  <2>1. CASE UNCHANGED crashes
    BY <2>1 DEF SizeInv
  <2>2. CASE Crash(c)
    BY <2>2 DEF Crash, SizeInv
  <2> QED BY <2>1, <2>2 DEF BeginSave, SaveData, SaveHistory, BeginRollback, VerifyTarget, RollbackHistory, Unlink, Symlink, Delete, vars
<1> QED BY <1>2, <1>3, <1>4, <1>5 DEF SizeInv

LEMMA InitSizeInv ==
    ASSUME MaxVersions \in Nat \ {0}, MaxCrashes \in Nat, Init
    PROVE  SizeInv
<1>1. /\ data = {} /\ history = <<>> /\ crashes = 0 /\ \A c \in Client : job[c].read = <<>>
      /\ Len(<<>>) = 0
  BY DEF Init, Idle
<1> QED BY <1>1 DEF SizeInv

LEMMA NextSizeInv ==
    ASSUME MaxVersion \in Nat, MaxVersions \in Nat \ {0}, MaxCrashes \in Nat,
           DataInv, SizeInv, [Next]_vars
    PROVE  SizeInv'
<1>1. CASE UNCHANGED vars
  BY <1>1 DEF vars, disk, SizeInv
<1> QED BY <1>1, SizeStep DEF Next

LEMMA SizesGiveTypes ==
    ASSUME DataInv, SizeInv
    PROVE  TypeOK
<1>1. \A c \in Client : job[c] \in Job
  BY DEF DataInv, JobsType
<1>2. history \in Seq(Record) /\ link \in Version \cup {NoVersion}
  BY DEF DataInv
<1> QED BY <1>1, <1>2 DEF TypeOK, SizeInv, Job, Label, Record

\* For any number of clients that save and roll back at once, the variables
\* stay in their types and no history grows beyond maxVersions.
THEOREM TypeCorrect ==
    ASSUME MaxVersion \in Nat, MaxVersions \in Nat \ {0}, MaxCrashes \in Nat, DeletesAlone
    PROVE  Spec => []TypeOK
<1>1. Init => SizeInv
  BY InitSizeInv
<1>2. DataInv /\ SizeInv /\ [Next]_vars => SizeInv'
  BY NextSizeInv
<1>3. DataInv /\ SizeInv => TypeOK
  BY SizesGiveTypes
<1> QED BY <1>1, <1>2, <1>3, InitDataInv, NextDataInv, PTL DEF Spec

\* With one client and automatic versions a resource is consistent after every
\* step: its history is a chain that has kept its length, all it names can be
\* loaded, and the link follows it. (save, rollback, delete)
THEOREM StorageIsConsistent ==
    ASSUME MaxVersion \in Nat, MaxVersions \in Nat \ {0}, MaxCrashes \in Nat, ~ExplicitVersions,
           NEW c, Client = {c}
    PROVE  Spec => []VersionsAgree
<1>1. DeletesAlone
  BY DEF DeletesAlone
<1>2. TypeOK /\ (HistoryIsAChain /\ LinkMatchesHistory) /\ DataComesFirst => VersionsAgree
  BY DEF VersionsAgree
<1> QED BY <1>1, <1>2, TypeCorrect, HistoryFollows, NamedDataExists, PTL

-----------------------------------------------------------------------------
(* LearningCategories *)

Status == {"pending", "validating", "approved", "deployed", "rejected"}
ProposalRecord == [resource : Resource, status : Status, approved : BOOLEAN]
ResourceVersion == [version : Nat, proposal : Nat, at : Nat, status : {"deployed", "rolled_back"}]
RollbackRecord == [resource : Resource, from : Nat, to : Nat, by : {"user", "degradation"}]
Learnt == [proposals : Seq(ProposalRecord),
           deferred : SUBSET [at : Nat, proposal : Nat], sandbox : SUBSET [at : Nat, proposal : Nat],
           versions : [Resource -> Seq(ResourceVersion)], rollbacks : Seq(RollbackRecord)]

\* What is kept: of the invariant, and that every version names a proposal.
Sound(s) ==
    /\ s \in Learnt /\ Len(s.proposals) <= MaxProposals
    /\ \A r \in Resource : \A v \in DOMAIN s.versions[r] : s.versions[r][v].proposal \in DOMAIN s.proposals
    /\ GovernanceHolds(s) /\ RollbacksAreMarked(s)

\* What proposals are about stays, and what was approved stays approved.
Extends(s, t) ==
    /\ Len(s.proposals) <= Len(t.proposals)
    /\ \A i \in DOMAIN s.proposals :
        /\ t.proposals[i].resource = s.proposals[i].resource
        /\ s.proposals[i].approved => t.proposals[i].approved

\* The versions that are there stay, and a mark stays.
VersionsStay(s, t) ==
    \A r \in Resource :
        /\ Len(s.versions[r]) <= Len(t.versions[r])
        /\ \A v \in DOMAIN s.versions[r] :
            /\ t.versions[r][v].proposal = s.versions[r][v].proposal
            /\ s.versions[r][v].status = "rolled_back" => t.versions[r][v].status = "rolled_back"

Step == {"idle", "writing", "approved", "dated", "reset", "checking"}
Task == [pc : Step, then : {"done", "approved", "dated", "reset", "checking"}, proposal : Nat,
         visited : SUBSET (Resource \cup SkillName), content : Learnt, overlapped : BOOLEAN]
\* A task that will deploy was approved, and what it deploys is a proposal of the core.
IsCoreProposal(s, i) == i \in DOMAIN s.proposals /\ s.proposals[i].resource[1] = "core"
TaskSound(j) ==
    /\ Sound(j.content)
    /\ j.pc = "approved" => j.then = "approved"
    /\ j.then = "approved" => IsCoreProposal(state, j.proposal)

LearningTypes ==
    /\ clock \in Nat /\ mixed \in BOOLEAN /\ task \in [Process -> Task]
    /\ results \in [SkillName -> Seq(BOOLEAN)] /\ \A s \in SkillName : Len(results[s]) <= KeptResults
\* The only write under way writes the state.
Saved ==
    ~mixed =>
        /\ Writers = {} => file = state
        /\ \A p \in Writers : Writers = {p} /\ task[p].content = state /\ ~task[p].overlapped
\* Everything that may become the state is sound: the file, and the contents still to be written.
LearningInv ==
    /\ LearningTypes /\ Saved
    /\ Sound(state) /\ (file # Torn => Sound(file))
    /\ \A p \in Process : TaskSound(task[p])

-----------------------------------------------------------------------------
LEMMA NothingIsSound == Sound(EmptyState)
  BY BoundAssumption DEF Sound, EmptyState, Learnt, GovernanceHolds, RollbacksAreMarked

LEMMA ExtensionIsSound ==
    ASSUME NEW s, NEW t \in Learnt, Sound(s), Extends(s, t), VersionsStay(s, t),
           Len(t.proposals) <= MaxProposals,
           \A r \in Resource : \A v \in DOMAIN t.versions[r] \ DOMAIN s.versions[r] :
             /\ t.versions[r][v].proposal \in DOMAIN t.proposals
             /\ r[1] \in {"memory", "core"}
             /\ r[1] = "core" => t.proposals[t.versions[r][v].proposal].approved,
           \A i \in DOMAIN t.proposals : t.proposals[i].status = "deployed" =>
             \/ i \in DOMAIN s.proposals /\ s.proposals[i].status = "deployed"
             \/ \E v \in DOMAIN t.versions[t.proposals[i].resource] :
                  t.versions[t.proposals[i].resource][v].proposal = i,
           \A i \in DOMAIN t.rollbacks :
             \/ i \in DOMAIN s.rollbacks /\ t.rollbacks[i] = s.rollbacks[i]
             \/ LET rb == t.rollbacks[i]
                IN /\ {rb.from, rb.to} \subseteq DOMAIN t.versions[rb.resource]
                   /\ t.versions[rb.resource][rb.from].status = "rolled_back"
    PROVE  Sound(t)
<1>1. s \in Learnt
  BY DEF Sound
<1>2. DOMAIN s.proposals \subseteq DOMAIN t.proposals
  BY <1>1 DEF Extends, Learnt
<1>3. \A r \in Resource : DOMAIN s.versions[r] \subseteq DOMAIN t.versions[r]
  BY <1>1 DEF VersionsStay, Learnt
<1>4. \A r \in Resource : \A v \in DOMAIN t.versions[r] : t.versions[r][v].proposal \in DOMAIN t.proposals
  <2> SUFFICES ASSUME NEW r \in Resource, NEW v \in DOMAIN t.versions[r]
               PROVE  t.versions[r][v].proposal \in DOMAIN t.proposals
    OBVIOUS
  <2>1. CASE v \in DOMAIN s.versions[r]
    BY <2>1, <1>2 DEF Sound, VersionsStay
  <2> QED BY <2>1
<1>5. ASSUME NEW r \in Resource, NEW v \in DOMAIN t.versions[r]
      PROVE  /\ r[1] \in {"memory", "core"}
             /\ r[1] = "core" => t.proposals[t.versions[r][v].proposal].approved
  <2>1. CASE v \in DOMAIN s.versions[r]
    <3>1. s.versions[r][v].proposal \in DOMAIN s.proposals
      BY <2>1 DEF Sound
    <3>2. /\ r[1] \in {"memory", "core"}
          /\ r[1] = "core" => s.proposals[s.versions[r][v].proposal].approved
      BY <2>1 DEF Sound, GovernanceHolds
    <3>3. t.versions[r][v].proposal = s.versions[r][v].proposal
      BY <2>1 DEF VersionsStay
    <3> QED BY <3>1, <3>2, <3>3 DEF Extends
  <2> QED BY <2>1
<1>6. ASSUME NEW i \in DOMAIN t.proposals, t.proposals[i].status = "deployed"
      PROVE  \E v \in DOMAIN t.versions[t.proposals[i].resource] :
               t.versions[t.proposals[i].resource][v].proposal = i
  <2>1. CASE i \in DOMAIN s.proposals /\ s.proposals[i].status = "deployed"
    <3> DEFINE r == s.proposals[i].resource
    <3>1. r \in Resource /\ t.proposals[i].resource = r
      <4>1. s.proposals \in Seq(ProposalRecord)
        BY <1>1 DEF Learnt
      <4>2. s.proposals[i] \in ProposalRecord
        BY <4>1, <2>1
      <4> QED BY <4>2, <2>1 DEF ProposalRecord, Extends
    <3>2. PICK v \in DOMAIN s.versions[r] : s.versions[r][v].proposal = i
      BY <2>1 DEF Sound, GovernanceHolds
    <3>3. v \in DOMAIN t.versions[r] /\ t.versions[r][v].proposal = i
      BY <3>1, <3>2, <1>3 DEF VersionsStay
    <3> QED BY <3>1, <3>3
  <2> QED BY <1>6, <2>1
<1>7. ASSUME NEW i \in DOMAIN t.rollbacks
      PROVE  LET rb == t.rollbacks[i]
             IN /\ {rb.from, rb.to} \subseteq DOMAIN t.versions[rb.resource]
                /\ t.versions[rb.resource][rb.from].status = "rolled_back"
  <2>1. CASE i \in DOMAIN s.rollbacks /\ t.rollbacks[i] = s.rollbacks[i]
    <3> DEFINE rb == s.rollbacks[i]
    <3>1. rb.resource \in Resource
      <4>1. s.rollbacks \in Seq(RollbackRecord)
        BY <1>1 DEF Learnt
      <4>2. rb \in RollbackRecord
        BY <4>1, <2>1
      <4> QED BY <4>2 DEF RollbackRecord
    <3>2. {rb.from, rb.to} \subseteq DOMAIN s.versions[rb.resource]
          /\ s.versions[rb.resource][rb.from].status = "rolled_back"
      BY <2>1 DEF Sound, RollbacksAreMarked
    <3> QED BY <2>1, <3>1, <3>2, <1>3 DEF VersionsStay
  <2> QED BY <2>1
<1> QED BY <1>4, <1>5, <1>6, <1>7 DEF Sound, GovernanceHolds, RollbacksAreMarked

LEMMA FieldTypes ==
    ASSUME NEW s, Sound(s)
    PROVE  /\ s \in Learnt /\ s.proposals \in Seq(ProposalRecord) /\ s.versions \in [Resource -> Seq(ResourceVersion)]
           /\ s.rollbacks \in Seq(RollbackRecord)
           /\ \A i \in DOMAIN s.proposals : s.proposals[i] \in ProposalRecord
           /\ \A r \in Resource : /\ s.versions[r] \in Seq(ResourceVersion)
                                 /\ \A v \in DOMAIN s.versions[r] : s.versions[r][v] \in ResourceVersion
  BY DEF Sound, Learnt

\* createVersion() for a proposal t has.
LEMMA CreatedVersion ==
    ASSUME NEW versions \in [Resource -> Seq(ResourceVersion)], NEW r \in Resource, NEW p \in Nat, clock \in Nat
    PROVE  LET created == CreateVersion(versions, r, p)
           IN /\ created \in [Resource -> Seq(ResourceVersion)]
              /\ \A q \in Resource \ {r} : created[q] = versions[q]
              /\ Len(created[r]) = Len(versions[r]) + 1
              /\ \A v \in DOMAIN versions[r] : created[r][v] = versions[r][v]
              /\ DOMAIN created[r] = DOMAIN versions[r] \cup {Len(versions[r]) + 1}
              /\ created[r][Len(versions[r]) + 1].proposal = p
<1> DEFINE new == [version |-> Len(versions[r]) + 1, proposal |-> p, at |-> clock, status |-> "deployed"]
<1>1. versions[r] \in Seq(ResourceVersion)
  OBVIOUS
<1>2. new \in ResourceVersion
  BY <1>1 DEF ResourceVersion
<1> HIDE DEF new
<1>3. /\ Append(versions[r], new) \in Seq(ResourceVersion)
      /\ Len(Append(versions[r], new)) = Len(versions[r]) + 1
      /\ \A v \in DOMAIN versions[r] : Append(versions[r], new)[v] = versions[r][v]
      /\ DOMAIN Append(versions[r], new) = DOMAIN versions[r] \cup {Len(versions[r]) + 1}
      /\ Append(versions[r], new)[Len(versions[r]) + 1] = new
  BY <1>1, <1>2
<1>4. CreateVersion(versions, r, p) = [versions EXCEPT ![r] = Append(@, new)]
  BY DEF CreateVersion, new
<1>5. new.proposal = p
  BY DEF new
<1> QED BY <1>3, <1>4, <1>5

LEMMA DeployedIsSound ==
    ASSUME NEW s, NEW t \in Learnt, Sound(s), Extends(s, t), Len(t.proposals) <= MaxProposals, clock \in Nat,
           NEW r \in Resource, NEW i \in DOMAIN t.proposals,
           t.rollbacks = s.rollbacks, t.versions = CreateVersion(s.versions, r, i),
           r[1] \in {"memory", "core"}, r[1] = "core" => t.proposals[i].approved, t.proposals[i].resource = r,
           \A j \in DOMAIN t.proposals \ {i} : t.proposals[j].status = "deployed" =>
             j \in DOMAIN s.proposals /\ s.proposals[j].status = "deployed"
    PROVE  Sound(t)
<1>1. s.versions \in [Resource -> Seq(ResourceVersion)] /\ i \in Nat
  BY FieldTypes DEF Learnt
<1>2. VersionsStay(s, t)
  <2> SUFFICES ASSUME NEW q \in Resource
               PROVE  /\ Len(s.versions[q]) <= Len(t.versions[q])
                      /\ \A v \in DOMAIN s.versions[q] : t.versions[q][v] = s.versions[q][v]
    BY DEF VersionsStay
  <2>1. s.versions[q] \in Seq(ResourceVersion)
    BY <1>1
  <2>2. Len(s.versions[q]) \in Nat
    BY <2>1
  <2>3. CASE q = r
    BY <1>1, <2>2, <2>3, CreatedVersion
  <2>4. CASE q # r
    BY <1>1, <2>2, <2>4, CreatedVersion
  <2> QED BY <2>3, <2>4
<1>3. \A q \in Resource : \A v \in DOMAIN t.versions[q] \ DOMAIN s.versions[q] :
        q = r /\ t.versions[q][v].proposal = i
  BY <1>1, CreatedVersion
<1>4. \E v \in DOMAIN t.versions[r] : t.versions[r][v].proposal = i
  BY <1>1, CreatedVersion
<1> QED BY <1>2, <1>3, <1>4, ExtensionIsSound

\* A change of the status.
LEMMA DecidedIsSound ==
    ASSUME NEW s, NEW t \in Learnt, Sound(s), Extends(s, t), Len(t.proposals) <= MaxProposals,
           t.rollbacks = s.rollbacks, t.versions = s.versions,
           \A j \in DOMAIN t.proposals : t.proposals[j].status = "deployed" =>
             j \in DOMAIN s.proposals /\ s.proposals[j].status = "deployed"
    PROVE  Sound(t)
<1>1. VersionsStay(s, t)
  BY FieldTypes DEF VersionsStay
<1> QED BY <1>1, ExtensionIsSound

LEMMA RolledBackIsSound ==
    ASSUME NEW s, Sound(s), NEW r \in Resource, NEW target \in DOMAIN s.versions[r],
           NEW by \in {"user", "degradation"}
    PROVE  LET t == RolledBack(s, r, target, by) IN Sound(t) /\ Extends(s, t)
<1> DEFINE t == RolledBack(s, r, target, by)
           last == Len(s.versions[r])
           mark == [s.versions[r] EXCEPT ![last].status = "rolled_back"]
           rb == [resource |-> r, from |-> last, to |-> target, by |-> by]
<1>1. /\ s \in Learnt /\ s.versions \in [Resource -> Seq(ResourceVersion)]
      /\ s.rollbacks \in Seq(RollbackRecord) /\ s.versions[r] \in Seq(ResourceVersion)
      /\ s.proposals \in Seq(ProposalRecord) /\ Len(s.proposals) <= MaxProposals
  BY FieldTypes DEF Sound
<1>2. last \in DOMAIN s.versions[r] /\ last \in Nat /\ target \in Nat
  BY <1>1
<1>3. s.versions[r][last] \in ResourceVersion
  BY <1>1, <1>2
<1>4. /\ mark \in Seq(ResourceVersion) /\ Len(mark) = last /\ DOMAIN mark = DOMAIN s.versions[r]
      /\ mark[last].status = "rolled_back"
      /\ \A v \in DOMAIN mark : /\ mark[v].proposal = s.versions[r][v].proposal
                                /\ s.versions[r][v].status = "rolled_back" => mark[v].status = "rolled_back"
  <2>1. mark = [s.versions[r] EXCEPT ![last] = [@ EXCEPT !.status = "rolled_back"]]
    OBVIOUS
  <2>2. [s.versions[r][last] EXCEPT !.status = "rolled_back"] \in ResourceVersion
    BY <1>3 DEF ResourceVersion
  <2>3. [s.versions[r][last] EXCEPT !.status = "rolled_back"].proposal = s.versions[r][last].proposal
        /\ [s.versions[r][last] EXCEPT !.status = "rolled_back"].status = "rolled_back"
    BY <1>3 DEF ResourceVersion
  <2> DEFINE marked == [s.versions[r][last] EXCEPT !.status = "rolled_back"]
  <2> HIDE DEF marked
  <2>4. mark = [s.versions[r] EXCEPT ![last] = marked]
    BY <2>1 DEF marked
  <2> HIDE DEF mark
  <2>5. mark \in Seq(ResourceVersion) /\ Len(mark) = last /\ DOMAIN mark = DOMAIN s.versions[r]
    BY <1>1, <1>2, <2>2, <2>4 DEF marked
  <2>6. \A v \in DOMAIN mark : mark[v] = IF v = last THEN marked ELSE s.versions[r][v]
    BY <1>1, <2>4, <2>5
  <2>7. marked.proposal = s.versions[r][last].proposal /\ marked.status = "rolled_back"
    BY <2>3 DEF marked
  <2> QED BY <1>2, <2>5, <2>6, <2>7
<1>5. rb \in RollbackRecord
  BY <1>2 DEF RollbackRecord
<1>6. rb.from = last /\ rb.to = target /\ rb.resource = r
  OBVIOUS
<1>7. t = [s EXCEPT !.rollbacks = Append(@, rb), !.versions[r] = mark]
  BY <1>1 DEF RolledBack, Learnt
<1> HIDE DEF rb, mark, t
<1>8. /\ t.rollbacks = Append(s.rollbacks, rb) /\ t.versions = [s.versions EXCEPT ![r] = mark]
      /\ t.proposals = s.proposals /\ t.deferred = s.deferred /\ t.sandbox = s.sandbox
  BY <1>1, <1>7 DEF Learnt
<1>9. t \in Learnt
  <2>1. t.rollbacks \in Seq(RollbackRecord) /\ t.versions \in [Resource -> Seq(ResourceVersion)]
    BY <1>1, <1>4, <1>5, <1>8
  <2>2. t = [proposals |-> t.proposals, deferred |-> t.deferred, sandbox |-> t.sandbox,
             versions |-> t.versions, rollbacks |-> t.rollbacks]
    BY <1>1, <1>7 DEF Learnt
  <2> QED BY <1>1, <1>8, <2>1, <2>2 DEF Learnt
<1>10. Extends(s, t)
  BY <1>1, <1>8 DEF Extends
<1>11. t.versions[r] = mark /\ \A q \in Resource \ {r} : t.versions[q] = s.versions[q]
  BY <1>1, <1>8
<1>12. VersionsStay(s, t) /\ \A q \in Resource : DOMAIN t.versions[q] = DOMAIN s.versions[q]
  <2> SUFFICES ASSUME NEW q \in Resource
               PROVE  /\ Len(s.versions[q]) <= Len(t.versions[q])
                      /\ DOMAIN t.versions[q] = DOMAIN s.versions[q]
                      /\ \A v \in DOMAIN s.versions[q] :
                           /\ t.versions[q][v].proposal = s.versions[q][v].proposal
                           /\ s.versions[q][v].status = "rolled_back" => t.versions[q][v].status = "rolled_back"
    BY DEF VersionsStay
  <2>1. s.versions[q] \in Seq(ResourceVersion)
    BY <1>1
  <2>2. CASE q = r
    <3>1. t.versions[q] = mark /\ s.versions[q] = s.versions[r]
      BY <1>11, <2>2
    <3>2. Len(s.versions[q]) <= Len(mark)
      BY <1>2, <1>4, <2>2
    <3>3. Len(s.versions[q]) <= Len(t.versions[q])
      BY <3>1, <3>2
    <3>4. DOMAIN t.versions[q] = DOMAIN s.versions[q]
      BY <1>4, <3>1
    <3>5. \A v \in DOMAIN s.versions[q] :
            /\ t.versions[q][v].proposal = s.versions[q][v].proposal
            /\ s.versions[q][v].status = "rolled_back" => t.versions[q][v].status = "rolled_back"
      <4> SUFFICES ASSUME NEW v \in DOMAIN s.versions[r]
                   PROVE  /\ mark[v].proposal = s.versions[r][v].proposal
                          /\ s.versions[r][v].status = "rolled_back" => mark[v].status = "rolled_back"
        BY <3>1
      <4>1. v \in DOMAIN mark
        BY <1>4
      <4> QED BY <1>4, <4>1
    <3> QED BY <3>3, <3>4, <3>5
  <2>3. CASE q # r
    BY <1>11, <2>1, <2>3
  <2> QED BY <2>2, <2>3
<1>13. \A i \in DOMAIN t.rollbacks : (i \in DOMAIN s.rollbacks /\ t.rollbacks[i] = s.rollbacks[i]) \/ t.rollbacks[i] = rb
  BY <1>1, <1>5, <1>8
<1>14. {rb.from, rb.to} \subseteq DOMAIN t.versions[rb.resource]
       /\ t.versions[rb.resource][rb.from].status = "rolled_back"
  BY <1>2, <1>4, <1>6, <1>11
<1>15. Sound(t)
  <2>1. Len(t.proposals) <= MaxProposals
    BY <1>1, <1>8
  <2>2. \A q \in Resource : DOMAIN t.versions[q] \ DOMAIN s.versions[q] = {}
    BY <1>12
  <2>3. \A i \in DOMAIN t.proposals : t.proposals[i].status = "deployed" =>
          i \in DOMAIN s.proposals /\ s.proposals[i].status = "deployed"
    BY <1>8
  <2>4. \A i \in DOMAIN t.rollbacks :
          \/ i \in DOMAIN s.rollbacks /\ t.rollbacks[i] = s.rollbacks[i]
          \/ /\ {t.rollbacks[i].from, t.rollbacks[i].to} \subseteq DOMAIN t.versions[t.rollbacks[i].resource]
             /\ t.versions[t.rollbacks[i].resource][t.rollbacks[i].from].status = "rolled_back"
    BY <1>13, <1>14
  <2> QED BY <1>9, <1>10, <1>12, <2>1, <2>2, <2>3, <2>4, ExtensionIsSound
<1> QED BY <1>10, <1>15 DEF t

-----------------------------------------------------------------------------
LEMMA SaveKeeps ==
    ASSUME LearningInv, NEW p \in Process, NEW s, Sound(s), Extends(state, s),
           NEW then \in {"done", "approved", "dated", "reset", "checking"}, NEW i \in Nat,
           NEW visited \in SUBSET (Resource \cup SkillName), then = "approved" => IsCoreProposal(s, i),
           Save(p, s, then, i, visited)
    PROVE  LearningInv'
<1> DEFINE new == [pc |-> "writing", then |-> then, proposal |-> i, visited |-> visited, content |-> s,
                   overlapped |-> Writers # {}]
<1> USE DEF LearningInv, LearningTypes
<1>1. s \in Learnt /\ new \in Task
  BY DEF Sound, Task, Step
<1>2. \A q \in Process : [task[q] EXCEPT !.overlapped = TRUE] \in Task
  BY DEF Task
<1>3. task' = [q \in Process |-> IF q = p THEN new
                                ELSE IF q \in Writers THEN [task[q] EXCEPT !.overlapped = TRUE]
                                ELSE task[q]]
  BY DEF Save
<1>4. LearningTypes'
  <2>1. clock' = clock /\ results' = results /\ mixed' \in BOOLEAN
    BY DEF Save
  <2>2. task' \in [Process -> Task]
    BY <1>1, <1>2, <1>3
  <2> QED BY <2>1, <2>2
<1>5. Saved'
  <2> SUFFICES ASSUME ~mixed'
               PROVE  Writers' = {p} /\ task'[p].content = state' /\ ~task'[p].overlapped
    BY DEF Saved
  <2>1. Writers = {}
    BY DEF Save
  <2>2. \A q \in Process \ {p} : task'[q] = task[q] /\ task[q].pc # "writing"
    BY <1>3, <2>1 DEF Writers, Is
  <2>3. task'[p] = new
    BY <1>3
  <2>4. Writers' = {p}
    BY <2>2, <2>3 DEF Writers, Is
  <2> QED BY <2>1, <2>3, <2>4 DEF Save
<1>6. Sound(state') /\ state' = s /\ file' = Torn
  BY DEF Save
<1>7. ASSUME NEW q \in Process PROVE TaskSound(task[q])'
  <2>1. CASE q = p
    BY <1>3, <1>6, <2>1 DEF TaskSound
  <2>2. CASE q # p
    <3>1. /\ task'[q].content = task[q].content /\ task'[q].pc = task[q].pc
          /\ task'[q].then = task[q].then /\ task'[q].proposal = task[q].proposal
      BY <1>3, <2>2 DEF Task
    <3>2. TaskSound(task[q]) /\ task[q] \in Task
      OBVIOUS
    <3>3. \A k \in Nat : IsCoreProposal(state, k) => IsCoreProposal(s, k)
      <4>1. state.proposals \in Seq(ProposalRecord) /\ s.proposals \in Seq(ProposalRecord)
        BY FieldTypes
      <4> QED BY <4>1 DEF IsCoreProposal, Extends
    <3> QED BY <1>6, <3>1, <3>2, <3>3 DEF TaskSound, Task
  <2> QED BY <2>1, <2>2
<1> QED BY <1>4, <1>5, <1>6, <1>7

LEMMA RestsSoundly == Resting \in Task /\ \A j \in {Resting} : TaskSound(j) /\ TaskSound(j)'
<1>1. EmptyState \in Learnt
  BY NothingIsSound DEF Sound
<1> QED BY <1>1, NothingIsSound DEF Resting, Task, Step, TaskSound

LEMMA WrittenKeeps ==
    ASSUME LearningInv, NEW p \in Process, Written(p)
    PROVE  LearningInv'
<1> DEFINE next == [task[p] EXCEPT !.pc = task[p].then, !.content = EmptyState, !.overlapped = FALSE]
<1> USE DEF LearningInv, LearningTypes
<1>1. task[p] \in Task /\ TaskSound(task[p]) /\ task[p].pc = "writing"
  BY DEF Written, Is
<1>2. task[p].then # "done" => next \in Task /\ \A j \in {next} : TaskSound(j)
  <2>1. EmptyState \in Learnt
    BY NothingIsSound DEF Sound
  <2>2. task[p].then # "done" => task[p].then \in Step
    BY <1>1 DEF Task, Step
  <2> QED BY <1>1, <2>1, <2>2, NothingIsSound DEF Task, TaskSound
<1>3. /\ task' = [task EXCEPT ![p] = IF task[p].then = "done" THEN Resting ELSE next]
      /\ UNCHANGED <<clock, state, results, mixed, stops>>
  BY DEF Written
<1>4. task'[p] \in {Resting, next} /\ task'[p] \in Task /\ TaskSound(task'[p])
  BY <1>2, <1>3, RestsSoundly
<1>5. \A q \in Process \ {p} : task'[q] = task[q]
  BY <1>3
<1>6. task' \in [Process -> Task]
  BY <1>3, <1>4
<1>7. \A q \in Process : TaskSound(task[q])'
  BY <1>3, <1>4, <1>5 DEF TaskSound, IsCoreProposal
<1>8. file' = task[p].content \/ (task[p].overlapped /\ file' = Torn)
  BY DEF Written
<1>9. Saved'
  <2> SUFFICES ASSUME ~mixed' PROVE Writers' = {} /\ file' = state'
    BY DEF Saved
  <2>1. p \in Writers
    BY <1>1 DEF Writers, Is
  <2>2. Writers = {p} /\ task[p].content = state /\ ~task[p].overlapped
    BY <1>3, <2>1 DEF Saved
  <2>3. task'[p].pc # "writing"
    <3>1. next.pc = task[p].then /\ task[p].then # "writing"
      BY <1>1 DEF Task
    <3>2. Resting.pc # "writing"
      BY DEF Resting
    <3> HIDE DEF next
    <3> QED BY <1>4, <3>1, <3>2
  <2>4. Writers' = {}
    BY <1>5, <2>2, <2>3 DEF Writers, Is
  <2> QED BY <1>3, <1>8, <2>2, <2>4
<1> QED BY <1>1, <1>3, <1>6, <1>7, <1>8, <1>9 DEF TaskSound

\* A step that only ends a task.
LEMMA EndedKeeps ==
    ASSUME LearningInv, NEW p \in Process, task[p].pc # "writing", task' = [task EXCEPT ![p] = Resting],
           UNCHANGED <<clock, state, results, file, mixed>>
    PROVE  LearningInv'
<1> USE DEF LearningInv, LearningTypes
<1>1. task' \in [Process -> Task] /\ task'[p] = Resting /\ \A q \in Process \ {p} : task'[q] = task[q]
  BY RestsSoundly
<1>2. \A q \in Process : TaskSound(task[q])'
  BY <1>1, RestsSoundly DEF TaskSound, IsCoreProposal
<1>3. Writers' = Writers
  BY <1>1 DEF Writers, Is, Resting
<1>4. Saved'
  <2> SUFFICES ASSUME ~mixed'
               PROVE  /\ Writers' = {} => file' = state'
                      /\ \A q \in Writers' : Writers' = {q} /\ task'[q].content = state' /\ ~task'[q].overlapped
    BY DEF Saved
  <2>1. p \notin Writers /\ Writers \subseteq Process
    BY DEF Writers, Is
  <2> QED BY <1>1, <1>3, <2>1 DEF Saved
<1> QED BY <1>1, <1>2, <1>4

LEMMA RestartKeeps ==
    ASSUME LearningInv, Restart
    PROVE  LearningInv'
<1> USE DEF LearningInv, LearningTypes, Restart
<1>1. Sound(state') /\ file' = file /\ clock' = clock
  BY NothingIsSound
<1>2. task' \in [Process -> Task] /\ \A q \in Process : task'[q] = Resting
  BY RestsSoundly
<1>3. \A q \in Process : TaskSound(task[q])'
  BY <1>2, RestsSoundly DEF TaskSound, IsCoreProposal
<1>4. Writers' = {}
  BY <1>2 DEF Writers, Is, Resting
<1>5. results' \in [SkillName -> Seq(BOOLEAN)] /\ \A s \in SkillName : Len(results'[s]) <= KeptResults
  BY BoundAssumption
<1>6. mixed' \in BOOLEAN /\ Saved'
  BY <1>4 DEF Saved
<1> QED BY <1>1, <1>2, <1>3, <1>5, <1>6

LEMMA RecordKeeps ==
    ASSUME LearningInv, RecordSkillResult
    PROVE  LearningInv'
<1> USE DEF LearningInv, LearningTypes
<1>1. PICK s \in SkillName, ok \in BOOLEAN :
        results' = [results EXCEPT ![s] =
            LET all == Append(@, ok) IN IF Len(all) > KeptResults THEN Tail(all) ELSE all]
  BY DEF RecordSkillResult
<1> DEFINE all == Append(results[s], ok)
           kept == IF Len(all) > KeptResults THEN Tail(all) ELSE all
<1>2. results[s] \in Seq(BOOLEAN) /\ Len(results[s]) <= KeptResults /\ KeptResults \in Nat
  BY BoundAssumption
<1>3. all \in Seq(BOOLEAN) /\ Len(all) = Len(results[s]) + 1 /\ Len(results[s]) \in Nat
  BY <1>2
<1> HIDE DEF all
<1>4. kept \in Seq(BOOLEAN) /\ Len(kept) <= KeptResults
  <2>1. all # <<>>
    BY <1>3
  <2>2. Tail(all) \in Seq(BOOLEAN) /\ Len(Tail(all)) = Len(all) - 1
    BY <1>3, <2>1
  <2>3. Len(all) <= KeptResults + 1
    BY <1>2, <1>3
  <2> HIDE DEF kept
  <2>4. CASE Len(all) > KeptResults
    BY <1>2, <1>3, <2>2, <2>3, <2>4 DEF kept
  <2>5. CASE ~(Len(all) > KeptResults)
    BY <1>2, <1>3, <2>5 DEF kept
  <2> QED BY <2>4, <2>5
<1>5. results' = [results EXCEPT ![s] = kept]
  BY <1>1 DEF all
<1> HIDE DEF kept
<1>6. results' \in [SkillName -> Seq(BOOLEAN)] /\ \A k \in SkillName : Len(results'[k]) <= KeptResults
  BY <1>4, <1>5
<1>7. UNCHANGED <<clock, state, file, task, mixed>>
  BY DEF RecordSkillResult
<1> QED BY <1>6, <1>7 DEF Saved, Writers, Is, TaskSound, IsCoreProposal

-----------------------------------------------------------------------------
\* The steps that save.
LEMMA SubmitKeeps ==
    ASSUME LearningInv, NEW p \in Process, NEW r \in Resource, Submit(p, r)
    PROVE  LearningInv'
<1> DEFINE n == Len(state.proposals) + 1
           t == Routed(state, r)
<1>1. /\ Sound(state) /\ state \in Learnt /\ clock \in Nat
      /\ state.proposals \in Seq(ProposalRecord) /\ state.versions \in [Resource -> Seq(ResourceVersion)]
  BY FieldTypes DEF LearningInv, LearningTypes
<1>2. n \in Nat /\ n <= MaxProposals
  <2>1. Len(state.proposals) < MaxProposals /\ Len(state.proposals) \in Nat
    BY <1>1 DEF Submit, Count
  <2> QED BY <2>1, BoundAssumption
<1>3. PICK status \in Status :
        /\ status = "deployed" => r[1] = "memory"
        /\ t.proposals = Append(state.proposals, Proposal(r, status))
        /\ t.rollbacks = state.rollbacks
        /\ t.versions = IF r[1] = "memory" THEN CreateVersion(state.versions, r, n) ELSE state.versions
        /\ r[1] = "memory" \/ status # "deployed"
        /\ t \in Learnt
  <2>1. \A status \in Status : Append(state.proposals, Proposal(r, status)) \in Seq(ProposalRecord)
    BY <1>1 DEF Proposal, ProposalRecord
  <2>2. /\ Put(state.deferred, n) \in SUBSET [at : Nat, proposal : Nat]
        /\ Put(state.sandbox, n) \in SUBSET [at : Nat, proposal : Nat]
    BY <1>1, <1>2 DEF Put, Learnt
  <2>3. CreateVersion(state.versions, r, n) \in [Resource -> Seq(ResourceVersion)]
    BY <1>1, <1>2, CreatedVersion
  <2>4. CASE r[1] = "memory"
    BY <1>1, <2>1, <2>3, <2>4 DEF Routed, Learnt, Status
  <2>5. CASE r[1] = "skills"
    BY <1>1, <2>1, <2>2, <2>5 DEF Routed, Learnt, Status
  <2>6. CASE r[1] = "behavior"
    BY <1>1, <2>1, <2>2, <2>6 DEF Routed, Learnt, Status
  <2>7. CASE r[1] = "core"
    BY <1>1, <2>1, <2>7 DEF Routed, Learnt, Status
  <2> QED BY <2>4, <2>5, <2>6, <2>7, ResourceAssumption DEF Category
<1> HIDE DEF t
<1>4. /\ Len(t.proposals) = n /\ n \in DOMAIN t.proposals
      /\ DOMAIN t.proposals = DOMAIN state.proposals \cup {n}
      /\ \A i \in DOMAIN state.proposals : t.proposals[i] = state.proposals[i]
      /\ t.proposals[n].resource = r /\ t.proposals[n].status = status
  <2>1. Proposal(r, status).resource = r /\ Proposal(r, status).status = status
    BY DEF Proposal
  <2> QED BY <1>1, <1>3, <2>1
<1>5. Extends(state, t)
  BY <1>1, <1>4 DEF Extends
<1>6. Sound(t)
  <2>1. \A j \in DOMAIN t.proposals \ {n} : t.proposals[j].status = "deployed" =>
             j \in DOMAIN state.proposals /\ state.proposals[j].status = "deployed"
    BY <1>4
  <2>2. CASE r[1] = "memory"
    BY <1>1, <1>2, <1>3, <1>4, <1>5, <2>1, <2>2, DeployedIsSound
  <2>3. CASE r[1] # "memory"
    <3>1. t.versions = state.versions /\ t.proposals[n].status # "deployed"
      BY <1>3, <1>4, <2>3
    <3> QED BY <1>1, <1>2, <1>3, <1>4, <1>5, <2>1, <3>1, DecidedIsSound
  <2> QED BY <2>2, <2>3
<1>7. Save(p, t, "done", 0, {})
  BY DEF Submit, t
<1> QED BY <1>5, <1>6, <1>7, SaveKeeps

\* Approval and rejection: s is what becomes of the state.
LEMMA DecisionExtends ==
    ASSUME NEW s, Sound(s), NEW i \in DOMAIN s.proposals, NEW new \in ProposalRecord,
           new.resource = s.proposals[i].resource, s.proposals[i].approved => new.approved,
           NEW t \in Learnt, t.proposals = [s.proposals EXCEPT ![i] = new]
    PROVE  /\ Extends(s, t) /\ Len(t.proposals) <= MaxProposals /\ DOMAIN t.proposals = DOMAIN s.proposals
           /\ t.proposals[i] = new /\ \A j \in DOMAIN s.proposals \ {i} : t.proposals[j] = s.proposals[j]
<1>1. s.proposals \in Seq(ProposalRecord) /\ Len(s.proposals) <= MaxProposals
  BY FieldTypes DEF Sound
<1>2. /\ DOMAIN t.proposals = DOMAIN s.proposals /\ Len(t.proposals) = Len(s.proposals)
      /\ t.proposals[i] = new /\ \A j \in DOMAIN s.proposals \ {i} : t.proposals[j] = s.proposals[j]
  BY <1>1
<1> QED BY <1>1, <1>2 DEF Extends

LEMMA ApproveKeeps ==
    ASSUME LearningInv, NEW p \in Process, ApproveProposal(p)
    PROVE  LearningInv'
<1>1. PICK i \in 1..Count :
        /\ Approvable(i)
        /\ Save(p, [state EXCEPT !.proposals[i].status = "approved", !.proposals[i].approved = TRUE],
                "approved", i, {})
  BY DEF ApproveProposal
<1> DEFINE new == [state.proposals[i] EXCEPT !.status = "approved", !.approved = TRUE]
           t == [state EXCEPT !.proposals = [state.proposals EXCEPT ![i] = new]]
<1>2. /\ Sound(state) /\ state \in Learnt /\ state.proposals \in Seq(ProposalRecord)
      /\ i \in DOMAIN state.proposals /\ i \in Nat /\ state.proposals[i] \in ProposalRecord
  BY FieldTypes DEF LearningInv, Count
<1>3. new \in ProposalRecord /\ new.resource = state.proposals[i].resource /\ new.approved = TRUE /\ new.status = "approved"
  BY <1>2 DEF ProposalRecord, Status
<1>4. Save(p, t, "approved", i, {})
  <2>1. [state EXCEPT !.proposals[i].status = "approved", !.proposals[i].approved = TRUE] = t
    BY <1>2 DEF Learnt, ProposalRecord
  <2> QED BY <1>1, <2>1
<1> HIDE DEF new
<1>5. [state.proposals EXCEPT ![i] = new] \in Seq(ProposalRecord)
  BY <1>2, <1>3
<1>6. /\ t \in Learnt /\ t.proposals = [state.proposals EXCEPT ![i] = new]
      /\ t.rollbacks = state.rollbacks /\ t.versions = state.versions
  BY <1>2, <1>5 DEF Learnt
<1> HIDE DEF t
<1>7. /\ Extends(state, t) /\ Len(t.proposals) <= MaxProposals /\ DOMAIN t.proposals = DOMAIN state.proposals
      /\ t.proposals[i] = new /\ \A j \in DOMAIN state.proposals \ {i} : t.proposals[j] = state.proposals[j]
  BY <1>2, <1>3, <1>6, DecisionExtends
<1>8. Sound(t)
  BY <1>2, <1>3, <1>6, <1>7, DecidedIsSound
<1>9. IsCoreProposal(t, i)
  BY <1>1, <1>2, <1>3, <1>7 DEF Approvable, IsCoreProposal
<1> QED BY <1>2, <1>4, <1>7, <1>8, <1>9, SaveKeeps

LEMMA RejectKeeps ==
    ASSUME LearningInv, NEW p \in Process, RejectProposal(p)
    PROVE  LearningInv'
<1>1. PICK i \in 1..Count : Save(p, [state EXCEPT !.proposals[i].status = "rejected"], "done", 0, {})
  BY DEF RejectProposal
<1> DEFINE new == [state.proposals[i] EXCEPT !.status = "rejected"]
           t == [state EXCEPT !.proposals = [state.proposals EXCEPT ![i] = new]]
<1>2. /\ Sound(state) /\ state \in Learnt /\ state.proposals \in Seq(ProposalRecord)
      /\ i \in DOMAIN state.proposals /\ state.proposals[i] \in ProposalRecord
  BY FieldTypes DEF LearningInv, Count
<1>3. /\ new \in ProposalRecord /\ new.resource = state.proposals[i].resource
      /\ new.approved = state.proposals[i].approved /\ new.status = "rejected"
  BY <1>2 DEF ProposalRecord, Status
<1>4. Save(p, t, "done", 0, {})
  BY <1>1
<1> HIDE DEF new
<1>5. [state.proposals EXCEPT ![i] = new] \in Seq(ProposalRecord)
  BY <1>2, <1>3
<1>6. /\ t \in Learnt /\ t.proposals = [state.proposals EXCEPT ![i] = new]
      /\ t.rollbacks = state.rollbacks /\ t.versions = state.versions
  BY <1>2, <1>5 DEF Learnt
<1> HIDE DEF t
<1>7. /\ Extends(state, t) /\ Len(t.proposals) <= MaxProposals /\ DOMAIN t.proposals = DOMAIN state.proposals
      /\ t.proposals[i] = new /\ \A j \in DOMAIN state.proposals \ {i} : t.proposals[j] = state.proposals[j]
  BY <1>2, <1>3, <1>6, DecisionExtends
<1>8. Sound(t)
  BY <1>2, <1>3, <1>6, <1>7, DecidedIsSound
<1> QED BY <1>4, <1>7, <1>8, SaveKeeps

LEMMA DeployKeeps ==
    ASSUME LearningInv, NEW p \in Process, DeployApproved(p)
    PROVE  LearningInv'
<1> DEFINE i == task[p].proposal
           r == state.proposals[i].resource
           new == [state.proposals[i] EXCEPT !.status = "deployed", !.approved = TRUE]
           t == [state EXCEPT !.proposals = [state.proposals EXCEPT ![i] = new],
                              !.versions = CreateVersion(state.versions, r, i)]
<1>1. IsCoreProposal(state, i)
  BY DEF LearningInv, TaskSound, DeployApproved, Is
<1>2. /\ Sound(state) /\ state \in Learnt /\ state.proposals \in Seq(ProposalRecord) /\ clock \in Nat
      /\ state.versions \in [Resource -> Seq(ResourceVersion)]
      /\ i \in DOMAIN state.proposals /\ i \in Nat /\ state.proposals[i] \in ProposalRecord
  BY <1>1, FieldTypes DEF LearningInv, LearningTypes, IsCoreProposal
<1>3. /\ new \in ProposalRecord /\ new.resource = r /\ new.approved = TRUE
      /\ r \in Resource /\ r[1] = "core"
  BY <1>1, <1>2 DEF ProposalRecord, Status, IsCoreProposal
<1>4. Save(p, t, "done", 0, {})
  BY DEF DeployApproved
<1> HIDE DEF new, i, r
<1>5. /\ [state.proposals EXCEPT ![i] = new] \in Seq(ProposalRecord)
      /\ CreateVersion(state.versions, r, i) \in [Resource -> Seq(ResourceVersion)]
  BY <1>2, <1>3, CreatedVersion
<1>6. /\ t \in Learnt /\ t.proposals = [state.proposals EXCEPT ![i] = new]
      /\ t.rollbacks = state.rollbacks /\ t.versions = CreateVersion(state.versions, r, i)
  BY <1>2, <1>5 DEF Learnt
<1> HIDE DEF t
<1>7. /\ Extends(state, t) /\ Len(t.proposals) <= MaxProposals /\ DOMAIN t.proposals = DOMAIN state.proposals
      /\ t.proposals[i] = new /\ \A j \in DOMAIN state.proposals \ {i} : t.proposals[j] = state.proposals[j]
  BY <1>2, <1>3, <1>6, DecisionExtends DEF r
<1>8. Sound(t)
  <2>1. i \in DOMAIN t.proposals /\ t.proposals[i].approved /\ t.proposals[i].resource = r
    BY <1>2, <1>3, <1>7
  <2>2. r[1] \in {"memory", "core"}
    BY <1>3
  <2>3. \A j \in DOMAIN t.proposals \ {i} : t.proposals[j].status = "deployed" =>
          j \in DOMAIN state.proposals /\ state.proposals[j].status = "deployed"
    BY <1>7
  <2> QED BY <1>2, <1>3, <1>6, <1>7, <2>1, <2>2, <2>3, DeployedIsSound
<1> QED BY <1>4, <1>7, <1>8, SaveKeeps

LEMMA RollbackKeeps ==
    ASSUME LearningInv, NEW p \in Process, NEW r, NEW target, NEW by \in {"user", "degradation"},
           r \in Resource, CanRollBack(r, target), NEW then \in {"done", "dated", "reset", "checking"},
           NEW i \in Nat, NEW visited \in SUBSET (Resource \cup SkillName),
           Save(p, RolledBack(state, r, target, by), then, i, visited)
    PROVE  LearningInv'
<1>1. Sound(state) /\ target \in DOMAIN state.versions[r]
  BY DEF LearningInv, CanRollBack
<1>2. Sound(RolledBack(state, r, target, by)) /\ Extends(state, RolledBack(state, r, target, by))
  BY <1>1, RolledBackIsSound
<1> QED BY <1>2, SaveKeeps

LEMMA ResetKeeps ==
    ASSUME LearningInv, NEW p \in Process, NEW then \in {"dated", "reset"}, NEW date \in Nat,
           NEW visited \in SUBSET (Resource \cup SkillName), NEW kept, ResetNext(p, then, date, visited, kept)
    PROVE  LearningInv'
<1>1. PICK r \in DueForReset(then, date, visited, kept) :
        /\ CanRollBack(r, ResetTarget(then, date, r))
        /\ Save(p, RolledBack(state, r, ResetTarget(then, date, r), "user"), then, date,
                visited \cup {r} \cup {q \in Resource : q[1] \in kept})
  BY DEF ResetNext
<1>2. r \in Resource
  BY DEF DueForReset
<1>3. visited \cup {r} \cup {q \in Resource : q[1] \in kept} \in SUBSET (Resource \cup SkillName)
  BY <1>2
<1> QED BY <1>1, <1>2, <1>3, RollbackKeeps

LEMMA ContinueKeeps ==
    ASSUME LearningInv, NEW p \in Process, ContinueReset(p)
    PROVE  LearningInv'
<1> DEFINE j == task[p]
<1>1. j \in Task /\ j.pc \in {"dated", "reset"}
  BY DEF LearningInv, LearningTypes, ContinueReset, Is
<1>2. CASE ResetNext(p, j.pc, j.proposal, j.visited, {})
  <2>1. j.proposal \in Nat /\ j.visited \in SUBSET (Resource \cup SkillName)
    BY <1>1 DEF Task
  <2> QED BY <1>1, <1>2, <2>1, ResetKeeps
<1>3. CASE /\ task' = [task EXCEPT ![p] = Resting]
           /\ UNCHANGED <<clock, state, results, file, mixed, stops>>
  BY <1>1, <1>3, EndedKeeps
<1> QED BY <1>2, <1>3 DEF ContinueReset

LEMMA CheckKeeps ==
    ASSUME LearningInv, CheckForDegradation \/ CheckDone
    PROVE  LearningInv'
<1>1. "monitor" \in Process /\ task["monitor"] \in Task
  BY DEF Process, LearningInv, LearningTypes
<1>2. CASE CheckForDegradation
  <2>1. PICK s \in SkillName \ task["monitor"].visited :
          /\ s \in Resource /\ CanRollBack(s, Len(state.versions[s]) - 1)
          /\ Save("monitor", RolledBack(state, s, Len(state.versions[s]) - 1, "degradation"),
                  "checking", 0, task["monitor"].visited \cup {s})
    BY <1>2 DEF CheckForDegradation
  <2>2. task["monitor"].visited \cup {s} \in SUBSET (Resource \cup SkillName)
    BY <1>1 DEF Task
  <2> QED BY <1>1, <2>1, <2>2, RollbackKeeps
<1>3. CASE CheckDone
  BY <1>1, <1>3, EndedKeeps DEF CheckDone, Is
<1> QED BY <1>2, <1>3

LEMMA LearningInitial == LearningInit => LearningInv
<1> SUFFICES ASSUME LearningInit PROVE LearningInv
  OBVIOUS
<1> USE DEF LearningInit
<1>1. results \in [SkillName -> Seq(BOOLEAN)] /\ \A s \in SkillName : Len(results[s]) <= KeptResults
  BY BoundAssumption
<1>2. task \in [Process -> Task] /\ \A p \in Process : task[p] = Resting
  BY RestsSoundly
<1>3. Writers = {}
  BY <1>2 DEF Writers, Is, Resting
<1> QED BY <1>1, <1>2, <1>3, RestsSoundly, NothingIsSound DEF LearningInv, LearningTypes, Saved

LEMMA LearningStep == LearningInv /\ [LearningNext]_learningVars => LearningInv'
<1> SUFFICES ASSUME LearningInv, [LearningNext]_learningVars PROVE LearningInv'
  OBVIOUS
<1>1. ASSUME NEW p \in Process, Written(p) PROVE LearningInv'
  BY <1>1, WrittenKeeps
<1>2. ASSUME NEW p \in Caller, SubmitProposal(p) \/ DetectGap(p) PROVE LearningInv'
  BY <1>2, SubmitKeeps DEF Process, SubmitProposal, DetectGap
<1>3. ASSUME NEW p \in Caller, ApproveProposal(p) \/ DeployApproved(p) \/ RejectProposal(p) PROVE LearningInv'
  BY <1>3, ApproveKeeps, DeployKeeps, RejectKeeps DEF Process
<1>4. ASSUME NEW p \in Caller, Rollback(p) PROVE LearningInv'
  <2>1. PICK r \in Resource : \E target \in DOMAIN state.versions[r] :
          /\ CanRollBack(r, target)
          /\ Save(p, RolledBack(state, r, target, "user"), "done", 0, {})
    BY <1>4 DEF Rollback
  <2>2. PICK target \in DOMAIN state.versions[r] :
          /\ CanRollBack(r, target)
          /\ Save(p, RolledBack(state, r, target, "user"), "done", 0, {})
    BY <2>1
  <2> QED BY <2>2, RollbackKeeps DEF Process
<1>5. ASSUME NEW p \in Caller, RollbackLast(p) PROVE LearningInv'
  <2>1. PICK r \in Resource :
          /\ CanRollBack(r, Len(state.versions[r]) - 1)
          /\ Save(p, RolledBack(state, r, Len(state.versions[r]) - 1, "user"), "done", 0, {})
    BY <1>5 DEF RollbackLast
  <2> QED BY <2>1, RollbackKeeps DEF Process
<1>6. ASSUME NEW p \in Caller, RollbackToDate(p) \/ FactoryReset(p) PROVE LearningInv'
  <2>1. clock \in Nat
    BY DEF LearningInv, LearningTypes
  <2>2. \A date \in 1..clock : date \in Nat
    BY <2>1
  <2> QED BY <1>6, <2>2, ResetKeeps DEF Process, RollbackToDate, FactoryReset
<1>7. ASSUME NEW p \in Caller, ContinueReset(p) PROVE LearningInv'
  BY <1>7, ContinueKeeps DEF Process
<1>8. CASE RecordSkillResult \/ CheckForDegradation \/ CheckDone
  BY <1>8, RecordKeeps, CheckKeeps
<1>9. CASE CheckFails \/ Stop
  BY <1>9, RestartKeeps DEF CheckFails, Stop
<1>10. CASE Advance
  <2>1. clock' = clock + 1 /\ UNCHANGED <<state, results, file, task, mixed>>
    BY <1>10 DEF Advance
  <2> QED BY <2>1 DEF LearningInv, LearningTypes, Saved, Writers, Is, TaskSound, IsCoreProposal
<1>11. CASE UNCHANGED learningVars
  BY <1>11 DEF learningVars, LearningInv, LearningTypes, Saved, Writers, Is, TaskSound, IsCoreProposal
<1> QED
  BY <1>1, <1>2, <1>3, <1>4, <1>5, <1>6, <1>7, <1>8, <1>9, <1>10, <1>11 DEF LearningNext

LEMMA LearningInvImplies == LearningInv => LearningIsGoverned
<1> SUFFICES ASSUME LearningInv PROVE LearningIsGoverned
  OBVIOUS
<1>1. LearningTypeOK
  <2>1. Count <= MaxProposals /\ \A i \in 1..Count : state.proposals[i] \in ProposalRecord
    BY FieldTypes DEF LearningInv, Sound, Count
  <2> QED BY <2>1 DEF LearningInv, LearningTypes, LearningTypeOK, ProposalRecord, Status, Task, Step, Is
<1>2. EverythingIsSaved
  BY DEF LearningInv, Saved, EverythingIsSaved
<1> QED BY <1>1, <1>2 DEF LearningInv, LearningIsGoverned, Sound

\* For any callers, resources and gaps, whatever is proposed, approved, rejected, rolled back, reset and
\* cut short in between: a version of the core belongs to an approved proposal, a deployed proposal has
\* a version, every rollback is marked, in the program and in the file; and when no writes have overlapped
\* the file is what the program knows. (submitProposal, approveProposal, rollback, saveState, loadState)
THEOREM LearningStaysGoverned == LearningSpec => []LearningIsGoverned
<1>1. LearningSpec => []LearningInv
  BY LearningInitial, LearningStep, PTL DEF LearningSpec
<1> QED BY <1>1, LearningInvImplies, PTL
=============================================================================
