-------------------------- MODULE LearningCategories --------------------------
(***************************************************************************)
(* Proposals of what to learn (src/src/learning/learning-categories.ts):   *)
(* memories are deployed at once, skills and behaviour wait for a          *)
(* validation nothing performs, changes of the core wait for an approval.  *)
(* Calls interleave at the writes of state.json; writeFile() truncates the *)
(* file first, and two writes at once may leave a mixture.                 *)
(***************************************************************************)
EXTENDS Naturals, Sequences, SequencesExt, FiniteSets

CONSTANTS
    Caller,               \* callers; "monitor" is the timer that looks for degradation
    Resource,             \* <<category, type>> of the proposals
    Gap,                  \* gaps detectGap() is told of: [terms, drop (in tenths), about]
    SkillName,            \* names recordSkillResult() is called with
    MinSamples, KeptResults,      \* degradation.minSamples, and the last results that are kept
    Torn,
    MaxProposals, MaxRollbacks, MaxTime, MaxStops  \* bounds

Process == Caller \cup {"monitor"}

Category == {"memory", "skills", "behavior", "core"}
ASSUME ResourceAssumption == \A r \in Resource : r[1] \in Category
ASSUME BoundAssumption == KeptResults \in Nat /\ MaxProposals \in Nat

VARIABLES
    clock,
    state,    \* what saveState() saves
    results,  \* results[s]: successes and failures of a skill; not saved
    file,     \* state.json: a state, or Torn
    task,     \* task[p]: what p does, the write it waits for, what it goes on with
    mixed,    \* the last writes of state.json overlapped
    stops

learningVars == <<clock, state, results, file, task, mixed, stops>>

EmptyState == [proposals |-> <<>>, deferred |-> {}, sandbox |-> {},
               versions |-> [r \in Resource |-> <<>>], rollbacks |-> <<>>]
Resting == [pc |-> "idle", then |-> "done", proposal |-> 0, visited |-> {}, content |-> EmptyState,
         overlapped |-> FALSE]

LearningInit ==
    /\ clock = 1
    /\ state = EmptyState
    /\ results = [s \in SkillName |-> <<>>]
    /\ file = EmptyState  \* a missing file loads as one
    /\ task = [p \in Process |-> Resting]
    /\ mixed = FALSE /\ stops = 0

Is(p, label) == task[p].pc = label
Writers == {p \in Process : Is(p, "writing")}

\* saveState(): the content is the state at the call.
Save(p, s, then, proposal, visited) ==
    /\ state' = s
    /\ file' = Torn
    /\ mixed' = (Writers # {})
    /\ task' = [q \in Process |->
                  IF q = p THEN [pc |-> "writing", then |-> then, proposal |-> proposal,
                                 visited |-> visited, content |-> s, overlapped |-> Writers # {}]
                  ELSE IF q \in Writers THEN [task[q] EXCEPT !.overlapped = TRUE]
                  ELSE task[q]]
    /\ UNCHANGED <<clock, results, stops>>

\* Every write is the whole content; over an overlapping one it may leave a rest of that.
Written(p) ==
    /\ Is(p, "writing")
    /\ \/ file' = task[p].content
       \/ task[p].overlapped /\ file' = Torn
    /\ task' = [task EXCEPT ![p] = IF @.then = "done" THEN Resting
                                   ELSE [@ EXCEPT !.pc = task[p].then, !.content = EmptyState, !.overlapped = FALSE]]
    /\ UNCHANGED <<clock, state, results, mixed, stops>>

-----------------------------------------------------------------------------
Count == Len(state.proposals)
Proposal(r, status) == [resource |-> r, status |-> status, approved |-> FALSE]
\* Entries named by the time of their creation replace each other within a millisecond.
Put(entries, p) == {e \in entries : e.at # clock} \cup {[at |-> clock, proposal |-> p]}

\* createVersion()
CreateVersion(versions, r, p) ==
    [versions EXCEPT ![r] = Append(@, [version |-> Len(@) + 1, proposal |-> p, at |-> clock,
                                       status |-> "deployed"])]

\* submitProposal(): where a proposal goes.
Routed(s, r) ==
    LET p == Len(s.proposals) + 1
        Submitted(status) == [s EXCEPT !.proposals = Append(@, Proposal(r, status))]
    IN CASE r[1] = "memory" -> [Submitted("deployed") EXCEPT !.versions = CreateVersion(@, r, p)]
         [] r[1] = "skills" -> [Submitted("validating") EXCEPT !.deferred = Put(@, p)]
         [] r[1] = "behavior" -> [Submitted("validating") EXCEPT !.sandbox = Put(@, p)]
         [] r[1] = "core" -> Submitted("pending")

Submit(p, r) == Count < MaxProposals /\ Save(p, Routed(state, r), "done", 0, {})

SubmitProposal(p) == Is(p, "idle") /\ \E r \in Resource : Submit(p, r)

\* categorizeGap()
CategoryOf(gap) ==
    IF gap.terms /\ gap.drop < 5 THEN "memory"
    ELSE IF gap.about # "other" THEN gap.about
    ELSE IF gap.drop > 7 THEN "core" ELSE "memory"

DetectGap(p) ==
    /\ Is(p, "idle")
    /\ \E gap \in Gap : \E r \in Resource :
        r[1] = CategoryOf(gap) /\ Submit(p, r)

\* Mutation: a proposal of any category may be approved.
ApprovableAny(i) == TRUE

Approvable(i) == state.proposals[i].resource[1] = "core"

\* approveProposal() does not look at the status: what was rejected or deployed can be approved.
ApproveProposal(p) ==
    /\ Is(p, "idle")
    /\ \E i \in 1..Count :
        /\ Approvable(i)
        /\ Len(state.versions[state.proposals[i].resource]) < MaxProposals
        /\ Save(p, [state EXCEPT !.proposals[i].status = "approved", !.proposals[i].approved = TRUE],
                "approved", i, {})

\* deployApproved(), from the copy made before the write.
DeployApproved(p) ==
    /\ Is(p, "approved")
    /\ LET i == task[p].proposal
       IN Save(p, [state EXCEPT !.proposals[i] = [@ EXCEPT !.status = "deployed", !.approved = TRUE],
                                !.versions = CreateVersion(@, state.proposals[i].resource, i)],
               "done", 0, {})

RejectProposal(p) ==
    /\ Is(p, "idle")
    /\ \E i \in 1..Count : Save(p, [state EXCEPT !.proposals[i].status = "rejected"], "done", 0, {})

-----------------------------------------------------------------------------
\* rollback(): a record, and a mark at the last version. Nothing is deployed instead of it.
RolledBack(s, r, target, by) ==
    [s EXCEPT !.rollbacks = Append(@, [resource |-> r, from |-> Len(s.versions[r]), to |-> target, by |-> by]),
              !.versions[r][Len(s.versions[r])].status = "rolled_back"]

\* It throws if nothing is deployed before the last version, and if there is no such target.
CanRollBack(r, target) ==
    /\ Len(state.versions[r]) >= 2 /\ target \in DOMAIN state.versions[r]
    /\ Len(state.rollbacks) < MaxRollbacks

Rollback(p) ==
    /\ Is(p, "idle")
    /\ \E r \in Resource : \E target \in DOMAIN state.versions[r] :
        CanRollBack(r, target) /\ Save(p, RolledBack(state, r, target, "user"), "done", 0, {})

\* When the last version of r that is still deployed was deployed; 0 if none is.
DeployedAt(r) ==
    LET deployed == SelectSeq(state.versions[r], LAMBDA v : v.status = "deployed")
    IN IF deployed = <<>> THEN 0 ELSE Last(deployed).at

\* rollbackLast() finds a deployed version, and rolls the last version of its resource back.
RollbackLast(p) ==
    /\ Is(p, "idle")
    /\ \E r \in Resource :
        /\ DeployedAt(r) > 0
        /\ \A q \in Resource : q[1] = r[1] => DeployedAt(q) <= DeployedAt(r)
        /\ CanRollBack(r, Len(state.versions[r]) - 1)
        /\ Save(p, RolledBack(state, r, Len(state.versions[r]) - 1, "user"), "done", 0, {})

\* rollbackToDate(): the last version created by then.
AtDate(r, date) == Len(SelectSeq(state.versions[r], LAMBDA v : v.at <= date))

\* rollbackToDate() and factoryReset() wait for each of their rollbacks.
ResetTarget(then, date, r) ==
    IF then = "reset" THEN IF Len(state.versions[r]) > 1 THEN 1 ELSE 0
    ELSE IF AtDate(r, date) = Len(state.versions[r]) THEN 0 ELSE AtDate(r, date)

DueForReset(then, date, visited, kept) ==
    {r \in Resource \ visited : ResetTarget(then, date, r) > 0 /\ r[1] \notin kept}

ResetNext(p, then, date, visited, kept) ==
    \E r \in DueForReset(then, date, visited, kept) :
        /\ CanRollBack(r, ResetTarget(then, date, r))
        /\ Save(p, RolledBack(state, r, ResetTarget(then, date, r), "user"), then, date,
                visited \cup {r} \cup {q \in Resource : q[1] \in kept})

RollbackToDate(p) ==
    Is(p, "idle") /\ \E date \in 1..clock, kept \in {{}, {"memory"}} : ResetNext(p, "dated", date, {}, kept)
FactoryReset(p) == Is(p, "idle") /\ \E kept \in {{}, {"memory"}} : ResetNext(p, "reset", 1, {}, kept)

ContinueReset(p) ==
    /\ Is(p, "dated") \/ Is(p, "reset")
    /\ IF DueForReset(task[p].pc, task[p].proposal, task[p].visited, {}) # {}
       THEN ResetNext(p, task[p].pc, task[p].proposal, task[p].visited, {})
       ELSE /\ task' = [task EXCEPT ![p] = Resting]
            /\ UNCHANGED <<clock, state, results, file, mixed, stops>>

-----------------------------------------------------------------------------
RecordSkillResult ==
    /\ \E s \in SkillName, ok \in BOOLEAN :
        results' = [results EXCEPT ![s] =
            LET all == Append(@, ok) IN IF Len(all) > KeptResults THEN Tail(all) ELSE all]
    /\ UNCHANGED <<clock, state, file, task, mixed, stops>>

Successes(rs) == Len(SelectSeq(rs, LAMBDA ok : ok))
LastSamples(rs) == SubSeq(rs, Len(rs) - MinSamples + 1, Len(rs))
Baseline(rs) == SubSeq(rs, 1, Len(rs) \div 2)

\* Fewer than nine tenths of the success rate of the first half.
Degraded(rs) ==
    /\ Len(rs) \div 2 >= MinSamples
    /\ 10 * Successes(LastSamples(rs)) * Len(Baseline(rs)) < 9 * Successes(Baseline(rs)) * MinSamples

\* checkForDegradation() takes the name of the skill for the name of a resource.
CheckForDegradation ==
    /\ Is("monitor", "idle") \/ Is("monitor", "checking")
    /\ \E s \in SkillName \ task["monitor"].visited :
        /\ Degraded(results[s])
        /\ s \in Resource /\ CanRollBack(s, Len(state.versions[s]) - 1)
        /\ Save("monitor", RolledBack(state, s, Len(state.versions[s]) - 1, "degradation"),
                "checking", 0, task["monitor"].visited \cup {s})

CheckDone ==
    /\ Is("monitor", "checking")
    /\ \A s \in SkillName \ task["monitor"].visited : ~Degraded(results[s])
    /\ task' = [task EXCEPT !["monitor"] = Resting]
    /\ UNCHANGED <<clock, state, results, file, mixed, stops>>

\* The process ends, and starts again from the file; a file that cannot be parsed is no state.
Restart ==
    /\ state' = IF file = Torn THEN EmptyState ELSE file
    /\ results' = [s \in SkillName |-> <<>>]
    /\ task' = [p \in Process |-> Resting]
    /\ mixed' = (file = Torn)
    /\ UNCHANGED <<clock, file>>

Stop == stops < MaxStops /\ stops' = stops + 1 /\ Restart

\* A rollback that throws in the timer is an unhandled rejection, and ends the process.
CheckFails ==
    /\ Is("monitor", "idle") \/ Is("monitor", "checking")
    /\ \E s \in SkillName \ task["monitor"].visited :
        Degraded(results[s]) /\ (s \in Resource => Len(state.versions[s]) < 2)
    /\ stops < MaxStops /\ stops' = stops + 1 /\ Restart

Advance == clock < MaxTime /\ clock' = clock + 1 /\ UNCHANGED <<state, results, file, task, mixed, stops>>

LearningNext ==
    \/ \E p \in Process : Written(p)
    \/ \E p \in Caller :
        \/ SubmitProposal(p) \/ DetectGap(p) \/ ApproveProposal(p) \/ DeployApproved(p) \/ RejectProposal(p)
        \/ Rollback(p) \/ RollbackLast(p) \/ RollbackToDate(p) \/ FactoryReset(p) \/ ContinueReset(p)
    \/ RecordSkillResult \/ CheckForDegradation \/ CheckDone \/ CheckFails
    \/ Stop \/ Advance

LearningSpec == LearningInit /\ [][LearningNext]_learningVars

-----------------------------------------------------------------------------
LearningTypeOK ==
    /\ Count <= MaxProposals
    /\ \A i \in 1..Count :
        state.proposals[i].status \in {"pending", "validating", "approved", "deployed", "rejected"}
    /\ \A s \in SkillName : Len(results[s]) <= KeptResults
    /\ \A p \in Process : task[p].pc \in {"idle", "writing", "approved", "dated", "reset", "checking"}

\* Whatever is approved, rejected and cut short in between, a version of the core belongs to a
\* proposal somebody approved, skills and behaviour have no versions, and a deployed proposal
\* has one: in the program and in the file it may start from again.
GovernanceHolds(s) ==
    /\ \A r \in Resource : \A v \in DOMAIN s.versions[r] :
        /\ r[1] \in {"memory", "core"}
        /\ r[1] = "core" => s.proposals[s.versions[r][v].proposal].approved
    /\ \A i \in DOMAIN s.proposals : s.proposals[i].status = "deployed" =>
        LET r == s.proposals[i].resource
        IN \E v \in DOMAIN s.versions[r] : s.versions[r][v].proposal = i

\* Every rollback names versions that exist, and the one rolled back is marked.
RollbacksAreMarked(s) ==
    \A i \in DOMAIN s.rollbacks :
        LET rb == s.rollbacks[i]
        IN /\ {rb.from, rb.to} \subseteq DOMAIN s.versions[rb.resource]
           /\ s.versions[rb.resource][rb.from].status = "rolled_back"

\* When no write is under way, and the last ones did not overlap, a restart finds everything.
EverythingIsSaved == (Writers = {} /\ ~mixed) => file = state

\* What is deployed was decided, what is rolled back is marked, and what was decided is saved.
LearningIsGoverned ==
    /\ LearningTypeOK /\ EverythingIsSaved
    /\ \A s \in {state} \cup ({file} \ {Torn}) : GovernanceHolds(s) /\ RollbacksAreMarked(s)
=============================================================================
