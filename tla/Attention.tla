------------------------------- MODULE Attention -------------------------------
(***************************************************************************)
(* What the autonomous systems attend to: the focus and the queue of the   *)
(* executive control (executive-control.ts), the metacognition that        *)
(* watches it (metacognition.ts), and the cycle that drives both           *)
(* (autonomous-cognitive-system.ts). Every operation is one step: none of  *)
(* them awaits before its last assignment. Priorities are in tenths.       *)
(***************************************************************************)
EXTENDS Integers, Sequences, FiniteSets, SequencesExt

CONSTANTS
    Request,        \* records [type, target, priority, duration]
    Patience,       \* Patience[p]: the ticks after which priority p has decayed below 0.2
    MaxConcurrentFocus, Severity, ConflictThreshold, \* Severity of a conflict, by its type
    Strategy, Domain, FatigueThreshold, MaxResults,
    None,
    MaxTime, MaxRequests, MaxOutcomes     \* bounds

VARIABLES
    time, currentFocus, focusQueue, resources, conflicts,
    requested,                  \* the identifiers given
    inverted, released,         \* history: whether a refusal has turned the queue round,
                                \* the identifiers released or suppressed
    inputs,                     \* inputs that are being handled
    monitoring, effectiveness, strategies, outcomes, lastCheck

attention == <<currentFocus, focusQueue, resources, conflicts, requested, inverted, released, inputs>>
mind == <<monitoring, effectiveness, strategies, outcomes>>
vars == <<time, attention, mind, lastCheck>>

------------------------------------------------------------------------------
(* Executive control *)

\* Shares in percent; they add up to 100, so that nothing is normalised.
AllocateResources(type) ==
    CASE type = "goal" -> [processing |-> 40, learning |-> 10]
      [] type = "stimulus" -> [processing |-> 30, learning |-> 10]
      [] type = "memory" -> [processing |-> 15, learning |-> 5]
      [] type = "process" -> [processing |-> 50, learning |-> 15]
      [] type = "external" -> [processing |-> 30, learning |-> 20]
Balanced == [processing |-> 25, learning |-> 25]

\* A stable sort, of the highest priority first or last.
Descending(s) == SortSeq(s, LAMBDA a, b : a.priority > b.priority \/ (a.priority = b.priority /\ a.id < b.id))
Ascending(s) == SortSeq(s, LAMBDA a, b : a.priority < b.priority \/ (a.priority = b.priority /\ a.id < b.id))

Attended(queue, current) == Len(queue) + (IF current = None THEN 0 ELSE 1)

\* startedAt is the time of the request: a focus ages while it waits.
Expired(f) == time - f.startedAt > f.duration \/ time - f.startedAt > Patience[f.priority]

\* updateAttention(): an expired focus makes way for the next, whatever its own age.
Updated(current, queue) ==
    LET kept == IF current # None /\ Expired(current) THEN None ELSE current
    IN  IF kept = None /\ queue # <<>> THEN <<Head(queue), Tail(queue)>> ELSE <<kept, queue>>

Attend(after, gone) ==
    /\ currentFocus' = after[1] /\ focusQueue' = after[2]
    /\ resources' = IF after[1] # None /\ after[1] # currentFocus THEN AllocateResources(after[1].type) ELSE resources
    /\ released' = released \cup gone
                     \cup (IF currentFocus # None /\ after[1] # currentFocus THEN {currentFocus.id} ELSE {})

\* A goal against another goal is a conflict of the severity of the threshold: never dealt with.
DetectConflict(r) ==
    IF Attended(focusQueue, currentFocus) >= MaxConcurrentFocus THEN "resource"
    ELSE IF r.type = "goal" /\ \E f \in ToSet(focusQueue) \cup ({currentFocus} \ {None}) :
                                  f.type = "goal" /\ f.target # r.target
         THEN "goal" ELSE "none"
Serious(r) == DetectConflict(r) = "resource" \/ (DetectConflict(r) = "goal" /\ Severity["goal"] > ConflictThreshold)

\* resolveConflict() sorts the queue in place, the lowest priority first, and drops that if it is
\* below 0.3. Only a request that is then accepted sorts the queue back.
CanRelease == focusQueue # <<>> /\ Head(Ascending(focusQueue)).priority < 3

Focus(r) == [id |-> requested + 1, type |-> r.type, target |-> r.target, priority |-> r.priority,
             duration |-> r.duration, startedAt |-> time]

RequestAttention(r) ==
    LET full == Serious(r)
        lowestFirst == Ascending(focusQueue)
    IN  /\ requested < MaxRequests /\ requested' = requested + 1
        \* A conflict is kept under its millisecond.
        /\ conflicts' = IF full THEN conflicts \cup {[at |-> time, resolved |-> CanRelease]} ELSE conflicts
        /\ IF full /\ ~CanRelease
           THEN /\ focusQueue' = lowestFirst /\ inverted' = (inverted \/ lowestFirst # focusQueue)
                /\ UNCHANGED <<currentFocus, resources, released>>
           ELSE /\ inverted' = FALSE
                /\ Attend(Updated(currentFocus,
                                  Descending(Append(IF full THEN Tail(lowestFirst) ELSE focusQueue, Focus(r)))),
                          IF full THEN {Head(lowestFirst).id} ELSE {})

\* processInput() and requestFocus(); an input is watched when it has been handled.
Ask(r) ==
    /\ RequestAttention(r)
    /\ inputs' = IF r.type \in {"external", "stimulus"} THEN inputs + 1 ELSE inputs
    /\ UNCHANGED <<time, mind, lastCheck>>

Others(id) == SelectSeq(focusQueue, LAMBDA f : f.id # id)

ReleaseAttention(id) ==
    /\ id \in 1 .. requested
    /\ IF currentFocus # None /\ currentFocus.id = id
       THEN Attend(Updated(None, focusQueue), {})
       ELSE /\ focusQueue' = Others(id)
            /\ released' = IF Others(id) = focusQueue THEN released ELSE released \cup {id}
            /\ UNCHANGED <<currentFocus, resources>>
    /\ UNCHANGED <<time, conflicts, requested, inverted, inputs, mind, lastCheck>>

SuppressFocus(id) ==
    /\ Others(id) # focusQueue
    /\ focusQueue' = Others(id) /\ released' = released \cup {id}
    /\ UNCHANGED <<time, currentFocus, resources, conflicts, requested, inverted, inputs, mind, lastCheck>>

HasAvailableResources == resources.learning > 20 /\ resources.processing > 30

------------------------------------------------------------------------------
(* Metacognition *)

\* errors and complexity in tenths, timeOnTask in ticks.
Confidence(c) == 10 - 2 * c.errors - (2 * c.complexity) \div 10
CognitiveLoad(c) == (4 * c.complexity + 4 * c.rate + 2 * c.errors) \div 10
\* The share of "continue" among the last results, one half if there are none.
StrategyEffectiveness ==
    LET recent == SubSeq(monitoring, IF Len(monitoring) > MaxResults THEN Len(monitoring) - MaxResults + 1 ELSE 1,
                         Len(monitoring))
    IN  IF recent = <<>> THEN 5
        ELSE (10 * Len(SelectSeq(recent, LAMBDA a : a = "continue"))) \div Len(recent)

GenerateRecommendation(c) ==
    IF c.timeOnTask > FatigueThreshold THEN "pause"
    ELSE IF Confidence(c) < 3 THEN "escalate"
    ELSE IF StrategyEffectiveness < 4 /\ CognitiveLoad(c) > 6 THEN "switch_strategy"
    ELSE IF CognitiveLoad(c) > 7 THEN "adjust"
    ELSE "continue"

Monitor(c) == monitoring' = Append(monitoring, GenerateRecommendation(c))

\* The check of the cycle knows no errors and one complexity.
CycleContext ==
    [errors |-> 0, complexity |-> 5, rate |-> 5,
     timeOnTask |-> IF currentFocus = None THEN 0 ELSE time - currentFocus.startedAt]

InputContext == [errors |-> 0, complexity |-> 5, rate |-> 1, timeOnTask |-> 0]
InputHandled ==
    /\ inputs > 0 /\ inputs' = inputs - 1
    /\ Monitor(InputContext)
    /\ UNCHANGED <<time, currentFocus, focusQueue, resources, conflicts, requested, inverted, released,
                   effectiveness, strategies, outcomes, lastCheck>>

Outcome(record, success) ==
    [attempts |-> record.attempts + 1, successes |-> record.successes + (IF success THEN 1 ELSE 0)]

\* The strategy takes over the rate of the domain reported last.
ReportOutcome(s, d, success) ==
    /\ outcomes < MaxOutcomes /\ outcomes' = outcomes + 1
    /\ LET record == Outcome(effectiveness[s, d], success)
       IN  /\ effectiveness' = [effectiveness EXCEPT ![s, d] = record]
           /\ strategies' = [strategies EXCEPT
                 ![s] = [rate |-> (10 * record.successes) \div record.attempts, useCount |-> @.useCount + 1]]
    /\ UNCHANGED <<time, attention, monitoring, lastCheck>>

SumOver(f, S) == LET sum[T \in SUBSET S] == IF T = {} THEN 0 ELSE LET x == CHOOSE x \in T : TRUE IN f[x] + sum[T \ {x}]
                 IN  sum[S]

------------------------------------------------------------------------------
(* The cycle: attention, then now and then metacognition, then learning if there is room. *)

Cycle ==
    /\ Attend(Updated(currentFocus, focusQueue), {})
    /\ IF time - lastCheck >= 2
       THEN Monitor(CycleContext) /\ lastCheck' = time
       ELSE UNCHANGED <<monitoring, lastCheck>>
    /\ UNCHANGED <<time, conflicts, requested, inverted, inputs, effectiveness, strategies, outcomes>>

Elapse == time < MaxTime /\ time' = time + 1 /\ UNCHANGED <<attention, mind, lastCheck>>

Init ==
    /\ time = 0 /\ currentFocus = None /\ focusQueue = <<>> /\ resources = Balanced /\ conflicts = {}
    /\ requested = 0 /\ inverted = FALSE /\ released = {} /\ inputs = 0
    /\ monitoring = <<>> /\ outcomes = 0 /\ lastCheck = 0
    /\ effectiveness = [x \in Strategy \X Domain |-> [attempts |-> 0, successes |-> 0]]
    /\ strategies = [s \in Strategy |-> [rate |-> 7, useCount |-> 0]]

Next ==
    \/ \E r \in Request : Ask(r)
    \/ \E id \in 1 .. requested : ReleaseAttention(id) \/ SuppressFocus(id)
    \/ \E s \in Strategy, d \in Domain, success \in BOOLEAN : ReportOutcome(s, d, success)
    \/ InputHandled \/ Cycle \/ Elapse
Spec == Init /\ [][Next]_vars

TypeOK ==
    /\ currentFocus # None => currentFocus.id \in 1 .. requested
    /\ \A i \in DOMAIN focusQueue : focusQueue[i].id \in 1 .. requested

\* However requests, releases and expiries follow each other, no more than the configured
\* number are attended to or wait, and none twice or after its release.
\* (requestAttention, resolveConflict, releaseAttention)
AttentionIsBounded ==
    LET all == focusQueue \o (IF currentFocus = None THEN <<>> ELSE <<currentFocus>>)
    IN  /\ Len(all) <= MaxConcurrentFocus
        /\ \A i, j \in DOMAIN all : i # j => all[i].id # all[j].id
        /\ \A i \in DOMAIN all : all[i].id \notin released

\* Unless a refused request has turned it round, the queue is in the order of priorities.
QueueIsOrdered == ~inverted => focusQueue = Descending(focusQueue)

\* Nothing waits while nothing is attended to.
SomethingIsAttended == focusQueue # <<>> => currentFocus # None

\* No focus leaves the learning of the cycle its share: hasAvailableResources() is
\* never true. (autonomousCycle)
LearningIsCrowdedOut == ~HasAvailableResources

\* No error ever reaches the metacognition, so that all it says is to go on or to pause.
\* (performMetacognitiveCheck, processInput)
NothingIsEscalated == \A i \in DOMAIN monitoring : monitoring[i] \in {"continue", "pause"}

\* What the strategies count is what the domains count. (reportOutcome)
OutcomesAreCounted ==
    \A s \in Strategy :
        /\ strategies[s].useCount = SumOver([d \in Domain |-> effectiveness[s, d].attempts], Domain)
        /\ \A d \in Domain : effectiveness[s, d].successes <= effectiveness[s, d].attempts

AttentionIsKept ==
    /\ AttentionIsBounded /\ QueueIsOrdered /\ SomethingIsAttended /\ LearningIsCrowdedOut
    /\ NothingIsEscalated /\ OutcomesAreCounted
=============================================================================
