--------------------------- MODULE ErrorBoundary ---------------------------
(***************************************************************************)
(* Retries and the circuit breaker of a component (src/src/utils/          *)
(* error-boundary.ts), shared by calls of execute() that overlap: the      *)
(* heartbeat and the maintenance of the runtime. An operation succeeds or  *)
(* fails, and so does each signal that the boundary emits about it.        *)
(***************************************************************************)
EXTENDS Integers, Sequences, FiniteSets

CONSTANTS
    Caller,           \* calls of execute() under way at the same time
    Strategies,       \* lists of strategies that callers pass
    MaxAttempts,      \* maxRetries of the configuration
    Threshold,        \* circuitBreakerThreshold
    MaxBusErrors, MaxCalls   \* bounds

Strategy == {"retry", "skip", "reset", "circuit_break", "escalate"}

ASSUME BoundaryAssumption ==
    Strategies \subseteq Seq(Strategy) /\ MaxAttempts \in Nat /\ Threshold \in Nat

Closed == [failures |-> 0, open |-> FALSE, cooled |-> FALSE]
IdleCall == [at |-> "idle", strategies |-> <<>>, next |-> 1, attempt |-> 0, max |-> 0, runs |-> 0,
             succeeded |-> FALSE]

VARIABLES
    breaker,          \* circuitBreakers of the component; cooled: circuitBreakerResetMs is over
    call,             \* call[c]: where c is, and its history: runs, succeeded
    calls, busErrors

boundaryVars == <<breaker, call, calls, busErrors>>

BoundaryInit == breaker = Closed /\ call = [c \in Caller |-> IdleCall] /\ calls = 0 /\ busErrors = 0

\* How often the operation may run under a strategy.
Tries(s) == CASE s \in {"retry", "circuit_break"} -> MaxAttempts [] s = "reset" -> 1 [] OTHER -> 0

Execute(c) ==
    /\ call[c].at = "idle" /\ calls < MaxCalls /\ calls' = calls + 1
    /\ \E s \in Strategies :
        call' = [call EXCEPT ![c] = [IdleCall EXCEPT !.at = "choose", !.strategies = s]]
    /\ UNCHANGED <<breaker, busErrors>>

\* isCircuitOpen() forgets a breaker that has been open long enough.
CircuitOpen == breaker.open /\ ~breaker.cooled
AfterLook == IF breaker.open /\ breaker.cooled THEN Closed ELSE breaker

\* tryStrategy(): the next strategy of execute().
Try(c) ==
    /\ call[c].at = "choose" /\ call[c].next <= Len(call[c].strategies)
    /\ LET s == call[c].strategies[call[c].next]
           next == [call[c] EXCEPT !.next = @ + 1]
       IN \/ /\ s \notin {"escalate", "skip"}
             /\ call' = [call EXCEPT ![c] =
                            IF Tries(s) = 0 \/ (s = "circuit_break" /\ CircuitOpen) THEN next
                            ELSE [next EXCEPT !.at = "run", !.attempt = 1, !.max = Tries(s)]]
             /\ breaker' = IF s = "circuit_break" THEN AfterLook ELSE breaker
          \/ /\ s = "escalate"
             /\ call' = [call EXCEPT ![c] = [next EXCEPT !.at = "escalate"]] /\ UNCHANGED breaker
          \/ /\ s = "skip"
             /\ call' = [call EXCEPT ![c] = IdleCall] /\ UNCHANGED breaker
    /\ UNCHANGED <<calls, busErrors>>

AllFailed(c) ==
    /\ call[c].at = "choose" /\ call[c].next > Len(call[c].strategies)
    /\ call' = [call EXCEPT ![c].at = "fatal"]
    /\ UNCHANGED <<breaker, calls, busErrors>>

RecordFailure(b) ==
    [failures |-> b.failures + 1, open |-> b.open \/ b.failures + 1 >= Threshold, cooled |-> FALSE]

\* The operation returns: the breaker is forgotten, and a repeated attempt is reported.
Succeed(c) ==
    /\ call[c].at = "run"
    /\ breaker' = Closed
    /\ call' = [call EXCEPT ![c] =
                    IF call[c].attempt = 1 THEN IdleCall
                    ELSE [call[c] EXCEPT !.at = "recovered", !.runs = @ + 1, !.succeeded = TRUE]]
    /\ UNCHANGED <<calls, busErrors>>

Fail(c) ==
    /\ call[c].at = "run"
    /\ breaker' = RecordFailure(breaker)
    /\ call' = [call EXCEPT ![c].at = "report", ![c].runs = @ + 1]
    /\ UNCHANGED <<calls, busErrors>>

\* Mutation: the attempts are not counted.
NextAttemptAgain(k) == [k EXCEPT !.at = "run"]

\* After the report of a failure comes the next attempt (behind a delay) or the next strategy.
NextAttempt(k) ==
    IF k.attempt < k.max THEN [k EXCEPT !.at = "run", !.attempt = @ + 1] ELSE [k EXCEPT !.at = "choose"]

\* The signal that a call emits is appended.
Emitted(c) ==
    /\ call' = [call EXCEPT ![c] = CASE @.at = "report" -> NextAttempt(@)
                                     [] @.at = "escalate" -> [@ EXCEPT !.at = "choose"]
                                     [] OTHER -> IdleCall]
    /\ call[c].at \in {"report", "escalate", "recovered", "fatal"}
    /\ UNCHANGED <<breaker, calls, busErrors>>

\* It cannot be appended: execute() throws, but emitRecovery() is inside the try of the attempt,
\* whose success then counts as a failure.
ReportFails(c) ==
    /\ busErrors < MaxBusErrors /\ busErrors' = busErrors + 1
    /\ call[c].at \in {"report", "escalate", "recovered", "fatal"}
    /\ IF call[c].at = "recovered"
       THEN call' = [call EXCEPT ![c].at = "report"] /\ breaker' = RecordFailure(breaker)
       ELSE call' = [call EXCEPT ![c] = IdleCall] /\ UNCHANGED breaker
    /\ UNCHANGED calls

CoolDown ==
    /\ breaker.open /\ ~breaker.cooled
    /\ breaker' = [breaker EXCEPT !.cooled = TRUE]
    /\ UNCHANGED <<call, calls, busErrors>>

BoundaryNext ==
    \/ CoolDown
    \/ \E c \in Caller :
        Execute(c) \/ Try(c) \/ AllFailed(c) \/ Succeed(c) \/ Fail(c) \/ Emitted(c) \/ ReportFails(c)

BoundarySpec == BoundaryInit /\ [][BoundaryNext]_boundaryVars

-----------------------------------------------------------------------------
\* Types: a breaker is open just when it has counted enough failures without a success between.
BoundaryTypes ==
    /\ breaker.open <=> breaker.failures > 0 /\ breaker.failures >= Threshold
    /\ \A c \in Caller : call[c].attempt <= call[c].max

\* How often the operation may run under the strategies of a list from a place on.
Allowance(list, from) ==
    MaxAttempts * Cardinality({i \in from..Len(list) : list[i] \in {"retry", "circuit_break"}})
        + Cardinality({i \in from..Len(list) : list[i] = "reset"})

\* Whatever other calls do to the breaker and whatever signals get lost, a call runs its operation
\* no more often than its strategies allow, and not again after it has succeeded (while signals are
\* appended).
AttemptsAreBounded ==
    \A c \in Caller :
        /\ call[c].runs <= Allowance(call[c].strategies, 1)
        /\ (busErrors = 0 /\ call[c].at = "run") => ~call[c].succeeded

\* No operation is retried beyond its strategies.
RetriesAreBounded == BoundaryTypes /\ AttemptsAreBounded
=============================================================================
