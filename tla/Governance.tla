----------------------------- MODULE Governance -----------------------------
(***************************************************************************)
(* What operators decide, against the clock: approval requests             *)
(* (src/src/approvals/ApprovalService.ts), operator sessions               *)
(* (src/src/session/SessionManager.ts), the boundaries of tenants          *)
(* (src/src/tenant/TenantIsolationGuard.ts), and "synth approve" and       *)
(* "synth deny" (src/src/cli/commands/approve.ts, deny.ts), which append a *)
(* decision to a file without a lock. The methods of the services contain  *)
(* no await, so each is one step.                                          *)
(***************************************************************************)
EXTENDS Naturals, Sequences, SequencesExt, FiniteSets

CONSTANTS
    Request, OpSession, Command, Operator, Absent, Broken,
    Tenant,            \* Tenant[o]: where operator o belongs
    Admin,             \* operators with a role named admin or super
    AutoExpire,        \* what setPolicy() may set
    MaxIdle, MaxTotal,
    MaxTime, MaxCuts, MaxPolicies  \* bounds

ASSUME GovernanceAssumption ==
    /\ AutoExpire \subseteq Nat /\ MaxIdle \in Nat /\ MaxTotal \in Nat
    /\ Absent \notin Nat \cup Operator
    /\ Absent # Broken /\ {Absent, Broken} \cap Seq({"approved", "denied"}) = {}

VARIABLES
    time, policy, policies,
    request,           \* request[r]: Absent before createRequest()
    opSession,         \* opSession[s]: Absent, or when it was created and last active
    validated,         \* history: when validateSession() last said yes
    ended,             \* history: sessions removed, with how
    boundary,          \* boundary[t]: tenantBoundaries, here the operators that brought resources
    plan,              \* status of the step in the latest plan
    approvals,         \* approvals.json
    command,           \* command[c]: what an approve or deny does next
    reported,          \* history: decisions whose command said success
    overlapping,       \* history: commands have overlapped, or one was cut short
    cuts

services == <<policy, policies, request, opSession, validated, ended, boundary>>
approvalFiles == <<plan, approvals, command, reported, overlapping, cuts>>
governanceVars == <<time, services, approvalFiles>>

Tenants == {Tenant[o] : o \in Operator}
Waiting == [at |-> "idle", decision |-> Absent, read |-> <<>>]

GovernanceInit ==
    /\ time = 0 /\ policy = Absent /\ policies = 0
    /\ request = [r \in Request |-> Absent]
    /\ opSession = [s \in OpSession |-> Absent] /\ validated = [s \in OpSession |-> Absent] /\ ended = {}
    /\ boundary = [t \in Tenants |-> {}]
    /\ plan = "awaiting_approval" /\ approvals = Absent
    /\ command = [c \in Command |-> Waiting] /\ reported = <<>>
    /\ overlapping = FALSE /\ cuts = 0

-----------------------------------------------------------------------------
SetPolicy ==
    /\ policies < MaxPolicies /\ policies' = policies + 1
    /\ policy' \in AutoExpire
    /\ UNCHANGED <<time, request, opSession, validated, ended, boundary, approvalFiles>>

\* The policy of that moment sets the expiry; without one a request does not expire.
CreateRequest(r) ==
    /\ request[r] = Absent
    /\ request' = [request EXCEPT ![r] =
            [status |-> "pending", expiresAt |-> IF policy = Absent THEN Absent ELSE time + policy,
             decidedAt |-> Absent, decidedBy |-> Absent]]
    /\ UNCHANGED <<time, policy, policies, opSession, validated, ended, boundary, approvalFiles>>

Overdue(r) == request[r].expiresAt # Absent /\ request[r].expiresAt < time

\* decide() throws for a request that is unknown, decided or overdue.
Decidable(r) == request[r] # Absent /\ request[r].status = "pending" /\ ~Overdue(r)

Decide(r) ==
    /\ Decidable(r)
    /\ \E o \in Operator, status \in {"approved", "rejected"} :
        request' = [request EXCEPT ![r].status = status, ![r].decidedAt = time, ![r].decidedBy = o]
    /\ UNCHANGED <<time, policy, policies, opSession, validated, ended, boundary, approvalFiles>>

ExpireOldRequests ==
    /\ \E r \in Request : request[r] # Absent /\ request[r].status = "pending" /\ Overdue(r)
    /\ request' = [r \in Request |->
            IF request[r] # Absent /\ request[r].status = "pending" /\ Overdue(r)
            THEN [request[r] EXCEPT !.status = "expired"] ELSE request[r]]
    /\ UNCHANGED <<time, policy, policies, opSession, validated, ended, boundary, approvalFiles>>

-----------------------------------------------------------------------------
\* Mutation: a session that is used does not expire.
ExpiredWhenIdle(s) == time - opSession[s].lastActiveAt > MaxIdle

Expired(s) == time - opSession[s].lastActiveAt > MaxIdle \/ time - opSession[s].createdAt > MaxTotal

CreateOpSession(s) ==
    /\ opSession[s] = Absent /\ s \notin {e[1] : e \in ended}
    /\ opSession' = [opSession EXCEPT ![s] = [createdAt |-> time, lastActiveAt |-> time]]
    /\ UNCHANGED <<time, policy, policies, request, validated, ended, boundary, approvalFiles>>

\* touch() does not ask whether the session has expired.
Touch(s) ==
    /\ opSession[s] # Absent
    /\ opSession' = [opSession EXCEPT ![s].lastActiveAt = time]
    /\ UNCHANGED <<time, policy, policies, request, validated, ended, boundary, approvalFiles>>

\* validateSession() reports an expired session and leaves it where it is; a valid one is active.
ValidateSession(s) ==
    /\ opSession[s] # Absent /\ ~Expired(s)
    /\ opSession' = [opSession EXCEPT ![s].lastActiveAt = time]
    /\ validated' = [validated EXCEPT ![s] = time]
    /\ UNCHANGED <<time, policy, policies, request, ended, boundary, approvalFiles>>

Terminate(s) ==
    /\ opSession[s] # Absent
    /\ opSession' = [opSession EXCEPT ![s] = Absent] /\ ended' = ended \cup {<<s, "terminated">>}
    /\ UNCHANGED <<time, policy, policies, request, validated, boundary, approvalFiles>>

CleanupExpiredSessions ==
    LET gone == {s \in OpSession : opSession[s] # Absent /\ Expired(s)}
    IN /\ gone # {}
       /\ opSession' = [s \in OpSession |-> IF s \in gone THEN Absent ELSE opSession[s]]
       /\ ended' = ended \cup {<<s, "expired">> : s \in gone}
       /\ UNCHANGED <<time, policy, policies, request, validated, boundary, approvalFiles>>

\* enforce() throws unless the operator belongs to the tenant or is an admin.
Enforce(o, t) ==
    /\ Tenant[o] = t \/ o \in Admin
    /\ boundary' = [boundary EXCEPT ![t] = @ \cup {o}]
    /\ UNCHANGED <<time, policy, policies, request, opSession, validated, ended, approvalFiles>>

-----------------------------------------------------------------------------
\* The command finds the step in the latest plan and loads the decisions; a malformed file is none.
LoadApprovals(c) ==
    /\ command[c].at = "idle" /\ plan = "awaiting_approval"
    /\ \E d \in {"approved", "denied"} :
        command' = [command EXCEPT ![c] =
            [at |-> "truncate", decision |-> d,
             read |-> IF approvals \in {Absent, Broken} THEN <<>> ELSE approvals]]
    /\ overlapping' = (overlapping \/ \E d \in Command : command[d].at \in {"truncate", "fill"})
    /\ UNCHANGED <<time, services, plan, approvals, reported, cuts>>

\* writeApproval() writes a temporary file, and then the file itself.
TruncateApprovals(c) ==
    /\ command[c].at = "truncate"
    /\ approvals' = Broken
    /\ command' = [command EXCEPT ![c].at = "fill"]
    /\ UNCHANGED <<time, services, plan, reported, overlapping, cuts>>

Filled(c) == Append(command[c].read, command[c].decision)

Fill(c) ==
    /\ command[c].at = "fill"
    /\ approvals' = Filled(c) /\ reported' = Append(reported, command[c].decision)
    /\ command' = [command EXCEPT ![c] = [Waiting EXCEPT !.at = "done"]]
    /\ UNCHANGED <<time, services, plan, overlapping, cuts>>

Cut(c) ==
    /\ command[c].at \in {"truncate", "fill"} /\ cuts < MaxCuts /\ cuts' = cuts + 1
    /\ command' = [command EXCEPT ![c] = [Waiting EXCEPT !.at = "done"]]
    /\ overlapping' = (overlapping \/ command[c].at = "fill")
    /\ UNCHANGED <<time, services, plan, approvals, reported>>

\* External: whoever executes the plan appends a new one, in which the step no longer waits.
NewPlan ==
    /\ plan = "awaiting_approval" /\ plan' = "executed"
    /\ UNCHANGED <<time, services, approvals, command, reported, overlapping, cuts>>

Time == time < MaxTime /\ time' = time + 1 /\ UNCHANGED <<services, approvalFiles>>

GovernanceNext ==
    \/ SetPolicy \/ ExpireOldRequests \/ CleanupExpiredSessions \/ NewPlan \/ Time
    \/ \E r \in Request : CreateRequest(r) \/ Decide(r)
    \/ \E s \in OpSession : CreateOpSession(s) \/ Touch(s) \/ ValidateSession(s) \/ Terminate(s)
    \/ \E o \in Operator, t \in Tenants : Enforce(o, t)
    \/ \E c \in Command : LoadApprovals(c) \/ TruncateApprovals(c) \/ Fill(c) \/ Cut(c)

GovernanceSpec == GovernanceInit /\ [][GovernanceNext]_governanceVars

-----------------------------------------------------------------------------
\* Types: what a status says about the other fields of a request, and the tenants of a boundary.
GovernanceTypes ==
    /\ \A r \in Request : request[r] # Absent =>
        (request[r].status \in {"approved", "rejected"} <=> request[r].decidedBy \in Operator)
    /\ \A t \in Tenants : \A o \in boundary[t] : Tenant[o] = t \/ o \in Admin

\* Policies change and the sweep for expired requests comes late: still a request is decided within
\* its own expiry and expires only after it, and a session is never found valid beyond its total
\* duration, however often it is touched.
DecidedInTime ==
    /\ \A r \in Request : request[r] # Absent /\ request[r].expiresAt # Absent =>
        /\ request[r].decidedAt # Absent => request[r].decidedAt <= request[r].expiresAt
        /\ request[r].status = "expired" => request[r].expiresAt < time
    /\ \A s \in OpSession : opSession[s] # Absent /\ validated[s] # Absent =>
        validated[s] <= opSession[s].createdAt + MaxTotal /\ validated[s] <= opSession[s].lastActiveAt

\* Decisions that commands have reported are in the file, in their order, unless commands have
\* overlapped or one was cut short in its last write.
DecisionsAreKept ==
    (~overlapping /\ \A c \in Command : command[c].at # "fill") =>
        IF approvals = Absent THEN reported = <<>> ELSE approvals = reported

\* Requests, sessions and decisions keep to their time and their order.
DeadlinesHold == GovernanceTypes /\ DecidedInTime /\ DecisionsAreKept
=============================================================================
