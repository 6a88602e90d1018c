----------------------------- MODULE ExternalRead -----------------------------
(***************************************************************************)
(* What the program has for reading the web: a policy of domains, places   *)
(* and rates (policy.ts), a fetch with timeouts and retries (fetch.ts) and *)
(* an audit log of rotated files (audit.ts). Nothing in the repository     *)
(* joins the three: a caller consults the policy, fetches and logs.        *)
(* A host name is the sequence of its labels; time is a clock of ticks.    *)
(***************************************************************************)
EXTENDS Naturals, Sequences, SequencesExt, FiniteSetTheorems, TLAPS

CONSTANTS
    Url,            \* records [host, place]; place is what checkSSRF makes of the host
    Allowlists,     \* sets of patterns [type, labels]
    Maxima, Window, \* requests allowed per window of ticks
    Request, Options, MaxRetries,
    Logger, MaxSize, MaxFiles,
    Integrity, None, Torn, Garbage,
    MaxTime, MaxChecks, MaxLines, MaxCrashes, MaxForced   \* bounds

VARIABLES
    time, policy, bucket, checks,
    admitted, refused,          \* history: the checks that passed, the last one if it failed
    get, tries,                 \* a fetch, and the answers it got (history)
    files, todo, entries,       \* files[1] is the log, files[i + 1] the file ".i"
    written, rotated, cut, mixed, forced
                                \* history: entries whose call returned, entries rotated away,
                                \* crashes, whether two calls rotated at once, forced rotations

policyVars == <<time, policy, bucket, checks, admitted, refused>>
fetchVars == <<get, tries>>
auditVars == <<files, todo, entries, written, rotated, cut, mixed, forced>>
vars == <<policyVars, fetchVars, auditVars>>

Host == {u.host : u \in Url}

Bucket == [tokens : Nat, last : Nat]
Refusal == [at : Nat, wait : Nat]
Admission == [at : Nat, max : Maxima]

------------------------------------------------------------------------------
(* Policy *)

MatchesWildcard(host, p) ==
    \/ host = p.labels
    \/ p.type = "prefixed" /\ IsSuffix(p.labels, host)     \* *.example.com
    \/ p.type = "suffixed" /\ IsStrictPrefix(p.labels, host)  \* example.*

\* A regular expression stands for the hosts it matches.
MatchesPattern(host, p) ==
    CASE p.type = "exact" -> host = p.labels
      [] p.type = "regex" -> host \in p.labels
      [] OTHER -> MatchesWildcard(host, p)

CheckDomain(u) == policy.allowed = {} \/ \E p \in policy.allowed : MatchesPattern(u.host, p)

CheckSSRF(u) ==
    /\ policy.blockLocalhost => u.place # "localhost"
    /\ policy.blockLinkLocal => u.place # "link_local"
    \* 127.* is both a local host and one of the private ranges.
    /\ policy.blockPrivateIPs => u.place \notin {"private", "localhost"}

LeastOf(a, b) == IF a < b THEN a ELSE b
NewBucket == [tokens |-> policy.max, last |-> time]
Held(h) == IF bucket[h] = None THEN NewBucket ELSE bucket[h]
TokensToAdd(b) == ((time - b.last) * policy.max) \div Window
\* Mutation: what is refilled is not cut at the limit.
RefilledWithoutLimit(h) == Held(h).tokens + TokensToAdd(Held(h))

Refilled(h) == LeastOf(Held(h).tokens + TokensToAdd(Held(h)), policy.max)
RetryAfter == (Window + policy.max - 1) \div policy.max

CheckRateLimit(h) ==
    LET tokens == Refilled(h)
    IN  IF tokens < 1
        THEN /\ bucket' = [bucket EXCEPT ![h] = [tokens |-> tokens, last |-> time]]
             /\ refused' = [refused EXCEPT ![h] = [at |-> time, wait |-> RetryAfter]]
             /\ UNCHANGED admitted
        ELSE /\ bucket' = [bucket EXCEPT ![h] = [tokens |-> tokens - 1, last |-> time]]
             /\ admitted' = [admitted EXCEPT ![h] = Append(@, [at |-> time, max |-> policy.max])]
             /\ refused' = [refused EXCEPT ![h] = None]

\* The domain and the place are checked before a token is taken.
Validate(u) ==
    /\ checks < MaxChecks /\ checks' = checks + 1
    /\ IF CheckDomain(u) /\ CheckSSRF(u) THEN CheckRateLimit(u.host)
       ELSE UNCHANGED <<bucket, admitted, refused>>
    /\ UNCHANGED <<time, policy>>

ResetRateLimit(h) ==
    /\ bucket[h] # None
    /\ bucket' = [bucket EXCEPT ![h] = None]
    /\ admitted' = [admitted EXCEPT ![h] = <<>>]
    /\ refused' = [refused EXCEPT ![h] = None]
    /\ UNCHANGED <<time, policy, checks>>

UpdateConfig(changed) ==
    /\ changed # policy /\ policy' = changed
    /\ refused' = [h \in Host |-> None]
    /\ UNCHANGED <<time, bucket, checks, admitted>>

Policies ==
    [allowed : Allowlists, max : Maxima,
     blockLocalhost : {TRUE}, blockPrivateIPs : {TRUE}, blockLinkLocal : {TRUE}]

Elapse == time < MaxTime /\ time' = time + 1 /\ UNCHANGED <<policy, bucket, checks, admitted, refused>>

PolicyNext ==
    /\ \/ \E u \in Url : Validate(u)
       \/ \E h \in Host : ResetRateLimit(h)
       \/ \E p \in Policies : UpdateConfig(p)
       \/ Elapse
    /\ UNCHANGED <<fetchVars, auditVars>>

------------------------------------------------------------------------------
(* Fetch. An option says whether the timeout is valid, whether the body is  *)
(* read, and what web_read is to do with it.                                *)

Codes == {"ok", "stream", "HTTP_3", "HTTP_4", "HTTP_5", "network", "TIMEOUT",
          "SIZE_LIMIT_EXCEEDED", "RETRY_EXHAUSTED", "NO_BODY", "INVALID_TIMEOUT", "TIMEOUT_TOO_LARGE"}
Answers == {"2xx", "3xx", "4xx", "5xx", "network", "TIMEOUT"}
Heards == Answers \cup {"large", "broken"}
NotRetried == {"SIZE_LIMIT_EXCEEDED", "HTTP_4"}

\* Extraction leaves no tag, so that nothing is left to turn into markdown.
ExtractMainContent(page) == IF page = "html" THEN "text" ELSE page
HtmlToMarkdown(page) == IF page = "html" THEN "markdown" ELSE page
ProcessContent(page, o) ==
    LET main == IF o.extract THEN ExtractMainContent(page) ELSE page
    IN  IF o.markdown THEN HtmlToMarkdown(main) ELSE main

Idle == [at |-> "idle", tool |-> None, options |-> None, attempt |-> 0, result |-> None, content |-> None]
\* A call throws before its first request when the timeout makes no sense.
ValidateTimeout(timeout) ==
    IF timeout = "valid" THEN None
    ELSE IF timeout = "huge" THEN "TIMEOUT_TOO_LARGE" ELSE "INVALID_TIMEOUT"

Tools == {"http_get", "web_read", "stream_get"}
Fetch == [at : {"idle", "fetching", "reading", "sleeping", "done"}, tool : Tools \cup {None},
          options : Options \cup {None}, attempt : 0 .. MaxRetries, result : Codes \cup {None},
          content : {"", "html", "other", "text", "markdown", None}]

Start(r, tool, o) ==
    /\ get[r].at = "idle"
    /\ LET bad == ValidateTimeout(o.timeout)
       IN  get' = [get EXCEPT ![r] = [@ EXCEPT !.tool = tool, !.options = o, !.result = bad,
                                               !.at = IF bad = None THEN "fetching" ELSE "done"]]
    /\ UNCHANGED tries

Done(r, result, content) == get' = [get EXCEPT ![r].at = "done", ![r].result = result, ![r].content = content]
Heard(r, answer) == tries' = [tries EXCEPT ![r] = Append(@, answer)]

HasAttemptLeft(r) == get[r].attempt < MaxRetries

\* The catch of the loop: some errors end the call, the others are tried again after a delay.
Catch(r, code) ==
    IF code \in NotRetried THEN Done(r, code, None)
    ELSE IF HasAttemptLeft(r) THEN get' = [get EXCEPT ![r].at = "sleeping"]
    ELSE Done(r, "RETRY_EXHAUSTED", None)

Thrown(answer) ==
    CASE answer = "4xx" -> "HTTP_4" [] answer = "5xx" -> "HTTP_5" [] answer = "3xx" -> "HTTP_3" [] OTHER -> answer

\* A response without an error, of one of the two tools that read and of the one that streams.
Accept(r) ==
    IF get[r].tool = "stream_get"
    THEN \/ Done(r, "stream", None)
         \/ Done(r, "NO_BODY", None)
    ELSE IF get[r].options.raw THEN Done(r, "ok", "")
    ELSE \/ get' = [get EXCEPT ![r].at = "reading"]
         \/ Done(r, "ok", "")

Respond(r, answer) ==
    /\ get[r].at = "fetching"
    /\ Heard(r, answer)
    /\ CASE answer = "2xx" -> Accept(r)
         [] answer # "2xx" /\ get[r].tool = "stream_get" -> Done(r, Thrown(answer), None)
         \* A server error is tried again in place, the last one is thrown and caught.
         [] answer = "5xx" /\ get[r].tool # "stream_get" /\ HasAttemptLeft(r) -> get' = [get EXCEPT ![r].at = "sleeping"]
         [] OTHER -> Catch(r, Thrown(answer))

\* The timer of the request is cleared before the body is read: a body that stops
\* coming is waited for. The page arrives, is too large, or breaks off.
ReadBody(r) ==
    /\ get[r].at = "reading"
    /\ \/ /\ UNCHANGED tries
          /\ \E page \in {"html", "other"} :
                Done(r, "ok", IF get[r].tool = "web_read" THEN ProcessContent(page, get[r].options) ELSE page)
       \/ Heard(r, "large") /\ Catch(r, "SIZE_LIMIT_EXCEEDED")
       \/ Heard(r, "broken") /\ Catch(r, "network")

\* After the delay of calculateRetryDelay.
WakeUp(r) ==
    /\ get[r].at = "sleeping"
    /\ get' = [get EXCEPT ![r].at = "fetching", ![r].attempt = @ + 1]
    /\ UNCHANGED tries

FetchNext ==
    /\ \E r \in Request :
          \/ \E tool \in Tools, o \in Options : Start(r, tool, o)
          \/ \E answer \in Answers : Respond(r, answer)
          \/ ReadBody(r)
          \/ WakeUp(r)
    /\ UNCHANGED <<policyVars, auditVars>>

------------------------------------------------------------------------------
(* Audit log. todo[p] holds the calls to the file system a log() or a       *)
(* forceRotation() of p has yet to make.                                    *)

\* The hash covers everything but the timestamp, which is added after it.
Entry(id) == [id |-> id, hash |-> IF Integrity THEN id ELSE None]
VerifyLogIntegrity(e) == e.hash # None /\ e.hash = e.id

\* A line written after one that was cut off joins it, and neither can be parsed.
AppendLine(file, line) ==
    IF file = None THEN <<line>>
    ELSE IF file # <<>> /\ Last(file) = Torn THEN Append(Front(file), IF line = Torn THEN Torn ELSE Garbage)
    ELSE Append(file, line)

\* unlink(oldest), then rename each file to the next, the log last.
Rotate == <<<<"unlink">>>> \o [i \in 1 .. MaxFiles |-> <<"rename", MaxFiles + 1 - i>>]

Log(p) ==
    /\ todo[p] = <<>> /\ entries < MaxLines
    /\ entries' = entries + 1
    /\ todo' = [todo EXCEPT ![p] = <<<<"stat">>, <<"append", Entry(entries + 1)>>>>]
    /\ UNCHANGED <<files, written, rotated, cut, mixed, forced>>

Rotating(p) == \E i \in DOMAIN todo[p] : todo[p][i][1] = "rename"

ForceRotation(p) ==
    /\ todo[p] = <<>> /\ forced < MaxForced /\ forced' = forced + 1
    /\ todo' = [todo EXCEPT ![p] = Rotate]
    /\ mixed' = (mixed \/ \E q \in Logger : Rotating(q))
    /\ UNCHANGED <<files, entries, written, rotated, cut>>

\* checkRotation: a log that is missing is small.
CheckRotation(p) ==
    LET full == files[1] # None /\ Len(files[1]) >= MaxSize
    IN  /\ todo' = [todo EXCEPT ![p] = (IF full THEN Rotate ELSE <<>>) \o Tail(@)]
        /\ mixed' = (mixed \/ (full /\ \E q \in Logger \ {p} : Rotating(q)))
        /\ UNCHANGED <<files, written, rotated>>

Unlink(p) ==
    /\ files' = [files EXCEPT ![MaxFiles + 1] = None]
    /\ rotated' = rotated \cup (IF files[MaxFiles + 1] = None THEN {} ELSE ToSet(files[MaxFiles + 1]))
    /\ todo' = [todo EXCEPT ![p] = Tail(@)]
    /\ UNCHANGED <<written, mixed>>

\* A file that does not exist is not an error, one that exists is overwritten.
Rename(p, i) ==
    /\ files' = IF files[i] = None THEN files ELSE [files EXCEPT ![i] = None, ![i + 1] = files[i]]
    /\ todo' = [todo EXCEPT ![p] = Tail(@)]
    /\ UNCHANGED <<written, rotated, mixed>>

AppendFile(p, e) ==
    /\ files' = [files EXCEPT ![1] = AppendLine(@, e)]
    /\ written' = Append(written, e)
    /\ todo' = [todo EXCEPT ![p] = Tail(@)]
    /\ UNCHANGED <<rotated, mixed>>

Perform(p) ==
    /\ todo[p] # <<>>
    /\ LET io == todo[p][1]
       IN  CASE io[1] = "stat" -> CheckRotation(p)
             [] io[1] = "unlink" -> Unlink(p)
             [] io[1] = "rename" -> Rename(p, io[2])
             [] io[1] = "append" -> AppendFile(p, io[2])
    /\ UNCHANGED <<entries, cut, forced>>

\* The process dies between two calls or in the middle of a line.
Crash ==
    /\ cut < MaxCrashes /\ cut' = cut + 1
    /\ \E p \in Logger : todo[p] # <<>>
    /\ todo' = [p \in Logger |-> <<>>]
    /\ \/ UNCHANGED files
       \/ /\ \E p \in Logger : todo[p] # <<>> /\ todo[p][1][1] = "append"
          /\ files' = [files EXCEPT ![1] = AppendLine(@, Torn)]
    /\ UNCHANGED <<entries, written, rotated, mixed, forced>>

AuditNext ==
    /\ (\E p \in Logger : Log(p) \/ ForceRotation(p) \/ Perform(p)) \/ Crash
    /\ UNCHANGED <<policyVars, fetchVars>>

\* parseLogFile over the files from the oldest to the log.
Parsed(file) == IF file = None THEN <<>> ELSE SelectSeq(file, LAMBDA e : e \notin {Torn, Garbage})
ParsedLogs == FlattenSeq([i \in 1 .. MaxFiles + 1 |-> Parsed(files[MaxFiles + 2 - i])])

\* A window of at least a tick (one minute), at least one request in it, and no
\* record that is taken for a missing one.
ASSUME ExternalReadAssumption ==
    /\ Window \in Nat \ {0} /\ Maxima \subseteq Nat \ {0} /\ MaxRetries \in Nat
    /\ None \notin Bucket \cup Refusal \cup Codes

\* Of checks that passed: no more than a limit that held for all of them, and its refill.
InRate(passed) ==
    \A i, j \in DOMAIN passed : \A most \in Maxima :
        i <= j /\ (\A k \in i .. j : passed[k].max <= most) =>
            j - i + 1 <= most + ((passed[j].at - passed[i].at) * most) \div Window

\* The answers to requests, among all that a fetch got.
Asked(heard) == Cardinality({i \in DOMAIN heard : heard[i] \in Answers})

------------------------------------------------------------------------------
Init ==
    /\ time = 0 /\ checks = 0
    /\ policy \in Policies
    /\ bucket = [h \in Host |-> None]
    /\ admitted = [h \in Host |-> <<>>]
    /\ refused = [h \in Host |-> None]
    /\ get = [r \in Request |-> Idle]
    /\ tries = [r \in Request |-> <<>>]
    /\ files = [i \in 1 .. MaxFiles + 1 |-> None]
    /\ todo = [p \in Logger |-> <<>>]
    /\ entries = 0 /\ written = <<>> /\ rotated = {} /\ cut = 0 /\ mixed = FALSE /\ forced = 0

Next == PolicyNext \/ FetchNext \/ AuditNext
Spec == Init /\ [][Next]_vars

\* The policy and what is remembered of every host, with no bucket above every limit, and
\* what is known of a fetch.
PolicyTypes ==
    /\ time \in Nat /\ policy \in Policies
    /\ bucket \in [Host -> Bucket \cup {None}]
    /\ \A h \in Host : bucket[h] # None =>
          bucket[h].last <= time /\ \E m \in Maxima : bucket[h].tokens <= m
    /\ admitted \in [Host -> Seq(Admission)]
    /\ refused \in [Host -> Refusal \cup {None}]

FetchTypes ==
    /\ get \in [Request -> Fetch]
    /\ tries \in [Request -> Seq(Heards)]

TypeOK == PolicyTypes /\ FetchTypes

\* Whatever the order of checks, refills, resets and changes of the limit, the checks that
\* passed between two moments are at most a limit that held for all of them and what
\* that time refills under it. (PolicyEngine.checkRateLimit)
RateHolds == \A h \in Host : InRate(admitted[h])

\* A caller that waits as long as it was told, and nobody else asks, is let through.
\* (retryAfter of checkRateLimit)
RetryAfterIsEnough ==
    \A h \in Host :
        refused[h] # None /\ time >= refused[h].at + refused[h].wait => Refilled(h) >= 1

\* An answer that no retry can change ends the call, the others are tried again as
\* often as configured, and content comes with the last answer only. (http_get)
RetriesAreJustified ==
    \A r \in Request :
        /\ Asked(tries[r]) <= MaxRetries + 1
        /\ \A i \in 1 .. Len(tries[r]) - 1 : tries[r][i] \notin {"4xx", "large"}
        /\ get[r].at = "done" => get[r].result # None
        /\ get[r].result = "RETRY_EXHAUSTED" => get[r].attempt = MaxRetries
        /\ get[r].content # None => Last(tries[r]) = "2xx"

\* A caller keeps within the rate it was given, one that was refused gets through when it
\* was told, and a fetch is tried as often as it may be and needs to be.
ReadsAreLimited == RateHolds /\ RetryAfterIsEnough /\ RetriesAreJustified

\* As long as no two calls rotate at once, the logs hold the entries in the order they were
\* written, and what is gone is older than the files that are kept, but for one line for
\* every crash. (AuditLogger.log, rotate)
AuditIsKept ==
    ~mixed =>
        LET logs == ParsedLogs
            gone == ToSet(written) \ (ToSet(logs) \cup rotated)
        IN  /\ \A i, j \in DOMAIN logs : i < j =>
                  \A k, l \in DOMAIN written : (written[k] = logs[i] /\ written[l] = logs[j]) => k < l
            /\ Cardinality(gone) <= cut
            /\ \A k \in DOMAIN written : written[k] \in rotated /\ forced = 0 =>
                  Len(written) - k >= (MaxFiles - cut) * MaxSize - cut
            /\ Integrity => \A i \in DOMAIN logs : VerifyLogIntegrity(logs[i])

------------------------------------------------------------------------------
(* Arithmetic of the bucket *)

\* Whole divisions, of what is more and of sums.
LEMMA DivisionIsMonotone ==
    ASSUME NEW x \in Nat, NEW y \in Nat, NEW w \in Nat \ {0}, x <= y
    PROVE  x \div w \in Nat /\ x \div w <= y \div w
  OBVIOUS

LEMMA DivisionOfSum ==
    ASSUME NEW x \in Nat, NEW y \in Nat, NEW w \in Nat \ {0}
    PROVE  (x \div w) + (y \div w) <= (x + y) \div w
<1> DEFINE p == x \div w  q == y \div w  z == (x + y) \div w
<1>1. p \in Nat /\ q \in Nat /\ z \in Nat OBVIOUS
<1>2. p * w <= x /\ q * w <= y OBVIOUS
<1>3. (p + q) * w = p * w + q * w BY <1>1
<1>4. x + y < (z + 1) * w OBVIOUS
<1> HIDE DEF p, q, z
<1>5. (p + q) * w < (z + 1) * w BY <1>1, <1>2, <1>3, <1>4
<1>6. p + q < z + 1 BY <1>1, <1>5
<1> QED BY <1>1, <1>6 DEF p, q, z

\* What is refilled piece by piece under lower limits is no more than what is refilled at once.
LEMMA RefillAddsUp ==
    ASSUME NEW a \in Nat, NEW d \in Nat, NEW m \in Nat, NEW most \in Nat, m <= most
    PROVE  /\ ((a * most) \div Window) + ((d * m) \div Window) <= ((a + d) * most) \div Window
           /\ (a * most) \div Window <= ((a + d) * most) \div Window
           /\ (a * most) \div Window \in Nat /\ (d * m) \div Window \in Nat
           /\ ((a + d) * most) \div Window \in Nat
<1> DEFINE x == a * most  y == d * m  z == d * most
<1>1. x \in Nat /\ y \in Nat /\ z \in Nat OBVIOUS
<1>2. y <= z OBVIOUS
<1>3. (a + d) * most = x + z OBVIOUS
<1> HIDE DEF x, y, z
<1>4. x + y \in Nat /\ x + z \in Nat /\ x + y <= x + z /\ x <= x + z BY <1>1, <1>2
<1>5. (x \div Window) + (y \div Window) <= (x + y) \div Window
  BY <1>1, DivisionOfSum, ExternalReadAssumption
<1>6. (x + y) \div Window <= (x + z) \div Window
  BY <1>4, DivisionIsMonotone, ExternalReadAssumption
<1>7. x \div Window <= (x + z) \div Window
  BY <1>1, <1>4, DivisionIsMonotone, ExternalReadAssumption
<1>8. /\ x \div Window \in Nat /\ y \div Window \in Nat
      /\ (x + y) \div Window \in Nat /\ (x + z) \div Window \in Nat
  BY <1>1, <1>4, DivisionIsMonotone, ExternalReadAssumption
<1>9. (x \div Window) + (y \div Window) <= (x + z) \div Window BY <1>5, <1>6, <1>8
<1> QED BY <1>3, <1>7, <1>8, <1>9 DEF x, y

\* The time a refused caller is told to wait refills a token.
LEMMA WaitRefills ==
    ASSUME NEW m \in Nat \ {0}, NEW d \in Nat, d >= (Window + m - 1) \div m
    PROVE  (d * m) \div Window >= 1
<1> DEFINE q == (Window + m - 1) \div m
<1>1. q \in Nat /\ Window + m - 1 < (q + 1) * m BY ExternalReadAssumption
<1>2. (q + 1) * m = q * m + m BY <1>1
<1> HIDE DEF q
<1>3. Window <= q * m BY <1>1, <1>2, ExternalReadAssumption
<1>4. d >= q BY DEF q
<1>5. q * m <= d * m BY <1>1, <1>4
<1>6. Window <= d * m BY <1>1, <1>3, <1>5, ExternalReadAssumption
<1> DEFINE x == d * m
<1>7. x \in Nat OBVIOUS
<1>8. Window <= x BY <1>6
<1> HIDE DEF x
<1>9. Window \div Window = 1 BY ExternalReadAssumption
<1>10. Window \div Window <= x \div Window BY <1>7, <1>8, DivisionIsMonotone, ExternalReadAssumption
<1>11. x \div Window \in Nat BY <1>7, DivisionIsMonotone, ExternalReadAssumption
<1> QED BY <1>9, <1>10, <1>11 DEF x

------------------------------------------------------------------------------
(* A bucket and the checks that passed *)

\* From each check on: what passed and what is still held is no more than a limit that held
\* for all of it and what was refilled since.
Owed(passed, b) ==
    \A i \in DOMAIN passed :
        /\ passed[i].at <= b.last
        /\ \A most \in Maxima :
              (\A k \in i .. Len(passed) : passed[k].max <= most) =>
                  Len(passed) - i + 1 + b.tokens <= most + ((b.last - passed[i].at) * most) \div Window

\* Entries are admissions, with times that are numbers.
LEMMA AdmissionTypes ==
    ASSUME NEW passed \in Seq(Admission)
    PROVE  \A i \in DOMAIN passed :
              /\ i \in 1 .. Len(passed) /\ passed[i] \in Admission
              /\ passed[i].at \in Nat /\ passed[i].max \in Maxima
<1>1. \A i \in DOMAIN passed : i \in 1 .. Len(passed) OBVIOUS
<1>2. \A i \in 1 .. Len(passed) : passed[i] \in Admission OBVIOUS
<1>3. \A e \in Admission : e.at \in Nat /\ e.max \in Maxima BY DEF Admission
<1> QED BY <1>1, <1>2, <1>3

\* A refused check takes nothing and leaves no token.
LEMMA OwedWhenRefused ==
    ASSUME NEW passed \in Seq(Admission), NEW b \in Bucket, NEW now \in Nat, b.last <= now,
           Owed(passed, b)
    PROVE  Owed(passed, [tokens |-> 0, last |-> now])
<1> DEFINE c == [tokens |-> 0, last |-> now]  n == Len(passed)
<1> HIDE DEF n
<1> SUFFICES ASSUME NEW i \in DOMAIN passed
             PROVE  /\ passed[i].at <= c.last
                    /\ \A most \in Maxima :
                          (\A k \in i .. n : passed[k].max <= most) =>
                              n - i + 1 + c.tokens
                                  <= most + ((c.last - passed[i].at) * most) \div Window
  BY DEF Owed, n
<1>1. /\ passed[i] \in Admission /\ passed[i].at \in Nat /\ passed[i].at <= b.last
      /\ b.last \in Nat /\ b.tokens \in Nat /\ c.last = now /\ c.tokens = 0
      /\ n \in Nat /\ i \in Nat
  <2>1. passed[i] \in Admission /\ passed[i].at \in Nat /\ i \in 1 .. n BY AdmissionTypes DEF n
  <2>2. passed[i].at <= b.last BY DEF Owed
  <2>3. b.last \in Nat /\ b.tokens \in Nat BY DEF Bucket
  <2>4. n \in Nat BY DEF n
  <2> QED BY <2>1, <2>2, <2>3, <2>4
<1>2. passed[i].at <= c.last BY <1>1
<1>3. ASSUME NEW most \in Maxima, \A k \in i .. n : passed[k].max <= most
      PROVE  n - i + 1 + c.tokens <= most + ((c.last - passed[i].at) * most) \div Window
  <2> DEFINE a == b.last - passed[i].at  d == now - b.last
             x == (a * most) \div Window  y == ((a + d) * most) \div Window
  <2>1. a \in Nat /\ d \in Nat /\ a + d = now - passed[i].at BY <1>1
  <2>2. most \in Nat BY ExternalReadAssumption
  <2>3. n - i + 1 + b.tokens <= most + x
    BY <1>3 DEF Owed, n
  <2>4. x <= y /\ x \in Nat /\ y \in Nat
    <3>1. most <= most BY <2>2
    <3> HIDE DEF a, d
    <3> QED BY <2>1, <2>2, <3>1, RefillAddsUp
  <2>5. y = ((c.last - passed[i].at) * most) \div Window BY <1>1, <2>1
  <2> HIDE DEF a, d, x, y, c
  <2> QED BY <1>1, <2>2, <2>3, <2>4, <2>5
<1> QED BY <1>2, <1>3

\* A check that passes takes one of at most m tokens that it finds.
LEMMA OwedWhenAdmitted ==
    ASSUME NEW passed \in Seq(Admission), NEW b \in Bucket, NEW now \in Nat, b.last <= now,
           Owed(passed, b), NEW m \in Maxima, NEW left \in Nat, left + 1 <= m,
           left + 1 <= b.tokens + ((now - b.last) * m) \div Window
    PROVE  Owed(Append(passed, [at |-> now, max |-> m]), [tokens |-> left, last |-> now])
<1> DEFINE c == [tokens |-> left, last |-> now]
           e == [at |-> now, max |-> m]
           more == Append(passed, e)
           n == Len(passed)
<1>1. /\ e \in Admission /\ n \in Nat /\ Len(more) = n + 1 /\ DOMAIN more = 1 .. n + 1
      /\ DOMAIN passed = 1 .. n
      /\ \A k \in 1 .. n : more[k] = passed[k]
      /\ more[n + 1] = e /\ e.at = now /\ e.max = m
      /\ c.last = now /\ c.tokens = left /\ b.last \in Nat /\ b.tokens \in Nat /\ m \in Nat
  BY ExternalReadAssumption DEF Admission, Bucket
<1> HIDE DEF c, e, more, n
<1> SUFFICES ASSUME NEW i \in DOMAIN more
             PROVE  /\ more[i].at <= c.last
                    /\ \A most \in Maxima :
                          (\A k \in i .. Len(more) : more[k].max <= most) =>
                              Len(more) - i + 1 + c.tokens
                                  <= most + ((c.last - more[i].at) * most) \div Window
  BY DEF Owed, c, e, more, n
<1>2. CASE i = n + 1
  <2>1. more[i].at = now /\ more[i].max = m BY <1>1, <1>2
  <2>2. ASSUME NEW most \in Maxima, \A k \in i .. Len(more) : more[k].max <= most
        PROVE  Len(more) - i + 1 + c.tokens <= most + ((c.last - more[i].at) * most) \div Window
    <3>1. m <= most BY <1>1, <1>2, <2>1, <2>2
    <3>2. most \in Nat BY ExternalReadAssumption
    <3>3. ((c.last - more[i].at) * most) \div Window = 0
      BY <1>1, <2>1, <3>2, ExternalReadAssumption
    <3> QED BY <1>1, <1>2, <3>1, <3>2, <3>3
  <2> QED BY <1>1, <2>1, <2>2
<1>3. CASE i # n + 1
  <2>1. /\ i \in 1 .. n /\ i \in DOMAIN passed /\ more[i] = passed[i] BY <1>1, <1>3
  <2>2. passed[i].at \in Nat BY <2>1, AdmissionTypes
  <2>3. passed[i].at <= b.last BY <2>1 DEF Owed
  <2>4. ASSUME NEW most \in Maxima, \A k \in i .. Len(more) : more[k].max <= most
        PROVE  Len(more) - i + 1 + c.tokens <= most + ((c.last - more[i].at) * most) \div Window
    <3> DEFINE a == b.last - passed[i].at  d == now - b.last
               x == (a * most) \div Window  y == ((a + d) * most) \div Window
               z == (d * m) \div Window
    <3>1. a \in Nat /\ d \in Nat /\ a + d = now - passed[i].at BY <1>1, <2>2, <2>3
    <3>2. most \in Nat BY ExternalReadAssumption
    <3>3. m <= most
      <4>1. n + 1 \in i .. Len(more) BY <1>1, <2>1
      <4> QED BY <1>1, <2>4, <4>1
    <3>4. \A k \in i .. n : passed[k].max <= most
      <4> TAKE k \in i .. n
      <4>1. k \in i .. Len(more) /\ k \in 1 .. n BY <1>1, <2>1
      <4> QED BY <1>1, <2>4, <4>1
    <3>5. n - i + 1 + b.tokens <= most + x BY <2>1, <3>4 DEF Owed, n
    <3>6. x + z <= y /\ x \in Nat /\ y \in Nat /\ z \in Nat BY <1>1, <3>1, <3>2, <3>3, RefillAddsUp
    <3>7. y = ((c.last - more[i].at) * most) \div Window BY <1>1, <2>1, <3>1
    <3>8. left + 1 <= b.tokens + z OBVIOUS
    <3> HIDE DEF a, d, x, y, z
    <3> QED BY <1>1, <2>1, <3>2, <3>5, <3>6, <3>7, <3>8
  <2> QED BY <1>1, <2>1, <2>3, <2>2, <2>4
<1> QED BY <1>2, <1>3

\* The rate holds up to a check when it held before and nothing is owed after it.
LEMMA RateWhenAdmitted ==
    ASSUME NEW passed \in Seq(Admission), NEW e \in Admission, NEW left \in Nat, InRate(passed),
           Owed(Append(passed, e), [tokens |-> left, last |-> e.at])
    PROVE  InRate(Append(passed, e))
<1> DEFINE more == Append(passed, e)  n == Len(passed)
<1>1. /\ n \in Nat /\ Len(more) = n + 1 /\ DOMAIN more = 1 .. n + 1 /\ DOMAIN passed = 1 .. n
      /\ \A k \in 1 .. n : more[k] = passed[k]
      /\ more[n + 1] = e /\ e.at \in Nat
  BY DEF Admission
<1>4. \A k \in 1 .. n + 1 : more[k].at \in Nat
  <2>1. more \in Seq(Admission) OBVIOUS
  <2> QED BY <1>1, <2>1, AdmissionTypes
<1> HIDE DEF more, n
<1> SUFFICES ASSUME NEW i \in DOMAIN more, NEW j \in DOMAIN more, NEW most \in Maxima,
                    i <= j, \A k \in i .. j : more[k].max <= most
             PROVE  j - i + 1 <= most + ((more[j].at - more[i].at) * most) \div Window
  BY DEF InRate, more
<1>2. CASE j = n + 1
  <2> DEFINE x == ((e.at - more[i].at) * most) \div Window
  <2>1. Len(more) - i + 1 + left <= most + x BY <1>1, <1>2 DEF Owed, more
  <2>2. x \in Nat
    <3>1. more[i].at <= e.at BY DEF Owed, more
    <3>2. e.at - more[i].at \in Nat /\ most \in Nat BY <1>1, <1>4, <3>1, ExternalReadAssumption
    <3>3. (e.at - more[i].at) * most \in Nat BY <3>2
    <3> QED BY <3>3, DivisionIsMonotone, ExternalReadAssumption
  <2>3. x = ((more[j].at - more[i].at) * most) \div Window BY <1>1, <1>2
  <2>4. most \in Nat BY ExternalReadAssumption
  <2> HIDE DEF x
  <2> QED BY <1>1, <1>2, <2>1, <2>2, <2>3, <2>4
<1>3. CASE j # n + 1
  <2>1. i \in DOMAIN passed /\ j \in DOMAIN passed /\ more[i] = passed[i] /\ more[j] = passed[j]
    BY <1>1, <1>3
  <2>2. \A k \in i .. j : passed[k].max <= most
    <3> TAKE k \in i .. j
    <3>1. k \in 1 .. n BY <1>1, <2>1
    <3> QED BY <1>1, <3>1
  <2> QED BY <2>1, <2>2 DEF InRate
<1> QED BY <1>2, <1>3

------------------------------------------------------------------------------
(* The rate *)

\* The inductive invariant: what a bucket holds is not owed twice, and a refused caller
\* finds its bucket as it was left.
RateInv ==
    /\ PolicyTypes
    /\ \A h \in Host :
          /\ bucket[h] = None => admitted[h] = <<>>
          /\ bucket[h] # None => Owed(admitted[h], bucket[h])
          /\ refused[h] # None => /\ bucket[h] = [tokens |-> 0, last |-> refused[h].at]
                                  /\ refused[h].wait = RetryAfter
    /\ RateHolds

LEMMA PolicyMaxType == ASSUME policy \in Policies PROVE policy.max \in Maxima /\ policy.max \in Nat \ {0}
  BY ExternalReadAssumption DEF Policies

\* The bucket that a check finds, a new one for the first, and what it makes of it.
LEMMA HeldIsOwed ==
    ASSUME RateInv, NEW h \in Host
    PROVE  /\ Held(h) \in Bucket /\ Held(h).last <= time
           /\ Owed(admitted[h], Held(h))
           /\ TokensToAdd(Held(h)) \in Nat
           /\ Refilled(h) \in Nat /\ Refilled(h) <= policy.max
           /\ Refilled(h) <= Held(h).tokens + TokensToAdd(Held(h))
<1>1. policy.max \in Nat \ {0} /\ time \in Nat BY PolicyMaxType DEF RateInv, PolicyTypes
<1>2. Held(h) \in Bucket /\ Held(h).last <= time /\ Owed(admitted[h], Held(h))
  <2>1. CASE bucket[h] = None
    <3>1. Held(h) = [tokens |-> policy.max, last |-> time] BY <2>1 DEF Held, NewBucket
    <3>2. admitted[h] = <<>> BY <2>1 DEF RateInv
    <3>3. Owed(admitted[h], Held(h)) BY <3>2 DEF Owed
    <3> QED BY <1>1, <3>1, <3>3 DEF Bucket
  <2>2. CASE bucket[h] # None
    <3>1. Held(h) = bucket[h] BY <2>2 DEF Held
    <3> QED BY <2>2, <3>1 DEF RateInv, PolicyTypes
  <2> QED BY <2>1, <2>2
<1>3. TokensToAdd(Held(h)) \in Nat
  <2> DEFINE d == time - Held(h).last
  <2>1. d \in Nat BY <1>1, <1>2 DEF Bucket
  <2> HIDE DEF d
  <2>2. d * policy.max \in Nat BY <1>1, <2>1
  <2>3. (d * policy.max) \div Window \in Nat BY <2>2, DivisionIsMonotone, ExternalReadAssumption
  <2> QED BY <2>3 DEF TokensToAdd, d
<1>4. Held(h).tokens \in Nat BY <1>2 DEF Bucket
<1> QED BY <1>1, <1>2, <1>3, <1>4 DEF Refilled, LeastOf

\* A check changes the bucket and the record of one host; the rest stays.
LEMMA CheckKeepsRate ==
    ASSUME RateInv, NEW h \in Host, CheckRateLimit(h), UNCHANGED <<time, policy>>
    PROVE  RateInv'
<1> DEFINE b == Held(h)  k == Refilled(h)  m == policy.max
<1>1. /\ b \in Bucket /\ b.last <= time /\ Owed(admitted[h], b)
      /\ k \in Nat /\ k <= m /\ k <= b.tokens + ((time - b.last) * m) \div Window
  BY HeldIsOwed DEF TokensToAdd
<1>2. m \in Maxima /\ m \in Nat \ {0} /\ time \in Nat
  BY PolicyMaxType DEF RateInv, PolicyTypes
<1>3. time' = time /\ policy' = policy OBVIOUS
<1>4. /\ bucket \in [Host -> Bucket \cup {None}] /\ refused \in [Host -> Refusal \cup {None}]
      /\ admitted \in [Host -> Seq(Admission)] /\ admitted[h] \in Seq(Admission)
  BY DEF RateInv, PolicyTypes
<1>5. RetryAfter' = RetryAfter BY <1>3 DEF RetryAfter
<1>6. RetryAfter \in Nat BY <1>2, ExternalReadAssumption DEF RetryAfter
<1>7. CASE k < 1
  <2> DEFINE c == [tokens |-> k, last |-> time]  f == [at |-> time, wait |-> RetryAfter]
  <2>1. k = 0 /\ c \in Bucket /\ c # None /\ f \in Refusal
    BY <1>1, <1>2, <1>6, <1>7, ExternalReadAssumption DEF Bucket, Refusal
  <2>2. /\ bucket' = [bucket EXCEPT ![h] = c] /\ refused' = [refused EXCEPT ![h] = f]
        /\ admitted' = admitted
    BY <1>7 DEF CheckRateLimit
  <2>3. Owed(admitted[h], c) BY <1>1, <1>2, <1>4, <2>1, OwedWhenRefused
  <2> HIDE DEF b, k, m, c, f
  <2>4. PolicyTypes'
    <3>1. bucket' \in [Host -> Bucket \cup {None}] /\ refused' \in [Host -> Refusal \cup {None}]
      BY <1>4, <2>1, <2>2
    <3>2. ASSUME NEW x \in Host, bucket'[x] # None
          PROVE  bucket'[x].last <= time /\ \E y \in Maxima : bucket'[x].tokens <= y
      <4>1. CASE x = h
        <5>1. bucket'[x] = c BY <1>4, <2>2, <4>1
        <5>2. c.last = time /\ c.tokens = 0 BY <2>1 DEF c
        <5> QED BY <1>2, <5>1, <5>2
      <4>2. CASE x # h
        <5>1. bucket'[x] = bucket[x] BY <1>4, <2>2, <4>2
        <5> QED BY <3>2, <5>1 DEF RateInv, PolicyTypes
      <4> QED BY <4>1, <4>2
    <3> QED BY <1>3, <1>4, <2>2, <3>1, <3>2 DEF RateInv, PolicyTypes, Policies
  <2>5. ASSUME NEW x \in Host
        PROVE  /\ bucket'[x] = None => admitted'[x] = <<>>
               /\ bucket'[x] # None => Owed(admitted'[x], bucket'[x])
               /\ refused'[x] # None => /\ bucket'[x] = [tokens |-> 0, last |-> refused'[x].at]
                                        /\ refused'[x].wait = RetryAfter
    <3>1. CASE x = h
      <4>1. bucket'[x] = c /\ refused'[x] = f /\ admitted'[x] = admitted[h] BY <1>4, <2>2, <3>1
      <4>2. c = [tokens |-> 0, last |-> f.at] /\ f.wait = RetryAfter BY <2>1 DEF c, f
      <4> QED BY <2>1, <2>3, <4>1, <4>2
    <3>2. CASE x # h
      <4>1. bucket'[x] = bucket[x] /\ refused'[x] = refused[x] /\ admitted'[x] = admitted[x]
        BY <1>4, <2>2, <3>2
      <4> QED BY <4>1 DEF RateInv
    <3> QED BY <3>1, <3>2
  <2>6. RateHolds' BY <2>2 DEF RateInv, RateHolds
  <2> QED BY <1>5, <2>4, <2>5, <2>6 DEF RateInv
<1>8. CASE ~ (k < 1)
  <2> DEFINE c == [tokens |-> k - 1, last |-> time]  e == [at |-> time, max |-> m]
             more == Append(admitted[h], e)
  <2>1. k - 1 \in Nat /\ k - 1 + 1 = k /\ c \in Bucket /\ c # None /\ e \in Admission
    BY <1>1, <1>2, <1>8, ExternalReadAssumption DEF Bucket, Admission
  <2>2. /\ bucket' = [bucket EXCEPT ![h] = c] /\ refused' = [refused EXCEPT ![h] = None]
        /\ admitted' = [admitted EXCEPT ![h] = more]
    BY <1>8 DEF CheckRateLimit
  <2>3. Owed(more, c)
    <3> HIDE DEF b, k, m
    <3> DEFINE left == k - 1
    <3>1. /\ left \in Nat /\ left + 1 <= m
          /\ left + 1 <= b.tokens + ((time - b.last) * m) \div Window
      BY <1>1, <2>1
    <3> HIDE DEF left
    <3>2. Owed(Append(admitted[h], [at |-> time, max |-> m]), [tokens |-> left, last |-> time])
      BY <1>1, <1>2, <1>4, <3>1, OwedWhenAdmitted
    <3> QED BY <3>2 DEF left
  <2>4. InRate(admitted[h]) BY DEF RateInv, RateHolds
  <2>5. InRate(more)
    <3> DEFINE left == k - 1
    <3>1. left \in Nat BY <2>1
    <3>2. c = [tokens |-> left, last |-> e.at] OBVIOUS
    <3> HIDE DEF left, e, c, k
    <3>3. Owed(Append(admitted[h], e), [tokens |-> left, last |-> e.at]) BY <2>3, <3>2
    <3> QED BY <1>4, <2>1, <2>4, <3>1, <3>3, RateWhenAdmitted
  <2>6. more \in Seq(Admission) BY <1>4, <2>1
  <2>7. c.last = time /\ c.tokens <= m BY <1>1, <1>2, <2>1
  <2> HIDE DEF b, k, c, e, more
  <2>8. PolicyTypes'
    <3>1. /\ bucket' \in [Host -> Bucket \cup {None}] /\ refused' \in [Host -> Refusal \cup {None}]
          /\ admitted' \in [Host -> Seq(Admission)]
      BY <1>4, <2>1, <2>2, <2>6
    <3>2. ASSUME NEW x \in Host, bucket'[x] # None
          PROVE  bucket'[x].last <= time /\ \E y \in Maxima : bucket'[x].tokens <= y
      <4>1. CASE x = h
        <5>1. bucket'[x] = c BY <1>4, <2>2, <4>1
        <5> QED BY <1>2, <2>7, <5>1
      <4>2. CASE x # h
        <5>1. bucket'[x] = bucket[x] BY <1>4, <2>2, <4>2
        <5> QED BY <3>2, <5>1 DEF RateInv, PolicyTypes
      <4> QED BY <4>1, <4>2
    <3> QED BY <1>3, <3>1, <3>2 DEF RateInv, PolicyTypes, Policies
  <2>9. ASSUME NEW x \in Host
        PROVE  /\ bucket'[x] = None => admitted'[x] = <<>>
               /\ bucket'[x] # None => Owed(admitted'[x], bucket'[x])
               /\ refused'[x] # None => /\ bucket'[x] = [tokens |-> 0, last |-> refused'[x].at]
                                        /\ refused'[x].wait = RetryAfter
               /\ InRate(admitted'[x])
    <3>1. CASE x = h
      <4>1. bucket'[x] = c /\ refused'[x] = None /\ admitted'[x] = more BY <1>4, <2>2, <3>1
      <4> QED BY <2>1, <2>3, <2>5, <4>1
    <3>2. CASE x # h
      <4>1. bucket'[x] = bucket[x] /\ refused'[x] = refused[x] /\ admitted'[x] = admitted[x]
        BY <1>4, <2>2, <3>2
      <4> QED BY <4>1 DEF RateInv, RateHolds
    <3> QED BY <3>1, <3>2
  <2> QED BY <1>5, <2>8, <2>9 DEF RateInv, RateHolds
<1> QED BY <1>7, <1>8

\* The checks, the reset, the new policies and the time.
LEMMA PolicyKeepsRate ==
    ASSUME RateInv, PolicyNext \/ UNCHANGED policyVars
    PROVE  RateInv'
<1> USE DEF RateInv
<1>1. ASSUME NEW u \in Url, Validate(u) PROVE RateInv'
  <2>1. u.host \in Host BY DEF Host
  <2>2. CASE CheckDomain(u) /\ CheckSSRF(u)
    BY <1>1, <2>1, <2>2, CheckKeepsRate DEF Validate
  <2>3. CASE ~ (CheckDomain(u) /\ CheckSSRF(u))
    BY <1>1, <2>3 DEF Validate, PolicyTypes, Policies, RateHolds, RetryAfter
  <2> QED BY <2>2, <2>3
<1>2. ASSUME NEW h \in Host, ResetRateLimit(h) PROVE RateInv'
  <2>1. /\ bucket' = [bucket EXCEPT ![h] = None] /\ admitted' = [admitted EXCEPT ![h] = <<>>]
        /\ refused' = [refused EXCEPT ![h] = None] /\ time' = time /\ policy' = policy
    BY <1>2 DEF ResetRateLimit
  <2>2. PolicyTypes'
    <3>1. /\ time' \in Nat /\ policy' \in Policies' /\ bucket' \in [Host -> Bucket \cup {None}]
          /\ refused' \in [Host -> Refusal \cup {None}]
      BY <2>1 DEF PolicyTypes, Policies
    <3>2. <<>> \in Seq(Admission) OBVIOUS
    <3>3. admitted' \in [Host -> Seq(Admission)] BY <2>1, <3>2 DEF PolicyTypes
    <3>4. ASSUME NEW x \in Host, bucket'[x] # None PROVE bucket'[x] = bucket[x]
      BY <2>1, <3>4 DEF PolicyTypes
    <3> QED BY <2>1, <3>1, <3>3, <3>4 DEF PolicyTypes
  <2>3. ASSUME NEW x \in Host
        PROVE  /\ bucket'[x] = None => admitted'[x] = <<>>
               /\ bucket'[x] # None => Owed(admitted'[x], bucket'[x])
               /\ refused'[x] # None => /\ bucket'[x] = [tokens |-> 0, last |-> refused'[x].at]
                                        /\ refused'[x].wait = RetryAfter
               /\ InRate(admitted'[x])
    <3>1. CASE x = h
      <4>1. bucket'[x] = None /\ refused'[x] = None /\ admitted'[x] = <<>>
        BY <2>1, <3>1 DEF PolicyTypes
      <4> QED BY <4>1 DEF InRate
    <3>2. CASE x # h
      <4>1. bucket'[x] = bucket[x] /\ refused'[x] = refused[x] /\ admitted'[x] = admitted[x]
        BY <2>1, <3>2 DEF PolicyTypes
      <4> QED BY <4>1 DEF RateHolds
    <3> QED BY <3>1, <3>2
  <2>4. RetryAfter' = RetryAfter BY <2>1 DEF RetryAfter
  <2> QED BY <2>2, <2>3, <2>4 DEF RateHolds
<1>3. ASSUME NEW p \in Policies, UpdateConfig(p) PROVE RateInv'
  <2>1. /\ policy' = p /\ refused' = [h \in Host |-> None] /\ time' = time
        /\ bucket' = bucket /\ admitted' = admitted
    BY <1>3 DEF UpdateConfig
  <2>2. PolicyTypes' BY <2>1 DEF PolicyTypes, Policies
  <2> QED BY <2>1, <2>2 DEF RateHolds
<1>4. CASE Elapse
  <2>1. /\ time' = time + 1 /\ policy' = policy /\ bucket' = bucket /\ admitted' = admitted
        /\ refused' = refused
    BY <1>4 DEF Elapse
  <2>2. PolicyTypes'
    <3>1. \A h \in Host : bucket[h] # None => bucket[h].last <= time + 1
      <4> TAKE h \in Host
      <4>1. bucket[h] # None => bucket[h].last \in Nat BY DEF PolicyTypes, Bucket
      <4> QED BY <4>1 DEF PolicyTypes
    <3>2. time + 1 \in Nat BY DEF PolicyTypes
    <3> QED BY <2>1, <3>1, <3>2 DEF PolicyTypes, Policies
  <2>3. RetryAfter' = RetryAfter BY <2>1 DEF RetryAfter
  <2> QED BY <2>1, <2>2, <2>3 DEF RateHolds
<1>5. CASE UNCHANGED policyVars
  BY <1>5 DEF policyVars, PolicyTypes, Policies, RateHolds, RetryAfter
<1> QED BY <1>1, <1>2, <1>3, <1>4, <1>5 DEF PolicyNext

\* A refused caller that has waited finds a token.
LEMMA WaitIsEnough == ASSUME RateInv PROVE RetryAfterIsEnough
<1> SUFFICES ASSUME NEW h \in Host, refused[h] # None, time >= refused[h].at + refused[h].wait
             PROVE  Refilled(h) >= 1
  BY DEF RetryAfterIsEnough
<1>1. /\ bucket[h] = [tokens |-> 0, last |-> refused[h].at] /\ refused[h].wait = RetryAfter
      /\ refused[h] \in Refusal /\ time \in Nat
  BY DEF RateInv, PolicyTypes
<1>2. refused[h].at \in Nat /\ refused[h].wait \in Nat BY <1>1 DEF Refusal
<1>3. policy.max \in Nat \ {0} BY PolicyMaxType DEF RateInv, PolicyTypes
<1>4. Held(h) = [tokens |-> 0, last |-> refused[h].at]
  <2>1. [tokens |-> 0, last |-> refused[h].at] \in Bucket BY <1>2 DEF Bucket
  <2> QED BY <1>1, <2>1, ExternalReadAssumption DEF Held
<1> DEFINE d == time - refused[h].at  x == (d * policy.max) \div Window
<1>5. d \in Nat /\ d >= (Window + policy.max - 1) \div policy.max
  <2>1. time - refused[h].at >= refused[h].wait BY <1>1, <1>2
  <2> QED BY <1>1, <1>2, <2>1 DEF RetryAfter
<1>6. x >= 1
  <2> HIDE DEF d
  <2> QED BY <1>3, <1>5, WaitRefills
<1>7. x \in Nat
  <2>1. d * policy.max \in Nat BY <1>3, <1>5
  <2> QED BY <2>1, DivisionIsMonotone, ExternalReadAssumption
<1>8. Refilled(h) = LeastOf(0 + x, policy.max) BY <1>4 DEF Refilled, TokensToAdd
<1> HIDE DEF x
<1> QED BY <1>3, <1>6, <1>7, <1>8 DEF LeastOf

------------------------------------------------------------------------------
(* The fetch *)

\* The answers count up by one.
LEMMA AskedIsCounted ==
    ASSUME NEW heard \in Seq(Heards), NEW answer \in Heards
    PROVE  /\ Asked(heard) \in Nat
           /\ answer \in Answers => Asked(Append(heard, answer)) = Asked(heard) + 1
           /\ answer \notin Answers => Asked(Append(heard, answer)) = Asked(heard)
<1> DEFINE n == Len(heard)  more == Append(heard, answer)
           asked == {i \in DOMAIN heard : heard[i] \in Answers}
           askedMore == {i \in DOMAIN more : more[i] \in Answers}
<1>1. /\ n \in Nat /\ DOMAIN heard = 1 .. n /\ DOMAIN more = 1 .. n + 1
      /\ \A i \in 1 .. n : more[i] = heard[i]
      /\ more[n + 1] = answer
  OBVIOUS
<1> HIDE DEF n, more
<1>2. IsFiniteSet(asked)
  <2>1. IsFiniteSet(1 .. n) BY <1>1, FS_Interval
  <2> QED BY <1>1, <2>1, FS_Subset
<1>3. Cardinality(asked) \in Nat BY <1>2, FS_CardinalityType
<1>4. CASE answer \in Answers
  <2>1. askedMore = asked \cup {n + 1} BY <1>1, <1>4
  <2>2. n + 1 \notin asked BY <1>1
  <2>3. Cardinality(askedMore) = Cardinality(asked) + 1
    <3> HIDE DEF asked, askedMore
    <3> QED BY <1>2, <2>1, <2>2, FS_AddElement
  <2> QED BY <1>3, <1>4, <2>3 DEF Asked, more
<1>5. CASE answer \notin Answers
  <2>1. askedMore = asked BY <1>1, <1>5
  <2> QED BY <1>3, <1>5, <2>1 DEF Asked, more
<1> QED BY <1>4, <1>5

LEMMA NothingAsked == Asked(<<>>) = 0 /\ <<>> \in Seq(Heards)
<1>1. {i \in DOMAIN <<>> : <<>>[i] \in Answers} = {} OBVIOUS
<1> QED BY <1>1, FS_EmptySet DEF Asked

\* The inductive invariant, of a fetch and what it heard: the attempts are counted with the
\* answers, and nothing was final before the end.
Counted(g, heard) ==
    /\ Asked(heard) <= g.attempt + 1
    /\ g.at \in {"idle", "fetching"} => Asked(heard) <= g.attempt
    /\ g.at = "sleeping" => g.attempt < MaxRetries
    /\ g.at = "reading" => heard # <<>> /\ heard[Len(heard)] = "2xx"
    /\ g.at # "done" => /\ g.result = None /\ g.content = None
                        /\ \A i \in 1 .. Len(heard) : heard[i] \notin {"4xx", "large"}
    /\ g.at = "done" => g.result # None
    /\ \A i \in 1 .. Len(heard) - 1 : heard[i] \notin {"4xx", "large"}
    /\ g.result = "RETRY_EXHAUSTED" => g.attempt = MaxRetries
    /\ g.content # None => heard[Len(heard)] = "2xx"

FetchInv ==
    /\ FetchTypes
    /\ \A r \in Request : Counted(get[r], tries[r])

\* What a fetch makes of an answer is of one call, which hears at most one thing.
LEMMA OneFetch ==
    ASSUME FetchInv, NEW r \in Request, NEW g \in Fetch, NEW heard \in Seq(Heards),
           get' = [get EXCEPT ![r] = g], tries' = [tries EXCEPT ![r] = heard],
           Counted(g, heard)
    PROVE  FetchInv'
<1>1. FetchTypes' BY DEF FetchInv, FetchTypes
<1>2. ASSUME NEW q \in Request PROVE Counted(get'[q], tries'[q])
  <2>1. CASE q = r BY <2>1 DEF FetchInv, FetchTypes
  <2>2. CASE q # r
    <3>1. get'[q] = get[q] /\ tries'[q] = tries[q] BY <2>2 DEF FetchInv, FetchTypes
    <3> QED BY <3>1 DEF FetchInv
  <2> QED BY <2>1, <2>2
<1> QED BY <1>1, <1>2 DEF FetchInv, Counted

\* The types of a call, and of what it may end with.
LEMMA ErrorCodes ==
    /\ \A answer \in Answers : answer # "2xx" => Thrown(answer) \in Codes /\ Thrown(answer) # "RETRY_EXHAUSTED"
    /\ None \notin Codes
    /\ NotRetried \subseteq Codes /\ Answers \subseteq Heards
    /\ Thrown("4xx") \in NotRetried
  BY ExternalReadAssumption DEF Answers, Thrown, Codes, NotRetried, Heards

\* The end of a call.
LEMMA DoneKeeps ==
    ASSUME FetchInv, NEW r \in Request, NEW result \in Codes, NEW content, NEW heard \in Seq(Heards),
           content \in {"", "html", "other", "text", "markdown", None},
           Done(r, result, content), tries' = [tries EXCEPT ![r] = heard],
           Asked(heard) <= get[r].attempt + 1,
           \A i \in 1 .. Len(heard) - 1 : heard[i] \notin {"4xx", "large"},
           result = "RETRY_EXHAUSTED" => get[r].attempt = MaxRetries,
           content # None => heard[Len(heard)] = "2xx"
    PROVE  FetchInv'
<1> DEFINE g == [get[r] EXCEPT !.at = "done", !.result = result, !.content = content]
<1>1. get \in [Request -> Fetch] /\ get[r] \in Fetch BY DEF FetchInv, FetchTypes
<1>2. g \in Fetch BY <1>1 DEF Fetch
<1>3. /\ g.at = "done" /\ g.result = result /\ g.content = content /\ g.attempt = get[r].attempt
  BY <1>1 DEF Fetch
<1>4. get' = [get EXCEPT ![r] = g] BY <1>1 DEF Done, Fetch
<1>5. result # None BY ErrorCodes
<1> HIDE DEF g
<1>6. Counted(g, heard)
  <2>1. g.at \notin {"idle", "fetching"} /\ g.at # "sleeping" /\ g.at # "reading" BY <1>3
  <2> QED BY <1>3, <1>5, <2>1 DEF Counted
<1> QED BY <1>2, <1>4, <1>6, OneFetch

\* An error is caught.
LEMMA CatchKeeps ==
    ASSUME FetchInv, NEW r \in Request, NEW code \in Codes, code # "RETRY_EXHAUSTED",
           NEW heard \in Seq(Heards), Catch(r, code), tries' = [tries EXCEPT ![r] = heard],
           get[r].at # "done", Asked(heard) <= get[r].attempt + 1,
           \A i \in 1 .. Len(heard) - 1 : heard[i] \notin {"4xx", "large"},
           heard # <<>>,
           heard[Len(heard)] \in {"4xx", "large"} => code \in NotRetried
    PROVE  FetchInv'
<1>1. /\ get \in [Request -> Fetch] /\ get[r] \in Fetch /\ get[r].attempt \in 0 .. MaxRetries
      /\ get[r].result = None /\ get[r].content = None
  <2>1. get \in [Request -> Fetch] /\ get[r] \in Fetch BY DEF FetchInv, FetchTypes
  <2>2. get[r].attempt \in 0 .. MaxRetries BY <2>1 DEF Fetch
  <2> QED BY <2>1, <2>2 DEF FetchInv, Counted
<1>2. CASE code \in NotRetried BY <1>2, DoneKeeps DEF Catch
<1>3. CASE code \notin NotRetried /\ get[r].attempt < MaxRetries
  <2> DEFINE g == [get[r] EXCEPT !.at = "sleeping"]
  <2>1. get' = [get EXCEPT ![r] = g] BY <1>1, <1>3 DEF Catch, HasAttemptLeft, Fetch
  <2>2. g \in Fetch BY <1>1 DEF Fetch
  <2>3. /\ g.at = "sleeping" /\ g.attempt = get[r].attempt /\ g.result = None /\ g.content = None
    BY <1>1 DEF Fetch
  <2>4. \A i \in 1 .. Len(heard) : heard[i] \notin {"4xx", "large"}
    <3> TAKE i \in 1 .. Len(heard)
    <3>1. Len(heard) \in Nat OBVIOUS
    <3>2. i = Len(heard) \/ i \in 1 .. Len(heard) - 1 BY <3>1
    <3> QED BY <1>3, <3>2
  <2> HIDE DEF g
  <2>5. Counted(g, heard)
    <3>1. g.at \notin {"idle", "fetching"} /\ g.at # "done" /\ g.at # "reading" BY <2>3
    <3> QED BY <1>3, <2>3, <2>4, <3>1, ErrorCodes DEF Counted, Codes
  <2> QED BY <2>1, <2>2, <2>5, OneFetch
<1>4. CASE code \notin NotRetried /\ ~ (get[r].attempt < MaxRetries)
  <2>1. get[r].attempt = MaxRetries BY <1>1, <1>4, ExternalReadAssumption
  <2>2. Done(r, "RETRY_EXHAUSTED", None) BY <1>4 DEF Catch, HasAttemptLeft
  <2>3. "RETRY_EXHAUSTED" \in Codes BY DEF Codes
  <2> QED BY <2>1, <2>2, <2>3, DoneKeeps
<1> QED BY <1>2, <1>3, <1>4

\* Every step of a fetch.
LEMMA FetchKeeps ==
    ASSUME FetchInv, FetchNext \/ UNCHANGED fetchVars
    PROVE  FetchInv'
<1> DEFINE Final == {"4xx", "large"}
<1>1. /\ get \in [Request -> Fetch] /\ tries \in [Request -> Seq(Heards)]
      /\ \A r \in Request : /\ get[r] \in Fetch /\ tries[r] \in Seq(Heards)
                            /\ get[r].attempt \in 0 .. MaxRetries
                            /\ Counted(get[r], tries[r])
  <2>1. get \in [Request -> Fetch] /\ tries \in [Request -> Seq(Heards)] BY DEF FetchInv, FetchTypes
  <2>2. \A g \in Fetch : g.attempt \in 0 .. MaxRetries BY DEF Fetch
  <2> QED BY <2>1, <2>2 DEF FetchInv
\* What a call has heard when it hears something more.
<1>2. ASSUME NEW r \in Request, get[r].at \in {"fetching", "reading"}, NEW e \in Heards,
             get[r].at = "reading" => e \notin Answers
      PROVE  LET heard == Append(tries[r], e)
             IN  /\ heard \in Seq(Heards) /\ heard # <<>> /\ heard[Len(heard)] = e
                 /\ Asked(heard) <= get[r].attempt + 1
                 /\ \A i \in 1 .. Len(heard) - 1 : heard[i] \notin Final
  <2> DEFINE heard == Append(tries[r], e)  n == Len(tries[r])
  <2>1. /\ n \in Nat /\ heard \in Seq(Heards) /\ Len(heard) = n + 1 /\ heard[n + 1] = e
        /\ \A i \in 1 .. n : heard[i] = tries[r][i]
    BY <1>1
  <2>2. \A i \in 1 .. n : tries[r][i] \notin Final
    BY <1>1, <1>2 DEF Counted
  <2>3. Asked(heard) <= get[r].attempt + 1
    <3>1. /\ Asked(tries[r]) \in Nat
          /\ e \in Answers => Asked(heard) = Asked(tries[r]) + 1
          /\ e \notin Answers => Asked(heard) = Asked(tries[r])
      BY <1>1, <1>2, AskedIsCounted
    <3>2. get[r].attempt \in Nat BY <1>1, ExternalReadAssumption
    <3> HIDE DEF heard
    <3>3. CASE get[r].at = "fetching"
      <4>1. Asked(tries[r]) <= get[r].attempt BY <1>1, <3>3 DEF Counted
      <4> QED BY <3>1, <3>2, <4>1
    <3>4. CASE get[r].at = "reading"
      <4>1. Asked(tries[r]) <= get[r].attempt + 1 BY <1>1 DEF Counted
      <4> QED BY <1>2, <3>1, <3>4, <4>1
    <3> QED BY <1>2, <3>3, <3>4
  <2>5. Len(heard) - 1 = n BY <2>1
  <2> HIDE DEF heard, n
  <2>4. heard # <<>>
    <3>1. Len(heard) # 0 BY <2>1
    <3> QED BY <3>1
  <2>6. \A i \in 1 .. Len(heard) - 1 : heard[i] \notin Final BY <2>1, <2>2, <2>5 DEF n
  <2>7. heard[Len(heard)] = e BY <2>1
  <2> QED BY <2>1, <2>3, <2>4, <2>6, <2>7 DEF heard
<1>3. ASSUME NEW r \in Request, NEW tool \in Tools, NEW o \in Options, Start(r, tool, o)
      PROVE  FetchInv'
  <2> DEFINE bad == ValidateTimeout(o.timeout)
             g == [get[r] EXCEPT !.tool = tool, !.options = o, !.result = bad,
                                 !.at = IF bad = None THEN "fetching" ELSE "done"]
  <2>1. /\ get' = [get EXCEPT ![r] = g] /\ tries' = [tries EXCEPT ![r] = tries[r]]
        /\ get[r].at = "idle"
    BY <1>1, <1>3 DEF Start
  <2>2. bad \in Codes \cup {None} /\ bad # "RETRY_EXHAUSTED"
    BY ErrorCodes DEF ValidateTimeout, Codes
  <2>3. g \in Fetch BY <1>1, <2>2 DEF Fetch
  <2>4. /\ g.at = (IF bad = None THEN "fetching" ELSE "done") /\ g.result = bad
        /\ g.attempt = get[r].attempt /\ g.content = get[r].content
    BY <1>1 DEF Fetch
  <2>5. Counted(get[r], tries[r]) BY <1>1
  <2> HIDE DEF g, bad
  <2>6. Counted(g, tries[r]) BY <2>1, <2>2, <2>4, <2>5 DEF Counted
  <2> QED BY <1>1, <2>1, <2>3, <2>6, OneFetch
<1>4. ASSUME NEW r \in Request, NEW answer \in Answers, Respond(r, answer)
      PROVE  FetchInv'
  <2> DEFINE heard == Append(tries[r], answer)
  <2>1. get[r].at = "fetching" /\ answer \in Heards /\ tries' = [tries EXCEPT ![r] = heard]
    BY <1>1, <1>4, ErrorCodes DEF Respond, Heard
  <2>2. /\ heard \in Seq(Heards) /\ heard # <<>> /\ heard[Len(heard)] = answer
        /\ Asked(heard) <= get[r].attempt + 1
        /\ \A i \in 1 .. Len(heard) - 1 : heard[i] \notin Final
    BY <1>2, <2>1
  <2>3. Counted(get[r], tries[r]) /\ get[r] \in Fetch BY <1>1
  <2> HIDE DEF heard
  <2>4. CASE answer = "2xx"
    <3>1. Accept(r) BY <1>4, <2>4 DEF Respond
    <3>2. CASE Done(r, "stream", None) \/ Done(r, "NO_BODY", None)
      <4>1. "stream" \in Codes /\ "NO_BODY" \in Codes BY DEF Codes
      <4>2. "stream" # "RETRY_EXHAUSTED" /\ "NO_BODY" # "RETRY_EXHAUSTED" OBVIOUS
      <4> QED BY <2>1, <2>2, <3>2, <4>1, <4>2, DoneKeeps
    <3>3. CASE Done(r, "ok", "")
      <4>1. "ok" \in Codes /\ "ok" # "RETRY_EXHAUSTED" BY DEF Codes
      <4> QED BY <2>1, <2>2, <2>4, <3>3, <4>1, DoneKeeps
    <3>4. CASE get' = [get EXCEPT ![r].at = "reading"]
      <4> DEFINE g == [get[r] EXCEPT !.at = "reading"]
      <4>1. get' = [get EXCEPT ![r] = g] /\ g \in Fetch BY <1>1, <3>4 DEF Fetch
      <4>2. /\ g.at = "reading" /\ g.attempt = get[r].attempt
            /\ g.result = get[r].result /\ g.content = get[r].content
        BY <1>1 DEF Fetch
      <4>3. \A i \in 1 .. Len(heard) : heard[i] \notin Final
        <5>1. Len(heard) \in Nat BY <2>2
        <5> QED BY <2>2, <2>4, <5>1
      <4> HIDE DEF g
      <4>4. Counted(g, heard)
        <5>1. get[r].result = None /\ get[r].content = None BY <2>1, <2>3 DEF Counted
        <5>2. None # "RETRY_EXHAUSTED" BY ErrorCodes DEF Codes
        <5> QED BY <2>2, <2>4, <4>2, <4>3, <5>1, <5>2 DEF Counted
      <4> QED BY <2>1, <2>2, <4>1, <4>4, OneFetch
    <3> QED BY <3>1, <3>2, <3>3, <3>4 DEF Accept
  <2>5. CASE answer # "2xx" /\ get[r].tool = "stream_get"
    <3>1. Done(r, Thrown(answer), None) BY <1>4, <2>5 DEF Respond
    <3> QED BY <2>1, <2>2, <2>5, <3>1, ErrorCodes, DoneKeeps
  <2>6. CASE answer = "5xx" /\ get[r].tool # "stream_get" /\ HasAttemptLeft(r)
    <3> DEFINE g == [get[r] EXCEPT !.at = "sleeping"]
    <3>1. get' = [get EXCEPT ![r] = g] /\ g \in Fetch
      <4>1. get' = [get EXCEPT ![r].at = "sleeping"] BY <1>4, <2>6 DEF Respond
      <4> QED BY <1>1, <4>1 DEF Fetch
    <3>2. /\ g.at = "sleeping" /\ g.attempt = get[r].attempt
          /\ g.result = get[r].result /\ g.content = get[r].content
      BY <1>1 DEF Fetch
    <3>3. \A i \in 1 .. Len(heard) : heard[i] \notin Final
      <4>1. Len(heard) \in Nat BY <2>2
      <4> QED BY <2>2, <2>6, <4>1
    <3> HIDE DEF g
    <3>4. Counted(g, heard)
      <4>1. get[r].result = None /\ get[r].content = None BY <2>1, <2>3 DEF Counted
      <4>2. None # "RETRY_EXHAUSTED" BY ErrorCodes DEF Codes
      <4>3. get[r].attempt < MaxRetries BY <2>6 DEF HasAttemptLeft
      <4> QED BY <2>2, <3>2, <3>3, <4>1, <4>2, <4>3 DEF Counted
    <3> QED BY <2>1, <2>2, <3>1, <3>4, OneFetch
  <2>7. CASE /\ answer # "2xx" /\ get[r].tool # "stream_get"
             /\ ~ (answer = "5xx" /\ HasAttemptLeft(r))
    <3>1. Catch(r, Thrown(answer)) BY <1>4, <2>7 DEF Respond
    <3>2. answer \in Final => answer = "4xx" BY DEF Answers
    <3>3. Thrown(answer) \in Codes /\ Thrown(answer) # "RETRY_EXHAUSTED" BY <2>7, ErrorCodes
    <3>4. answer \in Final => Thrown(answer) \in NotRetried BY <3>2, ErrorCodes
    <3> QED BY <2>1, <2>2, <3>1, <3>3, <3>4, CatchKeeps
  <2> QED BY <2>4, <2>5, <2>6, <2>7
<1>5. ASSUME NEW r \in Request, ReadBody(r) PROVE FetchInv'
  <2>1. get[r].at = "reading" BY <1>5 DEF ReadBody
  <2>2. Counted(get[r], tries[r]) /\ get[r] \in Fetch /\ tries[r] \in Seq(Heards) BY <1>1
  <2>3. CASE /\ UNCHANGED tries
             /\ \E page \in {"html", "other"} :
                   Done(r, "ok", IF get[r].tool = "web_read" THEN ProcessContent(page, get[r].options) ELSE page)
    <3>1. PICK page \in {"html", "other"} :
             Done(r, "ok", IF get[r].tool = "web_read" THEN ProcessContent(page, get[r].options) ELSE page)
      BY <2>3
    <3> DEFINE content == IF get[r].tool = "web_read" THEN ProcessContent(page, get[r].options) ELSE page
    <3>2. content \in {"", "html", "other", "text", "markdown", None}
      BY DEF ProcessContent, ExtractMainContent, HtmlToMarkdown
    <3>3. "ok" \in Codes /\ "ok" # "RETRY_EXHAUSTED" BY DEF Codes
    <3>4. tries' = [tries EXCEPT ![r] = tries[r]] BY <1>1, <2>3
    <3>5. /\ Asked(tries[r]) <= get[r].attempt + 1
          /\ \A i \in 1 .. Len(tries[r]) - 1 : tries[r][i] \notin Final
          /\ tries[r][Len(tries[r])] = "2xx"
      BY <2>1, <2>2 DEF Counted
    <3> HIDE DEF content
    <3>6. Done(r, "ok", content) BY <3>1 DEF content
    <3> QED BY <2>2, <3>2, <3>3, <3>4, <3>5, <3>6, DoneKeeps
  <2>4. ASSUME NEW e \in {"large", "broken"}, NEW code \in Codes, code # "RETRY_EXHAUSTED",
               e = "large" => code \in NotRetried, Heard(r, e), Catch(r, code)
        PROVE  FetchInv'
    <3>1. e \in Heards /\ e \notin Answers BY DEF Heards, Answers
    <3> DEFINE heard == Append(tries[r], e)
    <3>2. /\ heard \in Seq(Heards) /\ heard # <<>> /\ heard[Len(heard)] = e
          /\ Asked(heard) <= get[r].attempt + 1
          /\ \A i \in 1 .. Len(heard) - 1 : heard[i] \notin Final
      BY <1>2, <2>1, <3>1
    <3>3. tries' = [tries EXCEPT ![r] = heard] BY <1>1, <2>4 DEF Heard
    <3> HIDE DEF heard
    <3> QED BY <2>1, <2>4, <3>2, <3>3, CatchKeeps
  <2>5. "SIZE_LIMIT_EXCEEDED" \in NotRetried /\ "SIZE_LIMIT_EXCEEDED" \in Codes /\ "network" \in Codes
    BY DEF NotRetried, Codes
  <2> QED BY <1>5, <2>3, <2>4, <2>5 DEF ReadBody
<1>6. ASSUME NEW r \in Request, WakeUp(r) PROVE FetchInv'
  <2> DEFINE g == [get[r] EXCEPT !.at = "fetching", !.attempt = get[r].attempt + 1]
  <2>1. Counted(get[r], tries[r]) /\ get[r] \in Fetch /\ get[r].at = "sleeping"
    BY <1>1, <1>6 DEF WakeUp
  <2>2. get[r].attempt < MaxRetries /\ get[r].attempt \in Nat /\ get[r].attempt + 1 \in 0 .. MaxRetries
    BY <1>1, <2>1, ExternalReadAssumption DEF Counted
  <2>3. get' = [get EXCEPT ![r] = g] /\ tries' = [tries EXCEPT ![r] = tries[r]]
    BY <1>1, <1>6 DEF WakeUp, Fetch
  <2>4. g \in Fetch BY <2>1, <2>2 DEF Fetch
  <2>5. /\ g.at = "fetching" /\ g.attempt = get[r].attempt + 1
        /\ g.result = get[r].result /\ g.content = get[r].content
    BY <2>1 DEF Fetch
  <2> HIDE DEF g
  <2>6. Counted(g, tries[r])
    <3>1. None # "RETRY_EXHAUSTED" BY ErrorCodes DEF Codes
    <3>2. Asked(tries[r]) \in Nat BY <1>1, AskedIsCounted, ErrorCodes DEF Answers, Heards
    <3> QED BY <2>1, <2>2, <2>5, <3>1, <3>2 DEF Counted
  <2> QED BY <1>1, <2>3, <2>4, <2>6, OneFetch
<1>7. CASE UNCHANGED fetchVars
  BY <1>7 DEF fetchVars, FetchInv, FetchTypes, Counted
<1> QED BY <1>3, <1>4, <1>5, <1>6, <1>7 DEF FetchNext

------------------------------------------------------------------------------
(* Theorems *)

LEMMA InvInit == Init => RateInv /\ FetchInv
<1> SUFFICES ASSUME Init PROVE RateInv /\ FetchInv OBVIOUS
<1>1. PolicyTypes
  <2>1. <<>> \in Seq(Admission) OBVIOUS
  <2> QED BY <2>1 DEF Init, PolicyTypes
<1>2. RateInv BY <1>1 DEF Init, RateInv, RateHolds, InRate
<1>3. 0 \in 0 .. MaxRetries BY ExternalReadAssumption
<1>4. Idle \in Fetch BY <1>3 DEF Idle, Fetch
<1>5. Counted(Idle, <<>>)
  <2>1. None # "RETRY_EXHAUSTED" BY ErrorCodes DEF Codes
  <2>2. Len(<<>>) = 0 OBVIOUS
  <2>3. /\ Idle.at = "idle" /\ Idle.attempt = 0 /\ Idle.result = None /\ Idle.content = None
    BY DEF Idle
  <2> QED BY <2>1, <2>2, <2>3, NothingAsked DEF Counted
<1>6. FetchInv BY <1>4, <1>5, NothingAsked DEF Init, FetchInv, FetchTypes
<1> QED BY <1>2, <1>6

LEMMA InvNext == RateInv /\ FetchInv /\ [Next]_vars => RateInv' /\ FetchInv'
<1> SUFFICES ASSUME RateInv, FetchInv, [Next]_vars PROVE RateInv' /\ FetchInv' OBVIOUS
<1>1. PolicyNext \/ UNCHANGED policyVars BY DEF Next, FetchNext, AuditNext, vars
<1>2. FetchNext \/ UNCHANGED fetchVars BY DEF Next, PolicyNext, AuditNext, vars
<1> QED BY <1>1, <1>2, PolicyKeepsRate, FetchKeeps

LEMMA InvMeans == RateInv /\ FetchInv => TypeOK /\ ReadsAreLimited
<1> SUFFICES ASSUME RateInv, FetchInv PROVE TypeOK /\ ReadsAreLimited OBVIOUS
<1>1. RetriesAreJustified
  <2> SUFFICES ASSUME NEW r \in Request
               PROVE  /\ Asked(tries[r]) <= MaxRetries + 1
                      /\ \A i \in 1 .. Len(tries[r]) - 1 : tries[r][i] \notin {"4xx", "large"}
                      /\ get[r].at = "done" => get[r].result # None
                      /\ get[r].result = "RETRY_EXHAUSTED" => get[r].attempt = MaxRetries
                      /\ get[r].content # None => Last(tries[r]) = "2xx"
    BY DEF RetriesAreJustified
  <2>1. get[r] \in Fetch /\ tries[r] \in Seq(Heards) BY DEF FetchInv, FetchTypes
  <2>2. get[r].attempt \in 0 .. MaxRetries BY <2>1 DEF Fetch
  <2>3. Asked(tries[r]) \in Nat
    <3>1. "2xx" \in Heards BY ErrorCodes DEF Answers
    <3> QED BY <2>1, <3>1, AskedIsCounted
  <2>4. Counted(get[r], tries[r]) BY DEF FetchInv
  <2>5. Asked(tries[r]) <= get[r].attempt + 1 BY <2>4 DEF Counted
  <2>6. Asked(tries[r]) <= MaxRetries + 1 BY <2>2, <2>3, <2>5, ExternalReadAssumption
  <2> QED BY <2>4, <2>6 DEF Counted, Last
<1>2. RetryAfterIsEnough BY WaitIsEnough
<1> QED BY <1>1, <1>2 DEF RateInv, FetchInv, TypeOK, ReadsAreLimited

\* For any hosts, limits, window, retries and order of calls: policies, buckets and fetches
\* keep their types.
THEOREM TypeCorrect == Spec => []TypeOK
<1>1. Spec => [](RateInv /\ FetchInv) BY InvInit, InvNext, PTL DEF Spec
<1> QED BY <1>1, InvMeans, PTL

\* The rate holds between any two checks, the wait that a refused caller is told is enough, and
\* the attempts of a fetch are justified by what it heard, for every limit, window and number of
\* retries. (PolicyEngine.checkRateLimit, http_get)
THEOREM ReadsStayLimited == Spec => []ReadsAreLimited
<1>1. Spec => [](RateInv /\ FetchInv) BY InvInit, InvNext, PTL DEF Spec
<1> QED BY <1>1, InvMeans, PTL
=============================================================================
