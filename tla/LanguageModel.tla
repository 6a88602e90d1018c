---------------------------- MODULE LanguageModel ----------------------------
(***************************************************************************)
(* The language model of the runtime: ReliableLLMProvider, which cuts a    *)
(* request to its limits, waits for the provider behind it for a while and *)
(* then asks the mock, and the providers of Ollama and of OpenAI with      *)
(* their caches of embeddings. Every degradation is an error of the        *)
(* governor.                                                               *)
(***************************************************************************)
EXTENDS RuntimeGovernor, SequencesExt

CONSTANTS
    Caller, None,
    Length,             \* the texts with their lengths ...
    Prefix,             \* ... their first MaxPromptChars characters ...
    Hash,               \* ... and their 32-bit hashes, the keys of the cache
    Contexts, Batches,  \* what is asked for
    Tokens,
    MaxPromptChars, MaxContextChars, MaxInputTokens, CacheSize,
    MaxAsked

VARIABLES
    provider,   \* [name, fallback]: "ollama" or "openai", and whether the mock stands behind it
    request,    \* what a caller has asked for and has got
    http,       \* the request of its provider, which may outlive the caller's patience
    embeddings, \* the cache of the provider: hash -> the text whose embedding it is
    asked

modelVars == <<governorVars, provider, request, http, embeddings, asked>>

Text == DOMAIN Length
Unlimited == 4096

SumOfLengths(texts) == FoldSeq(LAMBDA t, sum : Length[t] + sum, 0, texts)

------------------------------------------------------------------------------
(* Cutting a request to size *)

TruncatePrompt(prompt) == IF Length[prompt] <= MaxPromptChars THEN prompt ELSE Prefix[prompt]

\* The texts with a separator between them.
JoinedLength(texts) == SumOfLengths(texts) + (IF texts = <<>> THEN 0 ELSE Len(texts) - 1)

Keep(next, kept) ==
    IF SumOfLengths(kept) + Length[next] > MaxContextChars THEN kept ELSE <<next>> \o kept

TruncateContext(context) ==
    IF JoinedLength(context) <= MaxContextChars THEN context ELSE FoldRight(Keep, context, <<>>)

ExceedsBudget(prompt, context) ==
    (Length[prompt] + SumOfLengths(context) + 3) \div 4 > MaxInputTokens

\* Of a budget that is exceeded nothing remains but the least there may be.
ApplyTokenBudget(prompt, context, tokens) ==
    IF ExceedsBudget(prompt, context) /\ tokens > 64 THEN 64 ELSE tokens

One(happened) == IF happened THEN 1 ELSE 0

\* Every degradation is reported as an error.
Report(k) == IF k = 0 THEN UNCHANGED governorVars ELSE RecordGovernorErrors(k)

------------------------------------------------------------------------------
(* The requests *)

NoRequest == [pc |-> "idle", kind |-> "generate", given |-> <<>>, texts |-> <<>>, context |-> <<>>,
              tokens |-> Unlimited, late |-> FALSE, answers |-> <<>>]

\* What somebody's model makes of a text; "nobody" for an answer that does not have it.
By(model, text) == [by |-> model, of |-> text]

UsesCache(kind) == kind = "embed" \/ (kind = "batch" /\ provider.name = "ollama")

HasRoom == Cardinality(DOMAIN embeddings) < CacheSize

\* What is known of the texts before the first that is not.
Known(texts, cache) ==
    LET firsts == {n \in 0 .. Len(texts) : \A i \in 1 .. n : Hash[texts[i]] \in DOMAIN cache}
        found == CHOOSE n \in firsts : \A k \in firsts : k <= n
    IN  [i \in 1 .. found |-> By("primary", cache[Hash[texts[i]]])]

\* The provider starts on a request; a cache may answer all of it.
Start(c, r) ==
    LET known == IF UsesCache(r.kind) THEN Known(r.texts, embeddings) ELSE <<>>
        all == Len(known) = Len(r.texts)
    IN  /\ request' = [request EXCEPT ![c] = [r EXCEPT !.pc = IF all THEN "answered" ELSE "waiting",
                                                       !.answers = IF all THEN known ELSE <<>>]]
        /\ http' = IF all THEN http
                   ELSE [http EXCEPT ![c] = [kind |-> r.kind, texts |-> r.texts, got |-> known]]

Asks(c) ==
    /\ request[c].pc # "waiting" /\ http[c] = None
    /\ asked < MaxAsked /\ asked' = asked + 1
    /\ UNCHANGED <<provider, embeddings>>

\* generate() and generateWithContext(), which without a context are the same.
Generate(c, prompt, context, tokens) ==
    LET cut == TruncatePrompt(prompt)
        kept == TruncateContext(context)
    IN  /\ Asks(c)
        /\ Report(One(cut # prompt) + One(JoinedLength(context) > MaxContextChars)
                  + One(ExceedsBudget(cut, kept)))
        /\ Start(c, [NoRequest EXCEPT !.given = <<prompt>> \o context, !.texts = <<cut>>, !.context = kept,
                                      !.tokens = ApplyTokenBudget(cut, kept, tokens)])

\* embed() and embedBatch()
Embed(c, kind, texts) ==
    LET cut == [i \in DOMAIN texts |-> TruncatePrompt(texts[i])]
    IN  /\ Asks(c)
        /\ Report(Cardinality({i \in DOMAIN texts : cut[i] # texts[i]}))
        /\ Start(c, [NoRequest EXCEPT !.kind = kind, !.given = texts, !.texts = cut])

\* The primary is of no use: the mock answers at once, if there is one.
Degrade(c, timeouts) ==
    /\ Report(timeouts + One(provider.fallback))
    /\ request' = [request EXCEPT
           ![c].late = timeouts > 0,
           ![c].pc = IF provider.fallback THEN "answered" ELSE "failed",
           ![c].answers = IF provider.fallback
                          THEN [i \in DOMAIN request[c].texts |-> By("mock", request[c].texts[i])] ELSE <<>>]

\* The caller waits no longer; the provider does.
TimesOut(c) ==
    /\ request[c].pc = "waiting"
    /\ Degrade(c, 1)
    /\ UNCHANGED <<provider, http, embeddings, asked>>

\* The provider's own timeout, an error of the network or of the server, or an answer that is none.
Fails(c) ==
    /\ http[c] # None
    /\ http' = [http EXCEPT ![c] = None]
    /\ IF request[c].pc = "waiting" THEN Degrade(c, 0) ELSE UNCHANGED <<governorVars, request>>
    /\ UNCHANGED <<provider, embeddings, asked>>

\* What is handed on to a caller that has not given up.
Settle(c, answers) ==
    IF request[c].pc = "waiting" THEN [request EXCEPT ![c].pc = "answered", ![c].answers = answers]
    ELSE request

\* The embedding of a text is cached while there is room for it.
CacheResult(text) == IF HasRoom THEN (Hash[text] :> text) @@ embeddings ELSE embeddings

\* The next text of those that go one by one. An answer without an embedding cannot be copied into
\* the cache and fails, but with a full cache nobody looks at it.
AnswersOne(c, model) ==
    LET h == http[c]
        text == h.texts[Len(h.got) + 1]
        got == Append(h.got, By(model, text))
        all == got \o Known(SubSeq(h.texts, Len(got) + 1, Len(h.texts)), embeddings')
    IN  /\ UsesCache(h.kind)
        /\ model = "nobody" => ~HasRoom
        /\ embeddings' = IF model = "primary" THEN CacheResult(text) ELSE embeddings
        /\ IF Len(all) = Len(h.texts)
           THEN http' = [http EXCEPT ![c] = None] /\ request' = Settle(c, all)
           ELSE http' = [http EXCEPT ![c].got = all] /\ UNCHANGED request

\* An answer without a text is an empty text, one without embeddings an empty list.
AnswersAll(c, model) ==
    LET h == http[c]
    IN  /\ ~UsesCache(h.kind)
        /\ http' = [http EXCEPT ![c] = None]
        /\ request' = Settle(c, IF model = "nobody" /\ h.kind = "batch" THEN <<>>
                                ELSE [i \in DOMAIN h.texts |-> By(model, h.texts[i])])
        /\ UNCHANGED embeddings

Answers(c) ==
    /\ http[c] # None
    /\ \E model \in {"primary", "nobody"} : AnswersOne(c, model) \/ AnswersAll(c, model)
    /\ UNCHANGED <<governorVars, provider, asked>>

ClearCache ==
    /\ provider.name = "ollama" /\ embeddings # <<>>
    /\ embeddings' = <<>>
    /\ UNCHANGED <<governorVars, provider, request, http, asked>>

ModelInit ==
    /\ GovernorInit
    /\ provider \in [name : {"ollama", "openai"}, fallback : BOOLEAN]
    /\ request = [c \in Caller |-> NoRequest] /\ http = [c \in Caller |-> None]
    /\ embeddings = <<>> /\ asked = 0

ModelNext ==
    \/ \E c \in Caller :
          \/ \E prompt \in Text, context \in Contexts, tokens \in Tokens : Generate(c, prompt, context, tokens)
          \/ \E text \in Text : Embed(c, "embed", <<text>>)
          \/ \E texts \in Batches : Embed(c, "batch", texts)
          \/ TimesOut(c) \/ Fails(c) \/ Answers(c)
    \/ ClearCache

------------------------------------------------------------------------------
ModelTypeOK ==
    /\ GovernorTypeOK
    /\ \A c \in Caller :
          /\ request[c].pc \in {"idle", "waiting", "answered", "failed"}
          /\ request[c].pc = "waiting" => http[c] # None
          /\ http[c] # None => Len(http[c].got) < Len(http[c].texts)

\* What leaves for a provider is within the limits, and of a context that is too long what is newest
\* remains, in its order, unless it does not fit by itself. (truncatePrompt, truncateContext)
RequestsFit ==
    \A c \in Caller :
        LET r == request[c]
            context == Tail(r.given)
            Later(i) == SelectSeq(SubSeq(context, i + 1, Len(context)), LAMBDA t : t \in Range(r.context))
        IN  /\ \A i \in DOMAIN r.texts : Length[r.texts[i]] <= MaxPromptChars
            /\ SumOfLengths(r.context) <= MaxContextChars
            /\ r.pc # "idle" /\ r.kind = "generate" =>
                  /\ r.context = SelectSeq(context, LAMBDA t : t \in Range(r.context))
                  /\ \A i \in DOMAIN context :
                        context[i] \in Range(r.context)
                        \/ SumOfLengths(Later(i)) + Length[context[i]] > MaxContextChars
                  /\ ExceedsBudget(r.texts[1], r.context) => r.tokens <= 64

\* A caller gets an answer for each text it asked about, in their order and from one model: from the
\* provider only in time, from the mock only if there is one; and an embedding is that of the text or
\* of one the cache takes for it. (withTimeout, tryFallback, embed)
AnswersFit ==
    \A c \in Caller :
        LET r == request[c]
        IN  r.pc = "answered" =>
              /\ r.late => provider.fallback /\ \A i \in DOMAIN r.answers : r.answers[i].by = "mock"
              /\ \A i \in DOMAIN r.answers : r.answers[i].by = "mock" => provider.fallback
              /\ Len(r.answers) = Len(r.texts) \/ (r.answers = <<>> /\ provider.name = "openai" /\ r.kind = "batch")
              /\ \A i \in DOMAIN r.answers :
                    /\ Hash[r.answers[i].of] = Hash[r.texts[i]]
                    /\ r.kind = "generate" => r.answers[i].of = r.texts[i]

CacheFits ==
    /\ Cardinality(DOMAIN embeddings) <= CacheSize
    /\ \A h \in DOMAIN embeddings : Hash[embeddings[h]] = h

ModelIsReliable == ModelTypeOK /\ GovernorIsSound /\ RequestsFit /\ AnswersFit /\ CacheFits
===============================================================================
