-------------------------- MODULE ContinualLearning --------------------------
(***************************************************************************)
(* Learning from experience (src/src/learning/continuous-pretraining.ts    *)
(* behind learning-integration.ts): experiences in a bounded buffer, the   *)
(* knowledge extracted from them, and its consolidation. The weights of    *)
(* the network are left out, and training is a count. The rest of an       *)
(* experience is one step, up to the write of the state file, which        *)
(* truncates it first; two writes at once may leave a mixture.             *)
(*                                                                         *)
(* An embedding is a point of a line, and similar points are near. The     *)
(* concepts of one experience all have its embedding.                      *)
(***************************************************************************)
EXTENDS Integers, Sequences, SequencesExt, FiniteSets, FiniteSetsExt

CONSTANTS
    Client,
    Input, Words, Embedding,     \* Words[i]: the words of an input; Embedding[i]: a number
    Near,                        \* how far similar embeddings are apart at most
    ReplaySize, SavedSize,       \* experiences kept, and experiences saved
    KeptSources, MinSamples, TrainEvery, ConsolidateEvery,
    DecayPercent,                \* of the confidence, for a step of the clock
    FrequentUse, KeptInteractions,
    Torn,
    MaxTotal, MaxQueries, MaxTime, MaxCrashes  \* bounds

VARIABLES
    clock,
    mind,          \* what saveState() saves: buffer, knowledge, total, batches, trained, consolidated;
                   \* and forgotten, a history: the experiences whose knowledge a rule has dropped
    interactions,  \* interactionHistory, not saved
    file,          \* pretraining-state.json: a mind, or Torn
    task,
    stale,         \* the file is behind: writes have overlapped, or a query has counted its results
    queries, crashes

vars == <<clock, mind, interactions, file, task, stale, queries, crashes>>

NoMind == [buffer |-> <<>>, knowledge |-> <<>>, total |-> 0, batches |-> 0,
           trained |-> 0, consolidated |-> 0, forgotten |-> {}]
Idle == [pc |-> "idle", input |-> CHOOSE i \in Input : TRUE, feedback |-> "none", type |-> "observation",
         content |-> NoMind, overlapped |-> FALSE]

Init ==
    /\ clock = Max({TrainEvery, ConsolidateEvery})
    /\ mind = NoMind /\ file = NoMind
    /\ interactions = <<>>
    /\ task = [c \in Client |-> Idle]
    /\ stale = FALSE /\ queries = 0 /\ crashes = 0

At(c, label) == task[c].pc = label
Writers == {c \in Client : At(c, "writing")}
LastOf(s, n) == SubSeq(s, Max({1, Len(s) - n + 1}), Len(s))

-----------------------------------------------------------------------------
\* knowledgeBase is a Map: its units in the order of their insertion.
Index(units, concept) == SelectInSeq(units, LAMBDA u : u.concept = concept)
SetUnit(units, u) ==
    IF Index(units, u.concept) = 0 THEN Append(units, u)
    ELSE [units EXCEPT ![Index(units, u.concept)] = u]
DeleteUnit(units, concept) == SelectSeq(units, LAMBDA u : u.concept # concept)
Sources(units) == UNION {ToSet(u.sources) : u \in ToSet(units)}

\* extractKnowledge(): confidence in hundredths.
Reinforced(u, experience) ==
    [u EXCEPT !.confidence = Min({99, @ + 1}), !.used = clock, !.count = @ + 1,
              !.sources = LastOf(Append(@, experience), KeptSources)]
NewUnit(concept, input, experience) ==
    [concept |-> concept, embedding |-> Embedding[input], confidence |-> 50,
     used |-> clock, count |-> 1, sources |-> <<experience>>]

Extracted(units, input, experience) ==
    LET learn(known, w) ==
            SetUnit(known, IF Index(known, w) = 0 THEN NewUnit(w, input, experience)
                           ELSE Reinforced(known[Index(known, w)], experience))
    IN FoldLeft(learn, units, Words[input])

\* consolidateKnowledge(): the decay counts from the last use, every time.
Decayed(u) == [u EXCEPT !.confidence = Max({0, @ - (@ * DecayPercent * (clock - u.used)) \div 100})]
Weak(u) == u.confidence < 10
AfterDecay(units) == SelectSeq([i \in DOMAIN units |-> Decayed(units[i])], LAMBDA u : ~Weak(u))

Similar(u, v) == u.embedding - v.embedding \in -Near..Near

\* Mutation: the experiences of the second concept are lost.
MergedFirst(u, v) ==
    [u EXCEPT !.confidence = Max({u.confidence, v.confidence}), !.used = clock, !.count = u.count + v.count]

\* mergeConcepts()
Merged(u, v) ==
    [u EXCEPT !.embedding = (u.embedding + v.embedding) \div 2,
              !.confidence = Max({u.confidence, v.confidence}),
              !.used = clock, !.count = u.count + v.count,
              !.sources = LastOf(u.sources \o v.sources, KeptSources)]

\* Every pair of similar concepts, as they were before the first merge: what has been merged
\* away comes back when it is first of a pair, and a concept that is first of two pairs keeps
\* what it got from the second only.
AfterMerge(units) ==
    LET pairs == SelectSeq(FlattenSeq([i \in DOMAIN units |-> [j \in DOMAIN units |-> <<i, j>>]]),
                           LAMBDA p : p[1] < p[2] /\ Similar(units[p[1]], units[p[2]]))
        merge(known, p) == DeleteUnit(SetUnit(known, Merged(units[p[1]], units[p[2]])), units[p[2]].concept)
    IN FoldLeft(merge, units, pairs)

\* The concepts whose merges are all overwritten: each concept they were merged into was merged
\* again, with a later one, and they were first of no pair themselves.
Overwritten(units) ==
    LET similar(i, j) == i < j /\ Similar(units[i], units[j])
    IN {units[j] : j \in {n \in DOMAIN units :
          /\ \E i \in DOMAIN units : similar(i, n)
          /\ \A i \in DOMAIN units : similar(i, n) => \E m \in DOMAIN units : m > n /\ similar(i, m)
          /\ \A m \in DOMAIN units : ~similar(n, m)}}

Strengthened(u) == IF u.count > FrequentUse THEN [u EXCEPT !.confidence = Min({99, @ + 5})] ELSE u

Consolidated(units) ==
    LET kept == AfterMerge(AfterDecay(units)) IN [i \in DOMAIN kept |-> Strengthened(kept[i])]

-----------------------------------------------------------------------------
\* processExperience(), up to saveState().
Processed(m, input) ==
    LET experience == m.total + 1
        buffer == LastOf(Append(m.buffer, experience), ReplaySize)
        known == Extracted(m.knowledge, input, experience)
        train == Len(buffer) >= MinSamples /\ clock - m.trained >= TrainEvery
        consolidate == clock - m.consolidated >= ConsolidateEvery
        after == IF consolidate THEN Consolidated(known) ELSE known
        trimmed == IF \E u \in ToSet(after) : Len(u.sources) = KeptSources
                   THEN (Sources(m.knowledge) \cup {experience}) \ Sources(after) ELSE {}
        weak == IF consolidate THEN Sources(known) \ Sources(AfterDecay(known)) ELSE {}
        overwritten == IF consolidate
                       THEN UNION {ToSet(u.sources) : u \in Overwritten(AfterDecay(known))} \ Sources(after)
                       ELSE {}
    IN [buffer |-> buffer, knowledge |-> after, total |-> experience,
        batches |-> IF train THEN m.batches + 1 ELSE m.batches,
        trained |-> IF train THEN clock ELSE m.trained,
        consolidated |-> IF consolidate THEN clock ELSE m.consolidated,
        forgotten |-> m.forgotten \cup trimmed \cup weak \cup overwritten]

\* saveState() keeps the recent experiences only.
Saved(m) == [m EXCEPT !.buffer = LastOf(@, SavedSize)]

\* learnFromInteraction(), learnFromReflection() and learnFromObservation() ask for an embedding.
LearnFrom(c) ==
    /\ At(c, "idle")
    /\ \E i \in Input, type \in {"interaction", "observation"} :
        task' = [task EXCEPT ![c] = [@ EXCEPT !.pc = "embedding", !.input = i, !.type = type]]
    /\ UNCHANGED <<clock, mind, interactions, file, stale, queries, crashes>>

\* provideFeedback() takes an index into the history, and learns the interaction again.
ProvideFeedback(c) ==
    /\ At(c, "idle")
    /\ \E n \in DOMAIN interactions :
        /\ interactions' = [interactions EXCEPT ![n].feedback = "negative"]
        /\ task' = [task EXCEPT ![c] = [@ EXCEPT !.pc = "embedding", !.type = "interaction",
                                                 !.input = interactions[n].input, !.feedback = "negative"]]
    /\ UNCHANGED <<clock, mind, file, stale, queries, crashes>>

EmbeddingFails(c) ==
    /\ At(c, "embedding")
    /\ task' = [task EXCEPT ![c] = Idle]
    /\ UNCHANGED <<clock, mind, interactions, file, stale, queries, crashes>>

ProcessExperience(c) ==
    /\ At(c, "embedding")
    /\ mind.total < MaxTotal
    /\ mind' = Processed(mind, task[c].input)
    /\ file' = Torn
    /\ stale' = (Writers # {})
    /\ task' = [d \in Client |->
                  IF d = c THEN [task[c] EXCEPT !.pc = "writing", !.content = Saved(mind'),
                                                !.overlapped = Writers # {}]
                  ELSE IF d \in Writers THEN [task[d] EXCEPT !.overlapped = TRUE] ELSE task[d]]
    /\ UNCHANGED <<clock, interactions, queries, crashes>>

\* The end of the write, and of learnFromInteraction().
Written(c) ==
    /\ At(c, "writing")
    /\ \/ file' = task[c].content
       \/ task[c].overlapped /\ file' = Torn
    /\ LET all == Append(interactions, [input |-> task[c].input, feedback |-> task[c].feedback])
       IN interactions' = IF task[c].type # "interaction" THEN interactions
                          ELSE IF Len(all) > KeptInteractions THEN LastOf(all, KeptInteractions \div 2) ELSE all
    /\ task' = [task EXCEPT ![c] = Idle]
    /\ UNCHANGED <<clock, mind, stale, queries, crashes>>

\* queryKnowledge() counts its results, and does not save them.
Query ==
    /\ queries < MaxQueries /\ queries' = queries + 1
    /\ \E i \in Input :
        LET found(u) == u.confidence >= 30 /\ Embedding[i] - u.embedding \in -Near..Near
        IN /\ \E u \in ToSet(mind.knowledge) : found(u)
           /\ mind' = [mind EXCEPT !.knowledge = [n \in DOMAIN @ |->
                IF found(@[n]) THEN [@[n] EXCEPT !.count = @ + 1, !.used = clock] ELSE @[n]]]
    /\ stale' = TRUE
    /\ UNCHANGED <<clock, interactions, file, task, crashes>>

Crash ==
    /\ crashes < MaxCrashes /\ crashes' = crashes + 1
    /\ mind' = IF file = Torn THEN NoMind ELSE file
    /\ interactions' = <<>>
    /\ task' = [c \in Client |-> Idle]
    /\ stale' = (file = Torn)
    /\ UNCHANGED <<clock, file, queries>>

Advance ==
    clock < MaxTime /\ clock' = clock + 1
        /\ UNCHANGED <<mind, interactions, file, task, stale, queries, crashes>>

Next ==
    \/ \E c \in Client : LearnFrom(c) \/ ProvideFeedback(c) \/ EmbeddingFails(c) \/ ProcessExperience(c) \/ Written(c)
    \/ Query \/ Crash \/ Advance

-----------------------------------------------------------------------------
TypeOK ==
    /\ Len(mind.buffer) <= ReplaySize
    /\ Len(interactions) <= KeptInteractions
    /\ \A u \in ToSet(mind.knowledge) : u.confidence \in 10..99 /\ Len(u.sources) <= KeptSources
    /\ \A c \in Client : task[c].pc \in {"idle", "embedding", "writing"}

\* The buffer holds the latest experiences, over restarts as well: the file has the end of it.
BufferIsRecent == mind.buffer = [i \in DOMAIN mind.buffer |-> mind.total - Len(mind.buffer) + i]

\* What was learnt from an experience is found in some concept until the concept is too weak,
\* its list of experiences too long, or it is merged into one that is merged again with a later
\* one (which it need not be similar to itself: similarity is not transitive, and each merge
\* starts from the concepts as they were before). A concept is known once.
NothingIsForgotten ==
    /\ 1..mind.total \subseteq Sources(mind.knowledge) \cup mind.forgotten
    /\ IsInjective([i \in DOMAIN mind.knowledge |-> mind.knowledge[i].concept])

\* When no write is under way, none has overlapped and nothing was asked since, a restart finds
\* all but the older experiences.
MindIsSaved == (Writers = {} /\ ~stale) => file = Saved(mind)

KnowledgeIsKept == BufferIsRecent /\ NothingIsForgotten /\ MindIsSaved
=============================================================================
