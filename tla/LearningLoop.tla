----------------------------- MODULE LearningLoop -----------------------------
(***************************************************************************)
(* Learning from a language model (autonomous-learning-loop.ts): what is   *)
(* not known becomes an objective, learn() asks the model about a batch of *)
(* objectives and stores what it says, review() forgets and merges. Every  *)
(* question to the model is an await, and the cycle of the autonomous      *)
(* system starts the next learn() or review() whether or not the last one  *)
(* has ended.                                                              *)
(***************************************************************************)
EXTENDS Naturals, Sequences, FiniteSets, SequencesExt, FiniteSetTheorems, TLAPS

CONSTANTS
    Topic, Related,        \* Related[t]: the concepts the model relates to a topic
    LearningBatchSize, MaxExamples, MaxContent,
    Learner, Reviewer,     \* calls of learn() and review() that may be under way at once
    None, Torn,
    MaxObjectives, MaxKnowledge, MaxReviews, MaxCrashes    \* bounds

VARIABLES
    objectives, knowledge, graph, gaps,   \* the maps of the class; a piece of content is a topic
                                          \* and the number of the example, 0 for the explanation
    file, call, review, up, ids, reviews, crashes,
    learned, forgotten, collided          \* history: content stored, content that review() dropped or cut,
                                          \* whether two entries got one identifier

memory == <<objectives, knowledge, graph, gaps>>
history == <<learned, forgotten, collided>>
vars == <<memory, file, call, review, up, ids, reviews, crashes, history>>

Concepts == Topic \cup UNION {Related[t] : t \in Topic}
Idle == [at |-> "idle", queue |-> <<>>, main |-> None, examples |-> 0, image |-> None]
Resting == [at |-> "idle", seen |-> {}, entry |-> None, primary |-> None, related |-> {}, text |-> {}, image |-> None]
Snapshot == [objectives |-> objectives, knowledge |-> knowledge, graph |-> graph, gaps |-> gaps]
Empty == [objectives |-> <<>>, knowledge |-> <<>>, graph |-> [c \in Concepts |-> {}], gaps |-> {}]

\* saveState() serialises the state at once and writes it later. A write that fails, or that another
\* one overlaps, may leave the old file or a mixture.
SomebodySaves == (\E c \in Learner : call[c].at = "saving") \/ \E r \in Reviewer : review[r].at = "saving"
Written(image) == file' \in {image, file, Torn}

------------------------------------------------------------------------------
(* Objectives *)

NewObjective(t) == [topic |-> t, status |-> "pending"]
SetStatus(i, status) == objectives' = [objectives EXCEPT ![i].status = status]

CreateObjective(t) ==
    /\ up /\ Len(objectives) < MaxObjectives
    /\ objectives' = Append(objectives, NewObjective(t))
    /\ UNCHANGED <<knowledge, graph, gaps, file, call, review, up, ids, reviews, crashes, history>>

\* Every unknown term becomes a gap and an objective, failed reasoning a gap only.
DetectGap(terms) ==
    /\ up /\ Len(objectives) + Cardinality(terms) <= MaxObjectives
    /\ gaps' = gaps \cup terms
    /\ \E order \in [1 .. Cardinality(terms) -> terms] :
          /\ IsInjective(order)
          /\ objectives' = objectives \o [i \in 1 .. Cardinality(terms) |-> NewObjective(order[i])]
    /\ UNCHANGED <<knowledge, graph, file, call, review, up, ids, reviews, crashes, history>>

------------------------------------------------------------------------------
(* learn() *)

Pending == {i \in DOMAIN objectives : objectives[i].status = "pending"}
BatchSize == IF Cardinality(Pending) < LearningBatchSize THEN Cardinality(Pending) ELSE LearningBatchSize
\* The next objective, or the state is saved.
Goes(c, rest) ==
    IF rest = <<>>
    THEN call' = [call EXCEPT ![c] = [Idle EXCEPT !.at = "saving", !.image = Snapshot']]
    ELSE call' = [call EXCEPT ![c] = [Idle EXCEPT !.at = "asking", !.queue = rest]]
Begun(list, rest) == IF rest = <<>> THEN list ELSE [list EXCEPT ![Head(rest)].status = "learning"]

\* Which come first is a matter of their priorities. The batch is chosen once; another call may
\* choose what this one has not come to.
Learn(c) ==
    /\ up /\ call[c].at = "idle"
    /\ UNCHANGED <<knowledge, graph, gaps, file, review, up, ids, reviews, crashes, history>>
    /\ \E batch \in [1 .. BatchSize -> Pending] :
          IsInjective(batch) /\ objectives' = Begun(objectives, batch) /\ Goes(c, batch)

Current(c) == Head(call[c].queue)
TopicOf(c) == objectives[Current(c)].topic

Answered(c) ==
    /\ up /\ call[c].at = "asking"
    /\ \E n \in 0 .. MaxExamples : call' = [call EXCEPT ![c].at = "embedding", ![c].examples = n]
    /\ UNCHANGED <<memory, file, review, up, ids, reviews, crashes, history>>

\* An identifier is the millisecond: a second main entry in it takes the place of the first.
Store(id, entry) ==
    /\ knowledge' = [k \in DOMAIN knowledge \cup {id} |-> IF k = id THEN entry ELSE knowledge[k]]
    /\ collided' = (collided \/ id \in DOMAIN knowledge)
    /\ ids' = IF id > ids THEN id ELSE ids
    /\ learned' = learned \cup entry.content

UpdateKnowledgeGraph(t) ==
    graph' = [x \in Concepts |-> graph[x] \cup (IF x = t THEN Related[t] ELSE {})
                                          \cup (IF x \in Related[t] THEN {t} ELSE {})]

\* After the last entry the graph is updated and the objective is learned, in one step.
Stored(c, left, main) ==
    IF left > 0
    THEN /\ call' = [call EXCEPT ![c].at = "example", ![c].examples = left, ![c].main = main]
         /\ UNCHANGED <<objectives, graph>>
    ELSE /\ call' = [call EXCEPT ![c].at = "insight"]
         /\ UpdateKnowledgeGraph(TopicOf(c))
         /\ SetStatus(Current(c), "learned")

Embedded(c) ==
    /\ up /\ call[c].at = "embedding" /\ ids < MaxKnowledge
    /\ \E id \in {ids + 1} \cup {k \in {ids} \cap DOMAIN knowledge : knowledge[k].of = {}} :
          /\ Store(id, [content |-> {<<TopicOf(c), 0>>}, of |-> {}])
          /\ Stored(c, call[c].examples, id)
    /\ UNCHANGED <<gaps, file, review, up, reviews, crashes, forgotten>>

\* The identifier of an example has a random part.
ExampleEmbedded(c) ==
    /\ up /\ call[c].at = "example" /\ ids < MaxKnowledge
    /\ Store(ids + 1, [content |-> {<<TopicOf(c), call[c].examples>>}, of |-> {call[c].main}])
    /\ Stored(c, call[c].examples - 1, call[c].main)
    /\ UNCHANGED <<gaps, file, review, up, reviews, crashes, forgotten>>

\* The next objective is marked in the step that ends this one.
Ends(c, status) ==
    LET rest == Tail(call[c].queue)
    IN  /\ UNCHANGED <<knowledge, graph, gaps, file, review, up, ids, reviews, crashes, history>>
        /\ objectives' = Begun([objectives EXCEPT ![Current(c)].status = status], rest)
        /\ Goes(c, rest)

\* Whatever fails, be it only the insight into what is stored and marked as learned.
Failed(c) == up /\ call[c].at \in {"asking", "embedding", "example", "insight"} /\ Ends(c, "failed")

InsightTaken(c) == up /\ call[c].at = "insight" /\ Ends(c, objectives[Current(c)].status)

Saved(c) ==
    /\ up /\ call[c].at = "saving"
    /\ call' = [call EXCEPT ![c] = Idle] /\ Written(call[c].image)
    /\ UNCHANGED <<memory, review, up, ids, reviews, crashes, history>>

------------------------------------------------------------------------------
(* review(): the entries of the map, live, with those that are added meanwhile. *)

StartReview(r) ==
    /\ up /\ review[r].at = "idle" /\ reviews < MaxReviews /\ reviews' = reviews + 1
    /\ review' = [review EXCEPT ![r].at = "looking"]
    /\ UNCHANGED <<memory, file, call, up, ids, crashes, history>>

Ahead(r) == DOMAIN knowledge \ review[r].seen
Seen(r, k) == [review EXCEPT ![r].seen = @ \cup {k}]

\* Old and rarely used.
Forget(r, k) ==
    /\ up /\ review[r].at = "looking" /\ k \in Ahead(r)
    /\ forgotten' = forgotten \cup knowledge[k].content
    /\ knowledge' = [j \in DOMAIN knowledge \ {k} |-> knowledge[j]]
    /\ review' = Seen(r, k)
    /\ UNCHANGED <<objectives, graph, gaps, file, call, up, ids, reviews, crashes, learned, collided>>

ContentOf(ks) == UNION {knowledge[k].content : k \in ks}

\* Used lately and close to what it belongs to, it is to be merged with that; an example may be.
\* The text is put together before the await of its embedding.
Look(r, k) ==
    /\ up /\ review[r].at = "looking" /\ k \in Ahead(r)
    /\ LET related == knowledge[k].of \cap DOMAIN knowledge
       IN  \/ review' = Seen(r, k)
           \/ /\ related # {}
              /\ review' = [review EXCEPT ![r] =
                    [at |-> "merging", seen |-> review[r].seen \cup {k}, entry |-> k,
                     primary |-> knowledge[k], related |-> related,
                     text |-> knowledge[k].content \cup ContentOf(related), image |-> None]]
    /\ UNCHANGED <<memory, file, call, up, ids, reviews, crashes, history>>

\* The entry is written as it was before the await, whether or not it is still there: then it comes
\* back at the end of the map, where every review comes to it. Too long a text is cut.
\* The others are deleted whatever they have become.
Consolidate(r) ==
    /\ up /\ review[r].at = "merging"
    /\ LET k == review[r].entry
           back == {k} \ DOMAIN knowledge
       IN  /\ \E kept \in SUBSET review[r].text :
                 /\ Cardinality(review[r].text) <= MaxContent => kept = review[r].text
                 /\ knowledge' = [j \in (DOMAIN knowledge \cup {k}) \ review[r].related |->
                                     IF j = k THEN [review[r].primary EXCEPT !.content = kept] ELSE knowledge[j]]
                 /\ forgotten' = forgotten \cup (review[r].text \ kept)
           /\ review' = [s \in Reviewer |->
                  IF s = r THEN [Resting EXCEPT !.at = "looking", !.seen = review[r].seen \ back]
                  ELSE [review[s] EXCEPT !.seen = @ \ back]]
    /\ UNCHANGED <<objectives, graph, gaps, file, call, up, ids, reviews, crashes, learned, collided>>

ReviewEnds(r) ==
    /\ up /\ review[r].at = "looking" /\ Ahead(r) = {}
    /\ review' = [review EXCEPT ![r] = [Resting EXCEPT !.at = "saving", !.image = Snapshot]]
    /\ UNCHANGED <<memory, file, call, up, ids, reviews, crashes, history>>

ReviewSaved(r) ==
    /\ up /\ review[r].at = "saving"
    /\ review' = [review EXCEPT ![r] = Resting] /\ Written(review[r].image)
    /\ UNCHANGED <<memory, call, up, ids, reviews, crashes, history>>

------------------------------------------------------------------------------
(* Crash and restart *)

Crash ==
    /\ up /\ crashes < MaxCrashes /\ crashes' = crashes + 1 /\ up' = FALSE
    /\ objectives' = <<>> /\ knowledge' = <<>> /\ graph' = Empty.graph /\ gaps' = {}
    /\ call' = [c \in Learner |-> Idle] /\ review' = [r \in Reviewer |-> Resting]
    /\ file' \in (IF SomebodySaves THEN {file, Torn} ELSE {file})
    /\ UNCHANGED <<ids, reviews, history>>

LoadState ==
    /\ ~up /\ up' = TRUE
    /\ LET state == IF file = Torn THEN Empty ELSE file
       IN  /\ objectives' = state.objectives /\ knowledge' = state.knowledge
           /\ graph' = state.graph /\ gaps' = state.gaps
           /\ learned' = UNION {state.knowledge[k].content : k \in DOMAIN state.knowledge}
    /\ UNCHANGED <<file, call, review, ids, reviews, crashes, forgotten, collided>>

Init ==
    /\ objectives = <<>> /\ knowledge = <<>> /\ graph = Empty.graph /\ gaps = {}
    /\ file = Empty /\ up = TRUE /\ ids = 0 /\ reviews = 0 /\ crashes = 0
    /\ call = [c \in Learner |-> Idle] /\ review = [r \in Reviewer |-> Resting]
    /\ learned = {} /\ forgotten = {} /\ collided = FALSE

Next ==
    \/ \E t \in Topic : CreateObjective(t)
    \/ \E terms \in SUBSET Topic \ {{}} : DetectGap(terms)
    \/ \E c \in Learner : \/ Learn(c) \/ Answered(c) \/ Embedded(c) \/ ExampleEmbedded(c)
                          \/ InsightTaken(c) \/ Failed(c) \/ Saved(c)
    \/ \E r \in Reviewer : \/ StartReview(r) \/ Consolidate(r) \/ ReviewEnds(r) \/ ReviewSaved(r)
                           \/ \E k \in DOMAIN knowledge : Forget(r, k) \/ Look(r, k)
    \/ Crash \/ LoadState
Spec == Init /\ [][Next]_vars

TypeOK ==
    /\ \A i \in DOMAIN objectives : objectives[i].status \in {"pending", "learning", "learned", "failed"}
    /\ \A k \in DOMAIN knowledge : k \in 1 .. MaxKnowledge

\* What the model said stays in the knowledge, merged or not, unless a review forgot it or
\* an entry took the identifier of another, however calls of learn() and review() overlap.
\* (integrateKnowledge, consolidateKnowledge)
ContentIsKept ==
    up /\ ~collided => learned \subseteq ContentOf(DOMAIN knowledge) \cup forgotten

\* The graph relates both ways, through overlapping calls and restarts. (updateKnowledgeGraph)
GraphIsSymmetric == \A a, b \in Concepts : b \in graph[a] <=> a \in graph[b]

\* When no call is under way, every objective that was begun has an end, unless a crash cut it off.
ObjectivesEnd ==
    up /\ crashes = 0 /\ (\A c \in Learner : call[c].at \in {"idle", "saving"}) =>
        \A i \in DOMAIN objectives : objectives[i].status # "learning"

\* An objective that is learned has been stored. The converse fails: when only the insight
\* fails, the objective is failed and its content stays.
LearnedIsStored ==
    up /\ ~collided => \A i \in DOMAIN objectives : objectives[i].status = "learned" => <<objectives[i].topic, 0>> \in learned \cup forgotten

LearningIsKept == ContentIsKept /\ GraphIsSymmetric /\ ObjectivesEnd /\ LearnedIsStored

------------------------------------------------------------------------------
(* What was learnt is kept, however calls overlap. Without a collision an     *)
(* entry belongs to what it belonged to from the start, and its content lies  *)
(* between what the model said and that with what it belongs to.              *)

LearningParameters ==
    /\ IsFiniteSet(Topic) /\ Related \in [Topic -> SUBSET Concepts]
    /\ LearningBatchSize \in Nat /\ MaxExamples \in Nat /\ MaxKnowledge \in Nat

Objective == [topic : Topic, status : {"pending", "learning", "learned", "failed"}]
Content == Topic \X Nat
Entry == [content : SUBSET Content, of : SUBSET Nat]
Entries == UNION {[D -> Entry] : D \in SUBSET Nat}
State == [objectives : Seq(Objective), knowledge : Entries, graph : [Concepts -> SUBSET Concepts],
          gaps : SUBSET Topic]

Embeds == {"asking", "embedding", "example"}
Active == Embeds \cup {"insight"}
CallState == [at : Active \cup {"idle", "saving"}, queue : Seq(Nat), main : Nat \cup {None}, examples : Nat,
              image : State \cup {None}]
ReviewState == [at : {"idle", "looking", "merging", "saving"}, seen : SUBSET Nat, entry : Nat \cup {None},
                primary : Entry \cup {None}, related : SUBSET Nat, text : SUBSET Content,
                image : State \cup {None}]

\* The states that are in the file or on their way to it.
Images ==
    ({file} \ {Torn}) \cup {call[c].image : c \in {d \in Learner : call[d].at = "saving"}}
                      \cup {review[r].image : r \in {q \in Reviewer : review[q].at = "saving"}}

IsSymmetric(g) == \A a, b \in Concepts : b \in g[a] <=> a \in g[b]
StateOK(s) == s \in State /\ DOMAIN s.knowledge \subseteq 1 .. ids /\ IsSymmetric(s.graph)

LearnTypes ==
    /\ up \in BOOLEAN /\ collided \in BOOLEAN /\ ids \in 0 .. MaxKnowledge /\ crashes \in Nat
    /\ \A s \in Images \cup {Snapshot} : StateOK(s)
    /\ call \in [Learner -> CallState] /\ review \in [Reviewer -> ReviewState]
    /\ ~up => /\ crashes > 0 /\ objectives = <<>>
              /\ \A c \in Learner : call[c].at = "idle"
              /\ \A r \in Reviewer : review[r].at = "idle"

\* A call has objectives in its queue while it is at one, and a review an entry while it merges.
QueuesOK ==
    \A c \in Learner :
        /\ call[c].at \in Active =>
              call[c].queue # <<>> /\ \A n \in 1 .. Len(call[c].queue) : call[c].queue[n] \in DOMAIN objectives
        /\ call[c].at = "example" => call[c].main \in 1 .. ids

MergesOK ==
    \A r \in Reviewer :
        review[r].at = "merging" => review[r].primary \in Entry /\ review[r].entry \in 1 .. ids

\* Somebody is about to end what is being learnt.
SomebodyLearns ==
    crashes = 0 => \A i \in DOMAIN objectives : objectives[i].status = "learning" =>
        \E c \in Learner : call[c].at \in Embeds /\ Current(c) = i

LearnedOK(list, contents) ==
    \A i \in DOMAIN list : list[i].status = "learned" => <<list[i].topic, 0>> \in contents

ContentIn(entries) == UNION {entries[k].content : k \in DOMAIN entries}

StoredInTime ==
    /\ up => LearnedOK(objectives, learned \cup forgotten) /\ learned \subseteq ContentIn(knowledge) \cup forgotten
    /\ \A s \in Images : LearnedOK(s.objectives, ContentIn(s.knowledge) \cup forgotten)
    /\ \A c \in Learner : call[c].at = "example" => <<TopicOf(c), 0>> \in learned

\* of[k] is what the entry k belongs to, said[k] what the model said.
OriginOK(of, said) ==
    /\ of \in [Nat -> SUBSET Nat] /\ said \in [Nat -> SUBSET Content]
    /\ \A k \in Nat : /\ of[k] \subseteq 1 .. ids /\ (k > ids => of[k] = {})
                      /\ \A j, l \in of[k] : j = l /\ of[j] = {}

Full(of, said, k) == said[k] \cup UNION {said[j] : j \in of[k]}

EntriesAgree(of, said, entries) ==
    \A k \in DOMAIN entries :
        /\ entries[k].of = of[k] /\ entries[k].content \subseteq Full(of, said, k)
        /\ said[k] \subseteq entries[k].content \cup forgotten

CallAgrees(of, k) == k.at = "example" => of[k.main] = {}
ReviewAgrees(of, said, m) ==
    m.at = "merging" =>
        /\ m.primary.of = of[m.entry] /\ m.related = of[m.entry]
        /\ m.text \subseteq Full(of, said, m.entry) /\ Full(of, said, m.entry) \subseteq m.text \cup forgotten

Agree(of, said) ==
    /\ OriginOK(of, said) /\ \A s \in Images \cup {Snapshot} : EntriesAgree(of, said, s.knowledge)
    /\ \A c \in Learner : CallAgrees(of, call[c])
    /\ \A r \in Reviewer : ReviewAgrees(of, said, review[r])

Sayings == [Nat -> SUBSET Content]
Origin == \E of \in [Nat -> SUBSET Nat], said \in Sayings : Agree(of, said)

LearnInv == LearnTypes /\ QueuesOK /\ MergesOK /\ SomebodyLearns /\ (~collided => StoredInTime /\ Origin)

Step(c) == \/ Learn(c) \/ Answered(c) \/ Embedded(c) \/ ExampleEmbedded(c)
           \/ InsightTaken(c) \/ Failed(c) \/ Saved(c)
ReviewStep(r) == \/ StartReview(r) \/ Consolidate(r) \/ ReviewEnds(r) \/ ReviewSaved(r)
                 \/ \E k \in DOMAIN knowledge : Forget(r, k) \/ Look(r, k)

\* What is on its way to the file was on its way before, or is the state.
LEMMA ImagesComeFromMemory ==
    ASSUME LearnTypes, [Next]_vars, NEW s \in Images'
    PROVE  s \in Images \/ s = Snapshot'
<1> USE DEF Images, LearnTypes
<1>1. CASE UNCHANGED <<file, call, review>>
  BY <1>1
<1>2. ASSUME NEW c \in Learner, Step(c) PROVE s \in Images \/ s = Snapshot'
  <2>1. CASE Learn(c) \/ InsightTaken(c) \/ Failed(c)
    <3>1. PICK rest : Goes(c, rest) /\ UNCHANGED <<file, review>>
      BY <2>1 DEF Learn, InsightTaken, Failed, Ends
    <3>2. CASE rest = <<>>
      BY <3>1, <3>2 DEF Goes, Idle
    <3>3. CASE rest # <<>>
      BY <3>1, <3>3 DEF Goes, Idle
    <3> QED BY <3>2, <3>3
  <2>2. CASE Answered(c)
    BY <2>2 DEF Answered
  <2>3. CASE Embedded(c) \/ ExampleEmbedded(c)
    <3>1. PICK left, main : UNCHANGED <<file, review>> /\ Stored(c, left, main)
      BY <2>3 DEF Embedded, ExampleEmbedded
    <3>2. \A d \in Learner : call'[d].at = "saving" => call'[d] = call[d]
      <4>1. CASE left > 0
        BY <3>1, <4>1 DEF Stored, CallState
      <4>2. CASE ~(left > 0)
        BY <3>1, <4>2 DEF Stored, CallState
      <4> QED BY <4>1, <4>2
    <3> QED BY <3>1, <3>2
  <2>4. CASE Saved(c)
    BY <2>4 DEF Saved, Written, Idle
  <2> QED BY <1>2, <2>1, <2>2, <2>3, <2>4 DEF Step
<1>3. ASSUME NEW r \in Reviewer, ReviewStep(r) PROVE s \in Images \/ s = Snapshot'
  <2>1. CASE StartReview(r)
    BY <2>1 DEF StartReview
  <2>2. CASE Consolidate(r)
    <3>1. UNCHANGED <<file, call>>
      BY <2>2 DEF Consolidate
    <3>2. \A q \in Reviewer : review'[q].at = "saving" => review[q].at = "saving" /\ review'[q].image = review[q].image
      <4> TAKE q \in Reviewer
      <4>1. CASE q = r
        BY <2>2, <4>1 DEF Consolidate, Resting
      <4>2. CASE q # r
        <5>1. review'[q] = [review[q] EXCEPT !.seen = review[q].seen \ ({review[r].entry} \ DOMAIN knowledge)]
          BY <2>2, <4>2 DEF Consolidate
        <5> QED BY <5>1 DEF ReviewState
      <4> QED BY <4>1, <4>2
    <3> QED BY <3>1, <3>2
  <2>3. CASE ReviewEnds(r)
    BY <2>3 DEF ReviewEnds, Resting, Snapshot, memory
  <2>4. CASE ReviewSaved(r)
    BY <2>4 DEF ReviewSaved, Resting, Written
  <2>5. CASE \E k \in DOMAIN knowledge : Forget(r, k)
    BY <2>5 DEF Forget, Seen
  <2>6. CASE \E k \in DOMAIN knowledge : Look(r, k)
    <3>1. UNCHANGED <<file, call>> /\ \A q \in Reviewer : review'[q].at = "saving" => review'[q] = review[q]
      BY <2>6 DEF Look, Seen, Resting, ReviewState
    <3> QED BY <3>1
  <2> QED BY <1>3, <2>1, <2>2, <2>3, <2>4, <2>5, <2>6 DEF ReviewStep
<1>4. CASE \E t \in Topic : CreateObjective(t)
  BY <1>1, <1>4 DEF CreateObjective
<1>5. CASE \E terms \in SUBSET Topic \ {{}} : DetectGap(terms)
  BY <1>1, <1>5 DEF DetectGap
<1>6. CASE Crash
  BY <1>6 DEF Crash, Idle, Resting
<1>7. CASE LoadState
  BY <1>1, <1>7 DEF LoadState
<1>8. CASE UNCHANGED vars
  BY <1>1, <1>8 DEF vars
<1> QED BY <1>2, <1>3, <1>4, <1>5, <1>6, <1>7, <1>8 DEF Next, Step, ReviewStep

LEMMA ObjectivesCanBeMarked ==
    ASSUME NEW list \in Seq(Objective), NEW i \in DOMAIN list,
           NEW status \in {"pending", "learning", "learned", "failed"},
           NEW marked, marked = [list EXCEPT ![i].status = status]
    PROVE  /\ marked \in Seq(Objective) /\ DOMAIN marked = DOMAIN list
           /\ \A j \in DOMAIN list : /\ marked[j].topic = list[j].topic
                                     /\ marked[j].status = IF j = i THEN status ELSE list[j].status
<1>1. \A j \in DOMAIN list : list[j] \in Objective
  OBVIOUS
<1>2. /\ DOMAIN marked = DOMAIN list
      /\ \A j \in DOMAIN list : marked[j] = IF j = i THEN [list[i] EXCEPT !.status = status] ELSE list[j]
  OBVIOUS
<1>3. [list[i] EXCEPT !.status = status] \in Objective
  BY <1>1 DEF Objective
<1>4. marked \in Seq(Objective)
  <2>1. marked \in [1 .. Len(list) -> Objective]
    BY <1>1, <1>2, <1>3
  <2> QED BY <2>1
<1> QED BY <1>1, <1>2, <1>3, <1>4 DEF Objective

LEMMA TheNextIsBegun ==
    ASSUME NEW list \in Seq(Objective), NEW rest \in Seq(Nat), \A n \in 1 .. Len(rest) : rest[n] \in DOMAIN list,
           NEW begun, begun = Begun(list, rest)
    PROVE  /\ begun \in Seq(Objective) /\ DOMAIN begun = DOMAIN list
           /\ \A j \in DOMAIN list :
                 /\ begun[j].topic = list[j].topic
                 /\ begun[j].status = IF rest # <<>> /\ j = Head(rest) THEN "learning" ELSE list[j].status
<1>1. CASE rest = <<>>
  BY <1>1 DEF Begun
<1>2. CASE rest # <<>>
  <2>1. Head(rest) \in DOMAIN list /\ begun = [list EXCEPT ![Head(rest)].status = "learning"]
    BY <1>2 DEF Begun
  <2> DEFINE h == Head(rest)
  <2> HIDE DEF h
  <2>2. h \in DOMAIN list /\ begun = [list EXCEPT ![h].status = "learning"]
    BY <2>1 DEF h
  <2> DEFINE status == "learning"
  <2>4. status \in {"pending", "learning", "learned", "failed"} /\ begun = [list EXCEPT ![h].status = status]
    BY <2>2
  <2> HIDE DEF status
  <2>3. /\ begun \in Seq(Objective) /\ DOMAIN begun = DOMAIN list
        /\ \A j \in DOMAIN list : /\ begun[j].topic = list[j].topic
                                  /\ begun[j].status = IF j = h THEN status ELSE list[j].status
    BY <2>2, <2>4, ObjectivesCanBeMarked
  <2> QED BY <1>2, <2>3 DEF h, status
<1> QED BY <1>1, <1>2

LEMMA TypesOfMemory ==
    ASSUME LearnTypes
    PROVE  /\ objectives \in Seq(Objective) /\ knowledge \in Entries /\ DOMAIN knowledge \subseteq 1 .. ids
           /\ graph \in [Concepts -> SUBSET Concepts] /\ IsSymmetric(graph) /\ gaps \subseteq Topic
<1>1. StateOK(Snapshot)
  BY DEF LearnTypes
<1> QED BY <1>1 DEF StateOK, State, Snapshot, IsSymmetric

\* However a call goes on, it marks at most what it was at, and begins the next.
GoesOn(c, list, rest) ==
    /\ objectives' = Begun(list, rest) /\ Goes(c, rest) /\ up
    /\ UNCHANGED <<knowledge, graph, gaps, file, review, up, ids, reviews, crashes, history>>
    /\ DOMAIN list = DOMAIN objectives /\ \A n \in 1 .. Len(rest) : rest[n] \in DOMAIN objectives
    /\ \A j \in DOMAIN objectives :
          /\ list[j].topic = objectives[j].topic
          /\ \/ list[j].status = objectives[j].status /\ ~(call[c].at \in Embeds /\ j = Current(c))
             \/ call[c].at \in Active /\ j = Current(c) /\ list[j].status = "failed"

LEMMA CallsGoOn ==
    ASSUME LearningParameters, LearnTypes, QueuesOK, NEW c \in Learner, Learn(c) \/ InsightTaken(c) \/ Failed(c)
    PROVE  \E list \in Seq(Objective), rest \in Seq(Nat) : GoesOn(c, list, rest)
<1>0. objectives \in Seq(Objective) /\ call[c] \in CallState
  BY TypesOfMemory DEF LearnTypes
<1>1. CASE Learn(c)
  <2>1. PICK batch \in [1 .. BatchSize -> Pending] : objectives' = Begun(objectives, batch) /\ Goes(c, batch)
    BY <1>1 DEF Learn
  <2>2. Pending \subseteq DOMAIN objectives /\ Pending \subseteq Nat
    BY <1>0 DEF Pending
  <2>3. BatchSize \in Nat
    <3>1. IsFiniteSet(1 .. Len(objectives)) /\ Pending \subseteq 1 .. Len(objectives)
      <4>1. Len(objectives) \in Nat /\ DOMAIN objectives = 1 .. Len(objectives)
        BY <1>0
      <4> QED BY <4>1, <2>2, FS_Interval
    <3>2. Cardinality(Pending) \in Nat
      BY <3>1, FS_Subset, FS_CardinalityType
    <3> QED BY <3>2 DEF BatchSize, LearningParameters
  <2>4. batch \in Seq(Nat) /\ Len(batch) = BatchSize /\ \A n \in 1 .. Len(batch) : batch[n] \in DOMAIN objectives
    BY <2>1, <2>2, <2>3
  <2> QED BY <1>0, <1>1, <2>1, <2>4 DEF Learn, GoesOn, Embeds, Active
<1>2. ASSUME NEW status \in {"failed", objectives[Current(c)].status}, up, call[c].at \in Active, Ends(c, status),
             status # "failed" => call[c].at \notin Embeds
      PROVE  \E list \in Seq(Objective), rest \in Seq(Nat) : GoesOn(c, list, rest)
  <2> DEFINE list == [objectives EXCEPT ![Current(c)].status = status]
             rest == Tail(call[c].queue)
  <2>1. call[c].queue \in Seq(Nat) /\ call[c].queue # <<>>
    BY <1>0, <1>2 DEF QueuesOK, CallState
  <2>2. \A n \in 1 .. Len(call[c].queue) : call[c].queue[n] \in DOMAIN objectives
    BY <1>2 DEF QueuesOK
  <2>3. Current(c) \in DOMAIN objectives
    BY <2>1, <2>2 DEF Current
  <2>4. objectives[Current(c)].status \in {"pending", "learning", "learned", "failed"}
    <3>1. objectives[Current(c)] \in Objective
      BY <1>0, <2>3
    <3> QED BY <3>1 DEF Objective
  <2>5. /\ list \in Seq(Objective) /\ DOMAIN list = DOMAIN objectives
        /\ \A j \in DOMAIN objectives : /\ list[j].topic = objectives[j].topic
                                        /\ list[j].status = IF j = Current(c) THEN status ELSE objectives[j].status
    <3> HIDE DEF list
    <3>1. list = [objectives EXCEPT ![Current(c)].status = status]
      BY DEF list
    <3> QED BY <1>0, <1>2, <2>3, <2>4, <3>1, ObjectivesCanBeMarked
  <2>6. rest \in Seq(Nat) /\ \A n \in 1 .. Len(rest) : rest[n] \in DOMAIN objectives
    BY <2>1, <2>2
  <2>7. /\ objectives' = Begun(list, rest) /\ Goes(c, rest)
        /\ UNCHANGED <<knowledge, graph, gaps, file, review, up, ids, reviews, crashes, history>>
    BY <1>2 DEF Ends
  <2> HIDE DEF list, rest
  <2>8. GoesOn(c, list, rest)
    BY <1>2, <2>5, <2>6, <2>7 DEF GoesOn
  <2> QED BY <2>5, <2>6, <2>8
<1>3. CASE InsightTaken(c)
  BY <1>2, <1>3 DEF InsightTaken, Active, Embeds
<1>4. CASE Failed(c)
  BY <1>2, <1>4 DEF Failed, Active, Embeds
<1> QED BY <1>1, <1>3, <1>4

LEMMA EntriesAreMaps ==
    ASSUME NEW entries
    PROVE  entries \in Entries <=> DOMAIN entries \subseteq Nat /\ entries \in [DOMAIN entries -> Entry]
  BY DEF Entries

\* An entry is stored as the main one of its objective, or as an example of one.
StoresEntry(c, id, entry, left, main) ==
    /\ up /\ up' /\ Store(id, entry) /\ Stored(c, left, main)
    /\ UNCHANGED <<gaps, file, review, reviews, crashes, forgotten>>
    /\ Current(c) \in DOMAIN objectives /\ TopicOf(c) \in Topic
    /\ entry \in Entry /\ id \in Nat /\ main \in Nat /\ left \in Int
    /\ \/ /\ call[c].at = "embedding" /\ main = id /\ left = call[c].examples
          /\ entry = [content |-> {<<TopicOf(c), 0>>}, of |-> {}]
          /\ id = ids + 1 \/ (id \in DOMAIN knowledge /\ id = ids)
       \/ /\ call[c].at = "example" /\ main = call[c].main /\ left = call[c].examples - 1 /\ id = ids + 1
          /\ entry = [content |-> {<<TopicOf(c), call[c].examples>>}, of |-> {main}]
    /\ id \in 1 .. MaxKnowledge /\ ids' \in ids .. MaxKnowledge /\ id <= ids'

LEMMA EntriesAreStored ==
    ASSUME LearningParameters, LearnTypes, QueuesOK, NEW c \in Learner, Embedded(c) \/ ExampleEmbedded(c)
    PROVE  \E id, entry, left, main : StoresEntry(c, id, entry, left, main)
<1>1. /\ objectives \in Seq(Objective) /\ call[c] \in CallState /\ up \in BOOLEAN /\ DOMAIN knowledge \subseteq 1 .. ids
      /\ MaxKnowledge \in Nat /\ ids \in 0 .. MaxKnowledge
  BY TypesOfMemory DEF LearnTypes, LearningParameters
<1>2. call[c].at \in {"embedding", "example"} /\ up /\ up' /\ ids < MaxKnowledge
  BY DEF Embedded, ExampleEmbedded
<1>3. Current(c) \in DOMAIN objectives
  <2>1. call[c].queue \in Seq(Nat) /\ call[c].queue # <<>> /\ call[c].queue[1] \in DOMAIN objectives
    BY <1>1, <1>2 DEF QueuesOK, CallState, Active, Embeds
  <2> QED BY <2>1 DEF Current
<1>4. TopicOf(c) \in Topic
  <2>1. objectives[Current(c)] \in Objective
    BY <1>1, <1>3
  <2> QED BY <2>1 DEF Objective, TopicOf
<1>5. CASE Embedded(c)
  <2> DEFINE entry == [content |-> {<<TopicOf(c), 0>>}, of |-> {}]
  <2>1. PICK id \in {ids + 1} \cup {k \in {ids} \cap DOMAIN knowledge : knowledge[k].of = {}} :
           Store(id, entry) /\ Stored(c, call[c].examples, id)
    BY <1>5 DEF Embedded
  <2>2. entry \in Entry
    BY <1>4 DEF Entry, Content
  <2>3. id \in 1 .. MaxKnowledge /\ ids' \in ids .. MaxKnowledge /\ id <= ids'
    BY <1>1, <1>2, <2>1 DEF Store
  <2>4. call[c].examples \in Nat
    BY <1>1 DEF CallState
  <2>5. call[c].at = "embedding" /\ UNCHANGED <<gaps, file, review, reviews, crashes, forgotten>>
    BY <1>5 DEF Embedded
  <2> HIDE DEF entry
  <2>6. StoresEntry(c, id, entry, call[c].examples, id)
    BY <1>1, <1>2, <1>3, <1>4, <2>1, <2>2, <2>3, <2>4, <2>5 DEF StoresEntry, entry
  <2> QED BY <2>6
<1>6. CASE ExampleEmbedded(c)
  <2> DEFINE entry == [content |-> {<<TopicOf(c), call[c].examples>>}, of |-> {call[c].main}]
  <2>1. Store(ids + 1, entry) /\ Stored(c, call[c].examples - 1, call[c].main)
    BY <1>6 DEF ExampleEmbedded
  <2>2. call[c].examples \in Nat /\ call[c].main \in Nat /\ call[c].at = "example"
    BY <1>1, <1>6 DEF CallState, QueuesOK, ExampleEmbedded
  <2>3. entry \in Entry
    BY <1>4, <2>2 DEF Entry, Content
  <2>4. ids' \in ids .. MaxKnowledge /\ ids + 1 <= ids' /\ ids + 1 \in 1 .. MaxKnowledge
    BY <1>1, <1>2, <2>1 DEF Store
  <2>5. UNCHANGED <<gaps, file, review, reviews, crashes, forgotten>>
    BY <1>6 DEF ExampleEmbedded
  <2> HIDE DEF entry
  <2>6. StoresEntry(c, ids + 1, entry, call[c].examples - 1, call[c].main)
    BY <1>1, <1>2, <1>3, <1>4, <2>1, <2>2, <2>3, <2>4, <2>5 DEF StoresEntry, entry
  <2> QED BY <2>6
<1> QED BY <1>5, <1>6

LEMMA GraphStaysSymmetric ==
    ASSUME LearningParameters, LearnTypes, NEW t \in Topic, UpdateKnowledgeGraph(t)
    PROVE  graph' \in [Concepts -> SUBSET Concepts] /\ IsSymmetric(graph')
<1>1. graph \in [Concepts -> SUBSET Concepts] /\ IsSymmetric(graph)
  BY TypesOfMemory
<1>2. t \in Concepts /\ Related[t] \in SUBSET Concepts
  BY DEF LearningParameters, Concepts
<1>3. \A x \in Concepts : graph'[x] = graph[x] \cup (IF x = t THEN Related[t] ELSE {})
                                               \cup (IF x \in Related[t] THEN {t} ELSE {})
  BY DEF UpdateKnowledgeGraph
<1>4. graph' \in [Concepts -> SUBSET Concepts]
  BY <1>1, <1>2, <1>3 DEF UpdateKnowledgeGraph
<1>5. IsSymmetric(graph')
  BY <1>1, <1>2, <1>3 DEF IsSymmetric
<1> QED BY <1>4, <1>5

MemoryOK ==
    /\ objectives \in Seq(Objective) /\ knowledge \in Entries /\ DOMAIN knowledge \subseteq 1 .. ids
    /\ graph \in [Concepts -> SUBSET Concepts] /\ IsSymmetric(graph) /\ gaps \subseteq Topic

LEMMA EmptyIsOK == ASSUME ids \in Nat PROVE StateOK(Empty)
<1>1. Empty.knowledge \in Entries
  <2>1. Empty.knowledge \in [{} -> Entry] /\ DOMAIN Empty.knowledge = {}
    BY DEF Empty
  <2> QED BY <2>1, EntriesAreMaps
<1> QED BY <1>1 DEF Empty, StateOK, State, IsSymmetric

LEMMA MemoryStaysTyped ==
    ASSUME LearningParameters, LearnTypes, QueuesOK, MergesOK, Next
    PROVE  MemoryOK' /\ ids' \in ids .. MaxKnowledge
<1>0. /\ MemoryOK /\ ids \in 0 .. MaxKnowledge /\ MaxKnowledge \in Nat
      /\ call \in [Learner -> CallState] /\ review \in [Reviewer -> ReviewState]
  BY TypesOfMemory DEF LearnTypes, LearningParameters, MemoryOK
<1>1. CASE UNCHANGED <<memory, ids>>
  BY <1>0, <1>1 DEF memory, MemoryOK
<1>2. ASSUME NEW t \in Topic, CreateObjective(t) PROVE MemoryOK' /\ ids' \in ids .. MaxKnowledge
  <2>1. NewObjective(t) \in Objective
    BY DEF NewObjective, Objective
  <2> QED BY <1>0, <1>2, <2>1 DEF CreateObjective, MemoryOK
<1>3. ASSUME NEW terms \in SUBSET Topic, DetectGap(terms) PROVE MemoryOK' /\ ids' \in ids .. MaxKnowledge
  <2> DEFINE n == Cardinality(terms)
  <2>1. n \in Nat
    BY FS_Subset, FS_CardinalityType DEF LearningParameters
  <2> HIDE DEF n
  <2>2. PICK order \in [1 .. n -> terms] : objectives' = objectives \o [i \in 1 .. n |-> NewObjective(order[i])]
    BY <1>3 DEF DetectGap, n
  <2> DEFINE new == [i \in 1 .. n |-> NewObjective(order[i])]
  <2>3. \A i \in 1 .. n : NewObjective(order[i]) \in Objective
    BY <2>2 DEF NewObjective, Objective
  <2>4. new \in Seq(Objective)
    BY <2>1, <2>3
  <2> HIDE DEF new
  <2>5. objectives' = objectives \o new
    BY <2>2 DEF new
  <2>6. objectives' \in Seq(Objective)
    BY <1>0, <2>4, <2>5 DEF MemoryOK
  <2> QED BY <1>0, <1>3, <2>6 DEF DetectGap, MemoryOK
<1>4. ASSUME NEW c \in Learner, Step(c) PROVE MemoryOK' /\ ids' \in ids .. MaxKnowledge
  <2>1. CASE Learn(c) \/ InsightTaken(c) \/ Failed(c)
    <3>1. PICK list \in Seq(Objective), rest \in Seq(Nat) : GoesOn(c, list, rest)
      BY <2>1, CallsGoOn
    <3>2. objectives' \in Seq(Objective)
      BY <3>1, TheNextIsBegun DEF GoesOn
    <3> QED BY <1>0, <3>1, <3>2 DEF GoesOn, MemoryOK
  <2>2. CASE Answered(c) \/ Saved(c)
    BY <1>1, <2>2 DEF Answered, Saved
  <2>3. CASE Embedded(c) \/ ExampleEmbedded(c)
    <3>1. PICK id, entry, left, main : StoresEntry(c, id, entry, left, main)
      BY <2>3, EntriesAreStored
    <3>2. knowledge' \in Entries /\ DOMAIN knowledge' \subseteq 1 .. ids'
      <4>1. DOMAIN knowledge' = DOMAIN knowledge \cup {id}
        BY <3>1 DEF StoresEntry, Store
      <4>2. \A k \in DOMAIN knowledge' : knowledge'[k] \in Entry
        BY <1>0, <3>1, EntriesAreMaps DEF StoresEntry, Store, MemoryOK
      <4>3. DOMAIN knowledge \subseteq 1 .. ids /\ id \in 1 .. ids' /\ ids \in Nat /\ ids <= ids' /\ ids' \in Nat
        BY <1>0, <3>1 DEF StoresEntry, MemoryOK
      <4>4. knowledge' \in [DOMAIN knowledge' -> Entry]
        BY <4>2, <3>1 DEF StoresEntry, Store
      <4> QED BY <4>1, <4>3, <4>4, EntriesAreMaps
    <3>3. graph' \in [Concepts -> SUBSET Concepts] /\ IsSymmetric(graph')
      <4>1. CASE UNCHANGED graph
        BY <1>0, <4>1 DEF MemoryOK
      <4>2. CASE UpdateKnowledgeGraph(TopicOf(c))
        BY <3>1, <4>2, GraphStaysSymmetric DEF StoresEntry
      <4> QED BY <3>1, <4>1, <4>2 DEF StoresEntry, Stored
    <3>4. objectives' \in Seq(Objective)
      <4> DEFINE i == Current(c)
                 status == "learned"
      <4>0. i \in DOMAIN objectives /\ status \in {"pending", "learning", "learned", "failed"}
        BY <3>1 DEF StoresEntry
      <4>1. UNCHANGED objectives \/ objectives' = [objectives EXCEPT ![i].status = status]
        BY <3>1 DEF StoresEntry, Stored, SetStatus
      <4> HIDE DEF i, status
      <4> QED BY <1>0, <4>0, <4>1, ObjectivesCanBeMarked DEF MemoryOK
    <3>5. ids' \in ids .. MaxKnowledge /\ UNCHANGED gaps
      BY <3>1 DEF StoresEntry
    <3> QED BY <1>0, <3>2, <3>3, <3>4, <3>5 DEF MemoryOK
  <2> QED BY <1>4, <2>1, <2>2, <2>3 DEF Step
<1>5. ASSUME NEW r \in Reviewer, ReviewStep(r) PROVE MemoryOK' /\ ids' \in ids .. MaxKnowledge
  <2>1. CASE StartReview(r) \/ ReviewEnds(r) \/ ReviewSaved(r) \/ \E k \in DOMAIN knowledge : Look(r, k)
    BY <1>1, <2>1 DEF StartReview, ReviewEnds, ReviewSaved, Look
  <2>2. ASSUME NEW k \in DOMAIN knowledge, Forget(r, k) PROVE MemoryOK' /\ ids' \in ids .. MaxKnowledge
    <3>1. DOMAIN knowledge' \subseteq DOMAIN knowledge /\ knowledge' \in [DOMAIN knowledge' -> Entry]
      BY <1>0, <2>2, EntriesAreMaps DEF Forget, MemoryOK
    <3>2. knowledge' \in Entries
      BY <1>0, <3>1, EntriesAreMaps DEF MemoryOK
    <3> QED BY <1>0, <2>2, <3>1, <3>2 DEF Forget, MemoryOK
  <2>3. CASE Consolidate(r)
    <3>1. review[r].primary \in Entry /\ review[r].entry \in 1 .. ids /\ review[r].text \subseteq Content
      BY <1>0, <2>3 DEF Consolidate, MergesOK, ReviewState
    <3>2. PICK kept \in SUBSET review[r].text :
             knowledge' = [j \in (DOMAIN knowledge \cup {review[r].entry}) \ review[r].related |->
                              IF j = review[r].entry THEN [review[r].primary EXCEPT !.content = kept] ELSE knowledge[j]]
      BY <2>3 DEF Consolidate
    <3>3. [review[r].primary EXCEPT !.content = kept] \in Entry
      BY <3>1 DEF Entry
    <3>4. \A j \in DOMAIN knowledge : knowledge[j] \in Entry
      BY <1>0, EntriesAreMaps DEF MemoryOK
    <3>5. DOMAIN knowledge' \subseteq 1 .. ids /\ knowledge' \in [DOMAIN knowledge' -> Entry]
      BY <1>0, <3>1, <3>2, <3>3, <3>4 DEF MemoryOK
    <3>6. knowledge' \in Entries
      BY <1>0, <3>5, EntriesAreMaps
    <3> QED BY <1>0, <2>3, <3>5, <3>6 DEF Consolidate, MemoryOK
  <2> QED BY <1>5, <2>1, <2>2, <2>3 DEF ReviewStep
<1>6. ASSUME NEW state, StateOK(state), objectives' = state.objectives, knowledge' = state.knowledge,
             graph' = state.graph, gaps' = state.gaps, UNCHANGED ids
      PROVE  MemoryOK' /\ ids' \in ids .. MaxKnowledge
  BY <1>0, <1>6 DEF StateOK, State, MemoryOK, IsSymmetric
<1>7. StateOK(Empty)
  BY <1>0, EmptyIsOK
<1>8. CASE Crash
  <2>1. objectives' = Empty.objectives /\ knowledge' = Empty.knowledge /\ graph' = Empty.graph /\ gaps' = Empty.gaps
    BY <1>8 DEF Crash, Empty
  <2> HIDE DEF Empty
  <2> QED BY <1>6, <1>7, <1>8, <2>1 DEF Crash
<1>9. CASE LoadState
  <2>1. CASE file = Torn
    BY <1>6, <1>7, <1>9, <2>1 DEF LoadState
  <2>2. CASE file # Torn
    <3>1. StateOK(file)
      BY <2>2 DEF LearnTypes, Images
    <3> QED BY <1>6, <1>9, <2>2, <3>1 DEF LoadState
  <2> QED BY <2>1, <2>2
<1> QED BY <1>2, <1>3, <1>4, <1>5, <1>8, <1>9 DEF Next, Step, ReviewStep

LEMMA CallsStayTyped ==
    ASSUME LearningParameters, LearnTypes, QueuesOK, MergesOK, Next
    PROVE  call' \in [Learner -> CallState]
<1>0. call \in [Learner -> CallState] /\ Snapshot' \in State
  BY MemoryStaysTyped DEF LearnTypes, MemoryOK, Snapshot, State
<1>1. CASE UNCHANGED call
  BY <1>0, <1>1
<1>2. ASSUME NEW c \in Learner, Step(c) PROVE call' \in [Learner -> CallState]
  <2>1. CASE Learn(c) \/ InsightTaken(c) \/ Failed(c)
    <3>1. PICK list \in Seq(Objective), rest \in Seq(Nat) : GoesOn(c, list, rest)
      BY <2>1, CallsGoOn
    <3>2. [Idle EXCEPT !.at = "saving", !.image = Snapshot'] \in CallState
      <4>1. Idle \in CallState
        BY DEF Idle, CallState
      <4>2. \A k \in CallState, s \in State : [k EXCEPT !.at = "saving", !.image = s] \in CallState
        BY DEF CallState
      <4> QED BY <1>0, <4>1, <4>2
    <3>3. [Idle EXCEPT !.at = "asking", !.queue = rest] \in CallState
      BY DEF Idle, CallState, Active, Embeds
    <3>4. call' = [call EXCEPT ![c] = [Idle EXCEPT !.at = "saving", !.image = Snapshot']]
          \/ call' = [call EXCEPT ![c] = [Idle EXCEPT !.at = "asking", !.queue = rest]]
      BY <3>1 DEF GoesOn, Goes
    <3> QED BY <1>0, <3>2, <3>3, <3>4
  <2>2. CASE Answered(c)
    <3>1. PICK n \in 0 .. MaxExamples : call' = [call EXCEPT ![c].at = "embedding", ![c].examples = n]
      BY <2>2 DEF Answered
    <3>2. [call[c] EXCEPT !.at = "embedding", !.examples = n] \in CallState
      <4>1. call[c] \in CallState /\ n \in Nat
        BY <1>0, <3>1 DEF LearningParameters
      <4>2. "embedding" \in Active
        BY DEF Active, Embeds
      <4> QED BY <4>1, <4>2 DEF CallState
    <3>3. call' = [call EXCEPT ![c] = [call[c] EXCEPT !.at = "embedding", !.examples = n]]
      BY <3>1
    <3> QED BY <1>0, <3>2, <3>3
  <2>3. CASE Saved(c)
    <3>1. Idle \in CallState /\ call' = [call EXCEPT ![c] = Idle]
      BY <2>3 DEF Saved, Idle, CallState
    <3> QED BY <1>0, <3>1
  <2>4. CASE Embedded(c) \/ ExampleEmbedded(c)
    <3>1. PICK id, entry, left, main : StoresEntry(c, id, entry, left, main)
      BY <2>4, EntriesAreStored
    <3>2. \/ left > 0 /\ call' = [call EXCEPT ![c].at = "example", ![c].examples = left, ![c].main = main]
          \/ call' = [call EXCEPT ![c].at = "insight"]
      BY <3>1 DEF StoresEntry, Stored
    <3>3. main \in Nat /\ left \in Int
      BY <3>1 DEF StoresEntry
    <3>4. [call[c] EXCEPT !.at = "insight"] \in CallState
      BY <1>0 DEF CallState, Active, Embeds
    <3>5. left > 0 => [call[c] EXCEPT !.at = "example", !.examples = left, !.main = main] \in CallState
      <4>1. call[c] \in CallState
        BY <1>0
      <4>2. "example" \in Active
        BY DEF Active, Embeds
      <4>3. \A k \in CallState, l \in Nat, m \in Nat :
               [k EXCEPT !.at = "example", !.examples = l, !.main = m] \in CallState
        BY <4>2 DEF CallState
      <4>4. left > 0 => left \in Nat
        BY <3>3
      <4> QED BY <3>3, <4>1, <4>3, <4>4
    <3>6. \/ left > 0 /\ call' = [call EXCEPT ![c] = [call[c] EXCEPT !.at = "example", !.examples = left, !.main = main]]
          \/ call' = [call EXCEPT ![c] = [call[c] EXCEPT !.at = "insight"]]
      BY <3>2
    <3> QED BY <1>0, <3>4, <3>5, <3>6
  <2> QED BY <1>2, <2>1, <2>2, <2>3, <2>4 DEF Step
<1>3. ASSUME NEW r \in Reviewer, ReviewStep(r) PROVE call' \in [Learner -> CallState]
  BY <1>1, <1>3 DEF ReviewStep, StartReview, Forget, Look, Consolidate, ReviewEnds, ReviewSaved
<1>4. CASE Crash
  <2>1. Idle \in CallState /\ call' = [c \in Learner |-> Idle]
    BY <1>4 DEF Crash, Idle, CallState
  <2> QED BY <2>1
<1> QED BY <1>1, <1>2, <1>3, <1>4 DEF Next, Step, ReviewStep, CreateObjective, DetectGap, LoadState

LEMMA ReviewsStayTyped ==
    ASSUME LearningParameters, LearnTypes, QueuesOK, MergesOK, Next
    PROVE  review' \in [Reviewer -> ReviewState]
<1>0. review \in [Reviewer -> ReviewState] /\ Snapshot' \in State /\ MemoryOK /\ ids \in Nat
  BY MemoryStaysTyped, TypesOfMemory DEF LearnTypes, MemoryOK, Snapshot, State
<1>1. CASE UNCHANGED review
  BY <1>0, <1>1
<1>2. ASSUME NEW c \in Learner, Step(c) PROVE UNCHANGED review
  <2>1. CASE Embedded(c) \/ ExampleEmbedded(c) \/ Answered(c) \/ Saved(c)
    BY <2>1 DEF Embedded, ExampleEmbedded, Answered, Saved
  <2>2. CASE Learn(c) \/ InsightTaken(c) \/ Failed(c)
    BY <2>2 DEF Learn, InsightTaken, Failed, Ends
  <2> QED BY <1>2, <2>1, <2>2 DEF Step
<1>3. ASSUME NEW r \in Reviewer, ReviewStep(r) PROVE review' \in [Reviewer -> ReviewState]
  <2>1. CASE StartReview(r)
    BY <1>0, <2>1 DEF StartReview, ReviewState
  <2>2. ASSUME NEW k \in DOMAIN knowledge, Forget(r, k) \/ Look(r, k) PROVE review' \in [Reviewer -> ReviewState]
    <3>1. k \in Nat /\ knowledge[k] \in Entry
      BY <1>0, EntriesAreMaps DEF MemoryOK
    <3>2. Seen(r, k) \in [Reviewer -> ReviewState]
      BY <1>0, <3>1 DEF Seen, ReviewState
    <3> DEFINE related == knowledge[k].of \cap DOMAIN knowledge
               merging == [at |-> "merging", seen |-> review[r].seen \cup {k}, entry |-> k,
                           primary |-> knowledge[k], related |-> related,
                           text |-> knowledge[k].content \cup ContentOf(related), image |-> None]
    <3>3. merging \in ReviewState
      <4>1. related \subseteq Nat /\ review[r].seen \cup {k} \subseteq Nat
        BY <1>0, <3>1 DEF MemoryOK, ReviewState
      <4>2. knowledge[k].content \cup ContentOf(related) \subseteq Content
        <5>1. \A j \in DOMAIN knowledge : knowledge[j].content \subseteq Content
          BY <1>0, EntriesAreMaps DEF MemoryOK, Entry
        <5> QED BY <5>1 DEF ContentOf
      <4> QED BY <3>1, <4>1, <4>2 DEF ReviewState
    <3>4. review' = Seen(r, k) \/ review' = [review EXCEPT ![r] = merging]
      BY <2>2 DEF Forget, Look
    <3> HIDE DEF merging
    <3> QED BY <1>0, <3>2, <3>3, <3>4
  <2>3. CASE Consolidate(r)
    <3> DEFINE back == {review[r].entry} \ DOMAIN knowledge
    <3>1. /\ DOMAIN review' = Reviewer
          /\ \A s \in Reviewer : review'[s] = IF s = r THEN [Resting EXCEPT !.at = "looking", !.seen = review[r].seen \ back]
                                                       ELSE [review[s] EXCEPT !.seen = @ \ back]
          /\ review' = [s \in Reviewer |-> review'[s]]
      BY <2>3 DEF Consolidate
    <3> HIDE DEF back
    <3>2. \A s \in Reviewer : [review[s] EXCEPT !.seen = @ \ back] \in ReviewState
      BY <1>0 DEF ReviewState
    <3>3. [Resting EXCEPT !.at = "looking", !.seen = review[r].seen \ back] \in ReviewState
      BY <1>0 DEF ReviewState, Resting
    <3>4. \A s \in Reviewer : review'[s] \in ReviewState
      BY <3>1, <3>2, <3>3
    <3> QED BY <3>1, <3>4
  <2>4. CASE ReviewEnds(r)
    <3>1. [Resting EXCEPT !.at = "saving", !.image = Snapshot] \in ReviewState /\ Snapshot = Snapshot'
      BY <1>0, <2>4 DEF ReviewEnds, Resting, ReviewState, Snapshot, memory
    <3> QED BY <1>0, <2>4, <3>1 DEF ReviewEnds
  <2>5. CASE ReviewSaved(r)
    <3>1. Resting \in ReviewState /\ review' = [review EXCEPT ![r] = Resting]
      BY <2>5 DEF ReviewSaved, Resting, ReviewState
    <3> QED BY <1>0, <3>1
  <2> QED BY <1>3, <2>1, <2>2, <2>3, <2>4, <2>5 DEF ReviewStep
<1>4. CASE Crash
  <2>1. Resting \in ReviewState /\ review' = [r \in Reviewer |-> Resting]
    BY <1>4 DEF Crash, Resting, ReviewState
  <2> QED BY <2>1
<1> QED BY <1>1, <1>2, <1>3, <1>4 DEF Next, Step, ReviewStep, CreateObjective, DetectGap, LoadState

LEMMA LearnTypesAreKept ==
    ASSUME LearningParameters, LearnTypes, QueuesOK, MergesOK, Next
    PROVE  LearnTypes'
<1>1. MemoryOK' /\ ids' \in ids .. MaxKnowledge /\ ids \in 0 .. MaxKnowledge /\ MaxKnowledge \in Nat
  BY MemoryStaysTyped DEF LearnTypes, LearningParameters
<1>2. StateOK(Snapshot)'
  BY <1>1 DEF MemoryOK, StateOK, State, Snapshot, IsSymmetric
<1>3. ASSUME NEW s \in Images' \cup {Snapshot'} PROVE StateOK(s)'
  <2>1. CASE s = Snapshot'
    BY <1>2, <2>1 DEF StateOK
  <2>2. CASE s \in Images \cup {Snapshot}
    <3>1. StateOK(s)
      BY <2>2 DEF LearnTypes
    <3> QED BY <1>1, <3>1 DEF StateOK
  <2> QED BY <2>1, <2>2, <1>3, ImagesComeFromMemory
<1>4. up' \in BOOLEAN /\ collided' \in BOOLEAN /\ crashes' \in Nat
      /\ (~up' => crashes' > 0 /\ objectives' = <<>> /\ (\A c \in Learner : call'[c].at = "idle")
                                                    /\ (\A r \in Reviewer : review'[r].at = "idle"))
  <2>0. up \in BOOLEAN /\ collided \in BOOLEAN /\ crashes \in Nat
    BY DEF LearnTypes
  <2>1. CASE Crash
    <3>1. up' = FALSE /\ UNCHANGED collided /\ crashes' = crashes + 1 /\ objectives' = <<>>
      BY <2>1 DEF Crash, history
    <3>2. (\A c \in Learner : call'[c].at = "idle") /\ \A r \in Reviewer : review'[r].at = "idle"
      BY <2>1 DEF Crash, Idle, Resting
    <3>3. crashes' \in Nat /\ crashes' > 0
      BY <2>0, <3>1
    <3> QED BY <2>0, <3>1, <3>2, <3>3, Zenon
  <2>2. CASE LoadState
    BY <2>0, <2>2 DEF LoadState
  <2>3. ASSUME NEW c \in Learner, Step(c) PROVE UNCHANGED crashes /\ up' /\ collided' \in BOOLEAN
    <3>1. CASE Learn(c) \/ InsightTaken(c) \/ Failed(c) \/ Answered(c) \/ Saved(c)
      BY <2>0, <3>1 DEF Learn, InsightTaken, Failed, Ends, Answered, Saved, history
    <3>2. CASE Embedded(c) \/ ExampleEmbedded(c)
      BY <2>0, <3>2 DEF Embedded, ExampleEmbedded, Store
    <3> QED BY <2>3, <3>1, <3>2 DEF Step
  <2>4. ASSUME NEW r \in Reviewer, ReviewStep(r) PROVE UNCHANGED crashes /\ up' /\ collided' \in BOOLEAN
    BY <2>0, <2>4 DEF ReviewStep, StartReview, Forget, Look, Consolidate, ReviewEnds, ReviewSaved, history
  <2>5. ASSUME (\E t \in Topic : CreateObjective(t)) \/ \E terms \in SUBSET Topic : DetectGap(terms)
        PROVE  UNCHANGED crashes /\ up' /\ collided' \in BOOLEAN
    BY <2>0, <2>5 DEF CreateObjective, DetectGap, history
  <2> QED BY <2>0, <2>1, <2>2, <2>3, <2>4, <2>5 DEF Next, Step, ReviewStep
<1>5. ids' \in 0 .. MaxKnowledge
  BY <1>1
<1>6. call' \in [Learner -> CallState] /\ review' \in [Reviewer -> ReviewState]
  BY CallsStayTyped, ReviewsStayTyped
<1> QED BY <1>3, <1>4, <1>5, <1>6 DEF LearnTypes

LEMMA QueuesStayOK ==
    ASSUME LearningParameters, LearnTypes, QueuesOK, MergesOK, Next
    PROVE  QueuesOK' /\ MergesOK'
<1>0. /\ MemoryOK /\ ids \in Nat /\ ids' \in Nat /\ ids <= ids' /\ 1 .. ids \subseteq 1 .. ids'
      /\ call \in [Learner -> CallState] /\ review \in [Reviewer -> ReviewState]
  <2>1. ids \in 0 .. MaxKnowledge /\ MaxKnowledge \in Nat /\ ids' \in ids .. MaxKnowledge
    BY MemoryStaysTyped DEF LearnTypes, LearningParameters
  <2> QED BY <2>1, TypesOfMemory DEF LearnTypes, MemoryOK
\* The list of objectives only grows, and what is in a queue stays in it.
<1>1. ASSUME UNCHANGED call, DOMAIN objectives \subseteq DOMAIN objectives' PROVE QueuesOK'
  BY <1>0, <1>1 DEF QueuesOK
<1>2. ASSUME UNCHANGED review PROVE MergesOK'
  BY <1>0, <1>2 DEF MergesOK
<1>3. ASSUME NEW t \in Topic, CreateObjective(t) PROVE QueuesOK' /\ MergesOK'
  <2>1. DOMAIN objectives \subseteq DOMAIN objectives'
    BY <1>0, <1>3 DEF CreateObjective, MemoryOK
  <2> QED BY <1>1, <1>2, <1>3, <2>1 DEF CreateObjective
<1>4. ASSUME NEW terms \in SUBSET Topic, DetectGap(terms) PROVE QueuesOK' /\ MergesOK'
  <2>1. DOMAIN objectives \subseteq DOMAIN objectives'
    <3>1. Cardinality(terms) \in Nat
      BY FS_Subset, FS_CardinalityType DEF LearningParameters
    <3>2. PICK order : objectives' = objectives \o [i \in 1 .. Cardinality(terms) |-> NewObjective(order[i])]
      BY <1>4 DEF DetectGap
    <3> DEFINE new == [i \in 1 .. Cardinality(terms) |-> NewObjective(order[i])]
    <3>3. new \in Seq({NewObjective(order[i]) : i \in 1 .. Cardinality(terms)})
      BY <3>1
    <3> HIDE DEF new
    <3>4. objectives' = objectives \o new
      BY <3>2 DEF new
    <3> QED BY <1>0, <3>3, <3>4 DEF MemoryOK
  <2> QED BY <1>1, <1>2, <1>4, <2>1 DEF DetectGap
<1>5. ASSUME NEW c \in Learner, Step(c) PROVE QueuesOK' /\ MergesOK'
  <2>1. CASE Learn(c) \/ InsightTaken(c) \/ Failed(c)
    <3>1. PICK list \in Seq(Objective), rest \in Seq(Nat) : GoesOn(c, list, rest)
      BY <2>1, CallsGoOn
    <3>2. DOMAIN objectives' = DOMAIN objectives
      BY <3>1, TheNextIsBegun DEF GoesOn
    <3>3. \/ call' = [call EXCEPT ![c] = [Idle EXCEPT !.at = "saving", !.image = Snapshot']]
          \/ rest # <<>> /\ call' = [call EXCEPT ![c] = [Idle EXCEPT !.at = "asking", !.queue = rest]]
      BY <3>1 DEF GoesOn, Goes
    <3>4. /\ \A d \in Learner : d # c => call'[d] = call[d]
          /\ \/ call'[c].at = "saving"
             \/ rest # <<>> /\ call'[c].at = "asking" /\ call'[c].queue = rest
      BY <1>0, <3>3 DEF Idle
    <3> QED BY <1>0, <1>2, <3>1, <3>2, <3>4 DEF GoesOn, QueuesOK, Active, Embeds
  <2>2. CASE Answered(c)
    <3>1. /\ \A d \in Learner : call'[d].queue = call[d].queue
          /\ \A d \in Learner : d # c => call'[d] = call[d]
          /\ call[c].at = "asking" /\ call'[c].at = "embedding"
      BY <1>0, <2>2 DEF Answered, CallState
    <3> QED BY <1>0, <1>2, <2>2, <3>1 DEF Answered, memory, QueuesOK, Active, Embeds
  <2>3. CASE Saved(c)
    <3>1. call'[c].at = "idle" /\ \A d \in Learner : d # c => call'[d] = call[d]
      BY <1>0, <2>3 DEF Saved, Idle
    <3> QED BY <1>0, <1>2, <2>3, <3>1 DEF Saved, memory, QueuesOK, Active, Embeds
  <2>4. CASE Embedded(c) \/ ExampleEmbedded(c)
    <3>1. PICK id, entry, left, main : StoresEntry(c, id, entry, left, main)
      BY <2>4, EntriesAreStored
    <3>2. DOMAIN objectives' = DOMAIN objectives
      BY <1>0, <3>1 DEF StoresEntry, Stored, SetStatus, MemoryOK
    <3>3. \/ call' = [call EXCEPT ![c].at = "example", ![c].examples = left, ![c].main = main]
          \/ call' = [call EXCEPT ![c].at = "insight"]
      BY <3>1 DEF StoresEntry, Stored
    <3>4. /\ \A d \in Learner : d # c => call'[d] = call[d]
          /\ call'[c].queue = call[c].queue
          /\ call'[c].at = "insight" \/ (call'[c].at = "example" /\ call'[c].main = main)
      BY <1>0, <3>3 DEF CallState
    <3>5. call[c].at \in Active /\ main \in 1 .. ids' /\ UNCHANGED review
      BY <1>0, <3>1 DEF StoresEntry, QueuesOK, Active, Embeds
    <3> QED BY <1>0, <1>2, <3>2, <3>4, <3>5 DEF QueuesOK, Active, Embeds
  <2> QED BY <1>5, <2>1, <2>2, <2>3, <2>4 DEF Step
<1>6. ASSUME NEW r \in Reviewer, ReviewStep(r) PROVE QueuesOK' /\ MergesOK'
  <2>1. QueuesOK'
    BY <1>1, <1>6 DEF ReviewStep, StartReview, Forget, Look, Consolidate, ReviewEnds, ReviewSaved, memory
  <2>2. CASE StartReview(r)
    BY <1>0, <2>1, <2>2 DEF StartReview, MergesOK, ReviewState
  <2>3. ASSUME NEW k \in DOMAIN knowledge, Forget(r, k) \/ Look(r, k) PROVE MergesOK'
    <3>1. k \in 1 .. ids /\ knowledge[k] \in Entry
      BY <1>0, EntriesAreMaps DEF MemoryOK
    <3>2. \A s \in Reviewer : \/ review'[s].at = review[s].at /\ review'[s].primary = review[s].primary
                                 /\ review'[s].entry = review[s].entry
                              \/ review'[s].primary = knowledge[k] /\ review'[s].entry = k
      BY <1>0, <2>3 DEF Forget, Look, Seen, ReviewState
    <3> QED BY <1>0, <3>1, <3>2 DEF MergesOK
  <2>4. CASE Consolidate(r)
    <3>1. \A s \in Reviewer : s # r => review'[s] = [review[s] EXCEPT !.seen = @ \ ({review[r].entry} \ DOMAIN knowledge)]
      BY <2>4 DEF Consolidate
    <3>2. review'[r].at = "looking"
      BY <2>4 DEF Consolidate, Resting
    <3>3. \A s \in Reviewer : s # r => review'[s].at = review[s].at /\ review'[s].primary = review[s].primary
                                       /\ review'[s].entry = review[s].entry
      BY <1>0, <3>1 DEF ReviewState
    <3>4. \A s \in Reviewer : review'[s].at = "merging" => s # r /\ review[s].at = "merging"
      BY <3>2, <3>3
    <3> QED BY <1>0, <2>1, <3>3, <3>4 DEF MergesOK
  <2>5. CASE ReviewEnds(r) \/ ReviewSaved(r)
    <3>1. PICK rest : review' = [review EXCEPT ![r] = rest] /\ rest.at # "merging"
      <4>1. CASE ReviewEnds(r)
        <5> DEFINE rest == [Resting EXCEPT !.at = "saving", !.image = Snapshot]
        <5>1. review' = [review EXCEPT ![r] = rest]
          BY <4>1 DEF ReviewEnds
        <5>2. rest.at # "merging"
          BY DEF Resting
        <5> QED BY <5>1, <5>2
      <4>2. CASE ReviewSaved(r)
        <5>1. review' = [review EXCEPT ![r] = Resting]
          BY <4>2 DEF ReviewSaved
        <5>2. Resting.at # "merging"
          BY DEF Resting
        <5> QED BY <5>1, <5>2
      <4> QED BY <2>5, <4>1, <4>2
    <3>2. review'[r].at # "merging" /\ \A s \in Reviewer : s # r => review'[s] = review[s]
      BY <1>0, <3>1
    <3> QED BY <1>0, <2>1, <3>2 DEF MergesOK
  <2> QED BY <1>6, <2>1, <2>2, <2>3, <2>4, <2>5 DEF ReviewStep
<1>7. CASE Crash
  BY <1>7 DEF Crash, Idle, Resting, QueuesOK, MergesOK, Active, Embeds
<1>8. CASE LoadState
  <2>1. (\A c \in Learner : call[c].at = "idle") /\ \A r \in Reviewer : review[r].at = "idle"
    BY <1>8 DEF LoadState, LearnTypes
  <2> QED BY <1>8, <2>1 DEF LoadState, QueuesOK, MergesOK, Active, Embeds
<1> QED BY <1>3, <1>4, <1>5, <1>6, <1>7, <1>8 DEF Next, Step, ReviewStep

LEMMA WhatIsBegunHasAnEnd ==
    ASSUME LearningParameters, LearnTypes, QueuesOK, MergesOK, SomebodyLearns, Next
    PROVE  SomebodyLearns'
<1> SUFFICES ASSUME crashes' = 0, NEW i \in DOMAIN objectives', objectives'[i].status = "learning"
             PROVE  \E c \in Learner : call'[c].at \in Embeds /\ Head(call'[c].queue) = i
  BY DEF SomebodyLearns, Current
<1>0. /\ objectives \in Seq(Objective) /\ call \in [Learner -> CallState] /\ crashes \in Nat
      /\ ~up => crashes > 0
  BY TypesOfMemory DEF LearnTypes
<1>1. crashes = 0 => \A j \in DOMAIN objectives : objectives[j].status = "learning" =>
                        \E c \in Learner : call[c].at \in Embeds /\ Head(call[c].queue) = j
  BY DEF SomebodyLearns, Current
<1>2. CASE UNCHANGED <<objectives, call, crashes>>
  BY <1>1, <1>2
<1>3. ASSUME NEW t \in Topic, CreateObjective(t) PROVE \E c \in Learner : call'[c].at \in Embeds /\ Head(call'[c].queue) = i
  <2>1. i \in DOMAIN objectives /\ objectives[i].status = "learning"
    BY <1>0, <1>3 DEF CreateObjective, NewObjective
  <2> QED BY <1>1, <1>3, <2>1 DEF CreateObjective
<1>4. ASSUME NEW terms \in SUBSET Topic, DetectGap(terms)
      PROVE  \E c \in Learner : call'[c].at \in Embeds /\ Head(call'[c].queue) = i
  <2> DEFINE n == Cardinality(terms)
  <2>1. n \in Nat
    BY FS_Subset, FS_CardinalityType DEF LearningParameters
  <2> HIDE DEF n
  <2>2. PICK order : objectives' = objectives \o [j \in 1 .. n |-> NewObjective(order[j])]
    BY <1>4 DEF DetectGap, n
  <2> DEFINE new == [j \in 1 .. n |-> NewObjective(order[j])]
  <2>3. new \in Seq({NewObjective(order[j]) : j \in 1 .. n}) /\ Len(new) = n
    BY <2>1
  <2>4. \A j \in 1 .. n : new[j].status = "pending"
    BY DEF NewObjective
  <2> HIDE DEF new
  <2>5. objectives' = objectives \o new
    BY <2>2 DEF new
  <2>6. i \in DOMAIN objectives /\ objectives[i].status = "learning"
    <3>1. CASE i \in 1 .. Len(objectives)
      BY <1>0, <2>3, <2>5, <3>1
    <3>2. CASE i \notin 1 .. Len(objectives)
      <4>1. i - Len(objectives) \in 1 .. n /\ objectives'[i] = new[i - Len(objectives)]
        BY <1>0, <2>1, <2>3, <2>5, <3>2
      <4> QED BY <2>4, <4>1
    <3> QED BY <3>1, <3>2
  <2> QED BY <1>1, <1>4, <2>6 DEF DetectGap
<1>5. ASSUME NEW c \in Learner, Step(c) PROVE \E d \in Learner : call'[d].at \in Embeds /\ Head(call'[d].queue) = i
  <2>1. CASE Learn(c) \/ InsightTaken(c) \/ Failed(c)
    <3>1. PICK list \in Seq(Objective), rest \in Seq(Nat) : GoesOn(c, list, rest)
      BY <2>1, CallsGoOn
    <3>2. /\ DOMAIN objectives' = DOMAIN objectives /\ crashes = 0
          /\ objectives'[i].status = IF rest # <<>> /\ i = Head(rest) THEN "learning" ELSE list[i].status
      BY <3>1, TheNextIsBegun DEF GoesOn
    <3>3. CASE rest # <<>> /\ i = Head(rest)
      <4>1. call' = [call EXCEPT ![c] = [Idle EXCEPT !.at = "asking", !.queue = rest]]
        BY <3>1, <3>3 DEF GoesOn, Goes
      <4>2. call'[c].at \in Embeds /\ Head(call'[c].queue) = i
        BY <1>0, <3>3, <4>1 DEF Idle, Embeds
      <4> QED BY <4>2
    <3>4. CASE ~(rest # <<>> /\ i = Head(rest))
      <4>1. objectives[i].status = "learning" /\ ~(call[c].at \in Embeds /\ i = Current(c))
        BY <3>1, <3>2, <3>4 DEF GoesOn
      <4>2. PICK d \in Learner : call[d].at \in Embeds /\ Head(call[d].queue) = i
        BY <1>1, <3>2, <4>1
      <4>3. d # c
        BY <4>1, <4>2 DEF Current
      <4>4. call'[d] = call[d]
        BY <1>0, <3>1, <4>3 DEF GoesOn, Goes
      <4> QED BY <4>2, <4>4
    <3> QED BY <3>3, <3>4
  <2>2. CASE Answered(c)
    <3>1. \A d \in Learner : call'[d].queue = call[d].queue /\ (call[d].at \in Embeds => call'[d].at \in Embeds)
      BY <1>0, <2>2 DEF Answered, CallState, Embeds
    <3>2. UNCHANGED <<objectives, crashes>>
      BY <2>2 DEF Answered, memory
    <3> QED BY <1>1, <3>1, <3>2
  <2>3. CASE Saved(c)
    <3>1. UNCHANGED <<objectives, crashes>> /\ \A d \in Learner : call[d].at \in Embeds => call'[d] = call[d]
      BY <1>0, <2>3 DEF Saved, memory, Embeds
    <3> QED BY <1>1, <3>1
  <2>4. CASE Embedded(c) \/ ExampleEmbedded(c)
    <3>1. PICK id, entry, left, main : StoresEntry(c, id, entry, left, main)
      BY <2>4, EntriesAreStored
    <3>2. UNCHANGED crashes
      BY <3>1 DEF StoresEntry
    <3>3. CASE left > 0
      <4>1. UNCHANGED objectives
            /\ call' = [call EXCEPT ![c].at = "example", ![c].examples = left, ![c].main = main]
        BY <3>1, <3>3 DEF StoresEntry, Stored
      <4>2. \A d \in Learner : call'[d].queue = call[d].queue /\ (call[d].at \in Embeds => call'[d].at \in Embeds)
        BY <1>0, <4>1 DEF CallState, Embeds
      <4> QED BY <1>1, <3>2, <4>1, <4>2
    <3>4. CASE ~(left > 0)
      <4>1. call' = [call EXCEPT ![c].at = "insight"] /\ objectives' = [objectives EXCEPT ![Current(c)].status = "learned"]
        BY <3>1, <3>4 DEF StoresEntry, Stored, SetStatus
      <4>2. Current(c) \in DOMAIN objectives
        BY <3>1 DEF StoresEntry
      <4>3. i \in DOMAIN objectives /\ i # Current(c) /\ objectives[i].status = "learning"
        <5> DEFINE k == Current(c)
        <5> HIDE DEF k
        <5>1. objectives' = [objectives EXCEPT ![k].status = "learned"] /\ objectives[k] \in Objective
          BY <1>0, <4>1, <4>2 DEF k
        <5>2. i \in DOMAIN objectives /\ i # k /\ objectives[i].status = "learning"
          BY <1>0, <5>1 DEF Objective
        <5> QED BY <5>2 DEF k
      <4>4. PICK d \in Learner : call[d].at \in Embeds /\ Head(call[d].queue) = i
        BY <1>1, <3>2, <4>3
      <4>5. d # c
        BY <4>3, <4>4 DEF Current
      <4>6. call'[d] = call[d]
        BY <1>0, <4>1, <4>5
      <4> QED BY <4>4, <4>6
    <3> QED BY <3>3, <3>4
  <2> QED BY <1>5, <2>1, <2>2, <2>3, <2>4 DEF Step
<1>6. ASSUME NEW r \in Reviewer, ReviewStep(r) PROVE UNCHANGED <<objectives, call, crashes>>
  BY <1>6 DEF ReviewStep, StartReview, Forget, Look, Consolidate, ReviewEnds, ReviewSaved, memory
<1>7. CASE Crash \/ LoadState
  BY <1>0, <1>7 DEF Crash, LoadState
<1> QED BY <1>2, <1>3, <1>4, <1>5, <1>6, <1>7 DEF Next, Step, ReviewStep

\* What was said of earlier entries does not change.
Extends(of2, said2, of, said) == \A k \in 1 .. ids : of2[k] = of[k] /\ said2[k] = said[k]

LEMMA TheTextIsKept ==
    ASSUME ids \in Nat, NEW of, NEW said, OriginOK(of, said), NEW of2, NEW said2, Extends(of2, said2, of, said)
    PROVE  \A k \in 1 .. ids : Full(of2, said2, k) = Full(of, said, k)
<1> TAKE k \in 1 .. ids
<1>1. of[k] \subseteq 1 .. ids /\ of2[k] = of[k] /\ said2[k] = said[k]
  BY DEF OriginOK, Extends
<1>2. \A j \in of[k] : said2[j] = said[j]
  BY <1>1 DEF Extends
<1> QED BY <1>1, <1>2 DEF Full

LEMMA EntriesStillAgree ==
    ASSUME ids \in Nat, NEW of, NEW said, OriginOK(of, said), NEW of2, NEW said2, Extends(of2, said2, of, said),
           forgotten \subseteq forgotten', NEW entries, DOMAIN entries \subseteq 1 .. ids,
           EntriesAgree(of, said, entries)
    PROVE  EntriesAgree(of2, said2, entries)'
<1> SUFFICES ASSUME NEW k \in DOMAIN entries
             PROVE  /\ entries[k].of = of2[k] /\ entries[k].content \subseteq Full(of2, said2, k)
                    /\ said2[k] \subseteq entries[k].content \cup forgotten'
  BY DEF EntriesAgree
<1>1. k \in 1 .. ids /\ of2[k] = of[k] /\ said2[k] = said[k] /\ Full(of2, said2, k) = Full(of, said, k)
  BY TheTextIsKept DEF Extends
<1>2. /\ entries[k].of = of[k] /\ entries[k].content \subseteq Full(of, said, k)
      /\ said[k] \subseteq entries[k].content \cup forgotten
  BY DEF EntriesAgree
<1> QED BY <1>1, <1>2

LEMMA ReviewsStillAgree ==
    ASSUME ids \in Nat, NEW of, NEW said, OriginOK(of, said), NEW of2, NEW said2, Extends(of2, said2, of, said),
           forgotten \subseteq forgotten', NEW m, m.at = "merging" => m.entry \in 1 .. ids, ReviewAgrees(of, said, m)
    PROVE  ReviewAgrees(of2, said2, m)'
<1> SUFFICES ASSUME m.at = "merging"
             PROVE  /\ m.primary.of = of2[m.entry] /\ m.related = of2[m.entry]
                    /\ m.text \subseteq Full(of2, said2, m.entry)
                    /\ Full(of2, said2, m.entry) \subseteq m.text \cup forgotten'
  BY DEF ReviewAgrees
<1>1. of2[m.entry] = of[m.entry] /\ Full(of2, said2, m.entry) = Full(of, said, m.entry)
  BY TheTextIsKept DEF Extends
<1>2. /\ m.primary.of = of[m.entry] /\ m.related = of[m.entry]
      /\ m.text \subseteq Full(of, said, m.entry) /\ Full(of, said, m.entry) \subseteq m.text \cup forgotten
  BY DEF ReviewAgrees
<1> QED BY <1>1, <1>2

\* A step keeps the agreement when the new content of the memory, of the calls and of the reviews agree.
LEMMA TheRestStillAgrees ==
    ASSUME LearningParameters, LearnTypes, QueuesOK, MergesOK, Next,
           NEW of, NEW said, Agree(of, said), NEW of2, NEW said2, OriginOK(of2, said2)',
           Extends(of2, said2, of, said), forgotten \subseteq forgotten',
           EntriesAgree(of2, said2, knowledge)',
           \A c \in Learner : CallAgrees(of2, call[c])', \A r \in Reviewer : ReviewAgrees(of2, said2, review[r])'
    PROVE  Agree(of2, said2)'
<1>1. ids \in Nat /\ OriginOK(of, said)
  BY DEF LearnTypes, LearningParameters, Agree
<1>2. ASSUME NEW s \in Images' \cup {Snapshot'} PROVE EntriesAgree(of2, said2, s.knowledge)'
  <2>1. CASE s = Snapshot'
    <3>1. s.knowledge = knowledge'
      BY <2>1 DEF Snapshot
    <3> QED BY <3>1 DEF EntriesAgree
  <2>2. CASE s \in Images
    <3>1. EntriesAgree(of, said, s.knowledge) /\ DOMAIN s.knowledge \subseteq 1 .. ids
      BY <2>2 DEF Agree, LearnTypes, StateOK
    <3> DEFINE entries == s.knowledge
    <3> HIDE DEF entries
    <3>2. EntriesAgree(of2, said2, entries)'
      BY <1>1, <3>1, EntriesStillAgree DEF entries
    <3> QED BY <3>2 DEF entries, EntriesAgree
  <2> QED BY <1>2, <2>1, <2>2, ImagesComeFromMemory
<1> QED BY <1>2 DEF Agree, CallAgrees, ReviewAgrees

\* Most steps store nothing: what agreed still does.
LEMMA OriginsStay ==
    ASSUME LearningParameters, LearnTypes, QueuesOK, MergesOK, Next,
           NEW of, NEW said, Agree(of, said), UNCHANGED ids, forgotten \subseteq forgotten',
           EntriesAgree(of, said, knowledge)',
           \A c \in Learner : CallAgrees(of, call[c])', \A r \in Reviewer : ReviewAgrees(of, said, review[r])'
    PROVE  Agree(of, said)'
<1>1. OriginOK(of, said)' /\ Extends(of, said, of, said)
  BY DEF Agree, OriginOK, Extends
<1> QED BY <1>1, TheRestStillAgrees

LEMMA OriginIsKept ==
    ASSUME LearningParameters, LearnTypes, QueuesOK, MergesOK, Next, ~collided', Origin
    PROVE  Origin'
<1>0. PICK of \in [Nat -> SUBSET Nat], said \in Sayings : Agree(of, said)
  BY DEF Origin
<1>1. /\ ids \in Nat /\ OriginOK(of, said) /\ MemoryOK /\ \A c \in Learner : CallAgrees(of, call[c])
      /\ \A r \in Reviewer : ReviewAgrees(of, said, review[r])
      /\ call \in [Learner -> CallState] /\ review \in [Reviewer -> ReviewState]
  BY <1>0, TypesOfMemory DEF Agree, LearnTypes, MemoryOK
<1>2. EntriesAgree(of, said, knowledge)
  <2>1. EntriesAgree(of, said, Snapshot.knowledge)
    BY <1>0 DEF Agree
  <2> QED BY <2>1 DEF Snapshot
<1>3. ASSUME forgotten \subseteq forgotten', NEW r \in Reviewer, review'[r] = review[r]
      PROVE  ReviewAgrees(of, said, review[r])'
  BY <1>1, <1>3 DEF ReviewAgrees
<1>4. ASSUME UNCHANGED ids, forgotten \subseteq forgotten', EntriesAgree(of, said, knowledge)',
             \A c \in Learner : call'[c].at = "example" => call'[c] = call[c],
             \A r \in Reviewer : ReviewAgrees(of, said, review[r])'
      PROVE  Origin'
  <2>1. \A c \in Learner : CallAgrees(of, call[c])'
    BY <1>1, <1>4 DEF CallAgrees
  <2>2. Agree(of, said)'
    BY <1>0, <1>4, <2>1, OriginsStay
  <2> QED BY <2>2 DEF Origin, Sayings
<1>5. ASSUME UNCHANGED <<ids, forgotten, knowledge, review>>,
             \A c \in Learner : call'[c].at = "example" => call'[c] = call[c]
      PROVE  Origin'
  <2>1. EntriesAgree(of, said, knowledge)'
    BY <1>2, <1>5 DEF EntriesAgree
  <2> QED BY <1>3, <1>4, <1>5, <2>1
<1>6. ASSUME (\E t \in Topic : CreateObjective(t)) \/ \E terms \in SUBSET Topic : DetectGap(terms)
      PROVE  Origin'
  BY <1>5, <1>6 DEF CreateObjective, DetectGap, history
<1>7. ASSUME NEW c \in Learner, Step(c) PROVE Origin'
  <2>1. CASE Learn(c) \/ InsightTaken(c) \/ Failed(c)
    <3>1. PICK list \in Seq(Objective), rest \in Seq(Nat) : GoesOn(c, list, rest)
      BY <2>1, CallsGoOn
    <3>2. \A d \in Learner : call'[d].at = "example" => call'[d] = call[d]
      BY <1>1, <3>1 DEF GoesOn, Goes, Idle
    <3> QED BY <1>5, <3>1, <3>2 DEF GoesOn, history
  <2>2. CASE Answered(c)
    <3>1. \A d \in Learner : call'[d].at = "example" => call'[d] = call[d]
      BY <1>1, <2>2 DEF Answered, CallState
    <3> QED BY <1>5, <2>2, <3>1 DEF Answered, memory, history
  <2>3. CASE Saved(c)
    <3>1. \A d \in Learner : call'[d].at = "example" => call'[d] = call[d]
      BY <1>1, <2>3 DEF Saved, Idle
    <3> QED BY <1>5, <2>3, <3>1 DEF Saved, memory, history
  <2>4. CASE Embedded(c) \/ ExampleEmbedded(c)
    <3>1. PICK id, entry, left, main : StoresEntry(c, id, entry, left, main)
      BY <2>4, EntriesAreStored
    <3>2. /\ id = ids + 1 /\ ids' = ids + 1 /\ id \notin DOMAIN knowledge /\ UNCHANGED <<review, forgotten>>
          /\ knowledge' = [k \in DOMAIN knowledge \cup {id} |-> IF k = id THEN entry ELSE knowledge[k]]
          /\ entry \in Entry
      <4>1. Store(id, entry) /\ UNCHANGED <<review, forgotten>> /\ entry \in Entry
            /\ (id = ids + 1 \/ id \in DOMAIN knowledge)
        BY <3>1 DEF StoresEntry
      <4>2. id \notin DOMAIN knowledge
        BY <4>1 DEF Store
      <4>3. ids' = ids + 1
        BY <1>1, <4>1, <4>2 DEF Store
      <4> QED BY <4>1, <4>2, <4>3 DEF Store
    <3> DEFINE of2 == [of EXCEPT ![id] = entry.of]
               said2 == [said EXCEPT ![id] = entry.content]
    <3>3. of2 \in [Nat -> SUBSET Nat] /\ said2 \in Sayings /\ id \in Nat /\ entry.of \subseteq Nat
      BY <1>1, <3>2 DEF Entry, Sayings
    <3>4. Extends(of2, said2, of, said)
      BY <1>0, <1>1, <3>2 DEF Extends, Sayings
    <3>5. of2[id] = entry.of /\ said2[id] = entry.content /\ \A k \in Nat : k # id => of2[k] = of[k] /\ said2[k] = said[k]
      BY <1>0, <1>1, <3>2 DEF Sayings
    <3>6. \/ entry.of = {} /\ main = id
          \/ entry.of = {main} /\ main \in 1 .. ids /\ of[main] = {}
      BY <1>1, <3>1, <3>2 DEF StoresEntry, CallAgrees, QueuesOK
    <3> HIDE DEF of2, said2
    <3>7. OriginOK(of2, said2)'
      <4>1. ASSUME NEW k \in Nat
            PROVE  /\ of2[k] \subseteq 1 .. ids' /\ (k > ids' => of2[k] = {})
                   /\ \A j, l \in of2[k] : j = l /\ of2[j] = {}
        <5>1. CASE k = id
          BY <1>1, <3>2, <3>5, <3>6, <5>1
        <5>2. CASE k # id
          <6>1. of2[k] = of[k] /\ of[k] \subseteq 1 .. ids /\ \A j, l \in of[k] : j = l /\ of[j] = {}
            BY <1>1, <3>5, <5>2 DEF OriginOK
          <6>2. \A j \in of[k] : of2[j] = of[j]
            BY <1>1, <3>2, <3>5, <6>1
          <6>3. k > ids' => of[k] = {}
            BY <1>1, <3>2 DEF OriginOK
          <6> QED BY <1>1, <3>2, <6>1, <6>2, <6>3
        <5> QED BY <5>1, <5>2
      <4> QED BY <3>3, <4>1 DEF OriginOK, Sayings
    <3>8. EntriesAgree(of2, said2, knowledge)'
      <4>1. EntriesAgree(of2, said2, knowledge')
        <5> SUFFICES ASSUME NEW k \in DOMAIN knowledge'
                     PROVE  /\ knowledge'[k].of = of2[k] /\ knowledge'[k].content \subseteq Full(of2, said2, k)
                            /\ said2[k] \subseteq knowledge'[k].content \cup forgotten
          BY DEF EntriesAgree
        <5>1. CASE k = id
          BY <3>2, <3>5, <5>1 DEF Full
        <5>2. CASE k # id
          <6>1. k \in DOMAIN knowledge /\ knowledge'[k] = knowledge[k] /\ k \in 1 .. ids
            BY <1>1, <3>2, <5>2 DEF MemoryOK
          <6>2. of2[k] = of[k] /\ said2[k] = said[k] /\ Full(of2, said2, k) = Full(of, said, k)
            BY <1>1, <3>4, <6>1, TheTextIsKept DEF Extends
          <6> QED BY <1>2, <6>1, <6>2 DEF EntriesAgree
        <5> QED BY <5>1, <5>2
      <4> QED BY <3>2, <4>1 DEF EntriesAgree
    <3>9. \A d \in Learner : CallAgrees(of2, call[d])'
      <4>1. of2[main] = {}
        BY <1>1, <3>2, <3>5, <3>6
      <4>2. \A d \in Learner : d # c => call'[d] = call[d]
        BY <1>1, <3>1 DEF StoresEntry, Stored
      <4>3. call'[c].at = "example" => call'[c].main = main
        <5>1. CASE left > 0
          BY <1>1, <3>1, <5>1 DEF StoresEntry, Stored, CallState
        <5>2. CASE ~(left > 0)
          BY <1>1, <3>1, <5>2 DEF StoresEntry, Stored, CallState
        <5> QED BY <5>1, <5>2
      <4>4. \A d \in Learner : call[d].at = "example" => of2[call[d].main] = {}
        BY <1>1, <3>2, <3>4 DEF CallAgrees, QueuesOK, Extends
      <4> QED BY <4>1, <4>2, <4>3, <4>4 DEF CallAgrees
    <3>10. \A r \in Reviewer : ReviewAgrees(of2, said2, review[r])'
      <4> TAKE r \in Reviewer
      <4> SUFFICES ASSUME review'[r].at = "merging"
                   PROVE  /\ review'[r].primary.of = of2[review'[r].entry] /\ review'[r].related = of2[review'[r].entry]
                          /\ review'[r].text \subseteq Full(of2, said2, review'[r].entry)
                          /\ Full(of2, said2, review'[r].entry) \subseteq review'[r].text \cup forgotten'
        BY DEF ReviewAgrees
      <4>1. review[r].at = "merging" /\ review'[r] = review[r]
        BY <3>2
      <4>2. review[r].entry \in 1 .. ids
        BY <4>1 DEF MergesOK
      <4>3. of2[review[r].entry] = of[review[r].entry]
            /\ Full(of2, said2, review[r].entry) = Full(of, said, review[r].entry)
        BY <1>1, <3>4, <4>2, TheTextIsKept DEF Extends
      <4> QED BY <1>1, <3>2, <4>1, <4>3 DEF ReviewAgrees
    <3> QED BY <1>0, <3>2, <3>3, <3>4, <3>7, <3>8, <3>9, <3>10, TheRestStillAgrees DEF Origin, Sayings
  <2> QED BY <1>7, <2>1, <2>2, <2>3, <2>4 DEF Step
<1>8. ASSUME NEW r \in Reviewer, ReviewStep(r) PROVE Origin'
  <2>0. UNCHANGED <<call, ids>>
    BY <1>8 DEF ReviewStep, StartReview, Forget, Look, Consolidate, ReviewEnds, ReviewSaved
  <2>1. CASE StartReview(r) \/ ReviewEnds(r) \/ ReviewSaved(r)
    <3>1. UNCHANGED <<knowledge, forgotten>>
      BY <2>1 DEF StartReview, ReviewEnds, ReviewSaved, memory, history
    <3>2. \A s \in Reviewer : review'[s].at = "merging" => review'[s] = review[s]
      <4>1. CASE StartReview(r)
        BY <1>1, <4>1 DEF StartReview, ReviewState
      <4>2. CASE ReviewEnds(r)
        BY <1>1, <4>2 DEF ReviewEnds, Resting
      <4>3. CASE ReviewSaved(r)
        BY <1>1, <4>3 DEF ReviewSaved, Resting
      <4> QED BY <2>1, <4>1, <4>2, <4>3
    <3>3. \A s \in Reviewer : ReviewAgrees(of, said, review[s])'
      BY <1>1, <3>1, <3>2 DEF ReviewAgrees
    <3>4. EntriesAgree(of, said, knowledge)'
      BY <1>2, <3>1 DEF EntriesAgree
    <3> QED BY <1>4, <2>0, <3>1, <3>3, <3>4
  <2>2. ASSUME NEW k \in DOMAIN knowledge, Forget(r, k) PROVE Origin'
    <3>1. knowledge' = [j \in DOMAIN knowledge \ {k} |-> knowledge[j]]
          /\ forgotten' = forgotten \cup knowledge[k].content
      BY <2>2 DEF Forget
    <3>2. EntriesAgree(of, said, knowledge)'
      BY <1>2, <3>1 DEF EntriesAgree
    <3>3. \A s \in Reviewer : review'[s].at = review[s].at /\ review'[s].entry = review[s].entry
             /\ review'[s].primary = review[s].primary /\ review'[s].related = review[s].related
             /\ review'[s].text = review[s].text
      BY <1>1, <2>2 DEF Forget, Seen, ReviewState
    <3>4. \A s \in Reviewer : ReviewAgrees(of, said, review[s])'
      BY <1>1, <3>1, <3>3 DEF ReviewAgrees
    <3> QED BY <1>4, <2>0, <3>1, <3>2, <3>4
  <2>3. ASSUME NEW k \in DOMAIN knowledge, Look(r, k) PROVE Origin'
    <3>1. UNCHANGED <<knowledge, forgotten>>
      BY <2>3 DEF Look, memory, history
    <3>2. EntriesAgree(of, said, knowledge)'
      BY <1>2, <3>1 DEF EntriesAgree
    <3> DEFINE related == knowledge[k].of \cap DOMAIN knowledge
    <3>3. CASE review' = Seen(r, k)
      <4>1. \A s \in Reviewer : review'[s].at = review[s].at /\ review'[s].entry = review[s].entry
             /\ review'[s].primary = review[s].primary /\ review'[s].related = review[s].related
             /\ review'[s].text = review[s].text
        BY <1>1, <3>3 DEF Seen, ReviewState
      <4>2. \A s \in Reviewer : ReviewAgrees(of, said, review[s])'
        BY <1>1, <3>1, <4>1 DEF ReviewAgrees
      <4> QED BY <1>4, <2>0, <3>1, <3>2, <4>2
    <3>4. ASSUME related # {},
                 review' = [review EXCEPT ![r] =
                    [at |-> "merging", seen |-> review[r].seen \cup {k}, entry |-> k,
                     primary |-> knowledge[k], related |-> related,
                     text |-> knowledge[k].content \cup ContentOf(related), image |-> None]]
          PROVE  Origin'
      <4>0. k \in Nat /\ knowledge[k].of = of[k]
        BY <1>1, <1>2 DEF EntriesAgree, MemoryOK
      <4>1. related = of[k] /\ \A j \in related : of[j] = {} /\ j \in DOMAIN knowledge
        BY <1>1, <3>4, <4>0 DEF OriginOK
      <4>2. \A j \in related : /\ knowledge[j].content \subseteq said[j]
                               /\ said[j] \subseteq knowledge[j].content \cup forgotten
        BY <1>2, <4>1 DEF EntriesAgree, Full
      <4> DEFINE text == knowledge[k].content \cup ContentOf(related)
      <4>3. text \subseteq Full(of, said, k)
        <5>1. knowledge[k].content \subseteq Full(of, said, k)
          BY <1>2 DEF EntriesAgree
        <5>2. ContentOf(related) \subseteq UNION {said[j] : j \in of[k]}
          BY <4>1, <4>2 DEF ContentOf
        <5> QED BY <5>1, <5>2 DEF Full
      <4>4. Full(of, said, k) \subseteq text \cup forgotten
        <5>1. said[k] \subseteq knowledge[k].content \cup forgotten
          BY <1>2 DEF EntriesAgree
        <5>2. UNION {said[j] : j \in of[k]} \subseteq ContentOf(related) \cup forgotten
          BY <4>1, <4>2 DEF ContentOf
        <5> QED BY <5>1, <5>2 DEF Full
      <4> HIDE DEF text, related
      <4>5. review'[r].at = "merging" /\ review'[r].entry = k /\ review'[r].primary = knowledge[k]
            /\ review'[r].related = related /\ review'[r].text = text
        BY <1>1, <3>4 DEF text
      <4>6. \A s \in Reviewer : s # r => review'[s] = review[s]
        BY <1>1, <3>4
      <4>7. ReviewAgrees(of, said, review[r])'
        BY <3>1, <4>0, <4>1, <4>3, <4>4, <4>5 DEF ReviewAgrees
      <4>8. \A s \in Reviewer : ReviewAgrees(of, said, review[s])'
        BY <1>3, <3>1, <4>6, <4>7
      <4> QED BY <1>4, <2>0, <3>1, <3>2, <4>8
    <3> QED BY <2>3, <3>3, <3>4 DEF Look
  <2>4. CASE Consolidate(r)
    <3> DEFINE m == review[r]
               k == m.entry
    <3>1. PICK kept \in SUBSET m.text :
             /\ knowledge' = [j \in (DOMAIN knowledge \cup {k}) \ m.related |->
                                IF j = k THEN [m.primary EXCEPT !.content = kept] ELSE knowledge[j]]
             /\ forgotten' = forgotten \cup (m.text \ kept)
      BY <2>4 DEF Consolidate
    <3>2. m.at = "merging" /\ m.primary \in Entry /\ k \in Nat
      BY <1>1, <2>4 DEF Consolidate, MergesOK
    <3>3. /\ m.primary.of = of[k] /\ m.related = of[k]
          /\ m.text \subseteq Full(of, said, k) /\ Full(of, said, k) \subseteq m.text \cup forgotten
      BY <1>1, <3>2 DEF ReviewAgrees
    <3> HIDE DEF m
    <3>4. EntriesAgree(of, said, knowledge)'
      <4>1. EntriesAgree(of, said, knowledge)'
              <=> \A j \in DOMAIN knowledge' :
                     /\ knowledge'[j].of = of[j] /\ knowledge'[j].content \subseteq Full(of, said, j)
                     /\ said[j] \subseteq knowledge'[j].content \cup forgotten'
        BY DEF EntriesAgree
      <4>2. ASSUME NEW j \in DOMAIN knowledge', j = k
            PROVE  /\ knowledge'[j].of = of[j] /\ knowledge'[j].content \subseteq Full(of, said, j)
                   /\ said[j] \subseteq knowledge'[j].content \cup forgotten'
        <5>1. knowledge'[j].of = of[j] /\ knowledge'[j].content = kept
          BY <3>1, <3>2, <3>3, <4>2 DEF Entry
        <5>2. said[j] \subseteq m.text \cup forgotten
          BY <3>3, <4>2 DEF Full
        <5> QED BY <3>1, <3>3, <4>2, <5>1, <5>2
      <4>3. ASSUME NEW j \in DOMAIN knowledge', j # k
            PROVE  /\ knowledge'[j].of = of[j] /\ knowledge'[j].content \subseteq Full(of, said, j)
                   /\ said[j] \subseteq knowledge'[j].content \cup forgotten'
        BY <1>2, <3>1, <4>3 DEF EntriesAgree
      <4> QED BY <4>1, <4>2, <4>3
    <3>5. \A s \in Reviewer : s # r => review'[s].at = review[s].at /\ review'[s].entry = review[s].entry
             /\ review'[s].primary = review[s].primary /\ review'[s].related = review[s].related
             /\ review'[s].text = review[s].text
      <4> DEFINE back == {review[r].entry} \ DOMAIN knowledge
      <4>1. \A s \in Reviewer : s # r => review'[s] = [review[s] EXCEPT !.seen = @ \ back]
        BY <2>4 DEF Consolidate
      <4> HIDE DEF back
      <4> TAKE s \in Reviewer
      <4>2. review[s] \in ReviewState
        BY <1>1
      <4> QED BY <4>1, <4>2 DEF ReviewState
    <3>6. review'[r].at = "looking"
      BY <2>4 DEF Consolidate, Resting
    <3>7. \A s \in Reviewer : ReviewAgrees(of, said, review[s])'
      BY <1>1, <3>1, <3>5, <3>6 DEF ReviewAgrees
    <3> QED BY <1>4, <2>0, <3>1, <3>4, <3>7
  <2> QED BY <1>8, <2>1, <2>2, <2>3, <2>4 DEF ReviewStep
<1>9. CASE Crash
  <2>1. /\ UNCHANGED <<ids, forgotten>> /\ knowledge' = <<>>
        /\ (\A c \in Learner : call'[c].at = "idle") /\ \A r \in Reviewer : review'[r].at = "idle"
    BY <1>9 DEF Crash, Idle, Resting, history
  <2>2. EntriesAgree(of, said, knowledge)' /\ \A r \in Reviewer : ReviewAgrees(of, said, review[r])'
    BY <2>1 DEF EntriesAgree, ReviewAgrees
  <2> QED BY <1>4, <2>1, <2>2
<1>10. CASE LoadState
  <2>1. UNCHANGED <<ids, forgotten, call, review>>
    BY <1>10 DEF LoadState
  <2>2. EntriesAgree(of, said, knowledge')
    <3>1. CASE file = Torn
      <4>1. knowledge' = <<>>
        BY <1>10, <3>1 DEF LoadState, Empty
      <4> QED BY <4>1 DEF EntriesAgree
    <3>2. CASE file # Torn
      <4>1. file \in Images /\ knowledge' = file.knowledge
        BY <1>10, <3>2 DEF LoadState, Images
      <4> QED BY <1>0, <4>1 DEF Agree
    <3> QED BY <3>1, <3>2
  <2>3. EntriesAgree(of, said, knowledge)'
    BY <2>1, <2>2 DEF EntriesAgree
  <2> QED BY <1>3, <1>4, <2>1, <2>3
<1> QED BY <1>6, <1>7, <1>8, <1>9, <1>10 DEF Next, Step, ReviewStep

\* What is stored is kept or counted as forgotten, by every step.
LEMMA ContentStays ==
    ASSUME LearningParameters, LearnTypes, QueuesOK, MergesOK, Next, ~collided', StoredInTime, Origin, up'
    PROVE  learned' \subseteq ContentIn(knowledge)' \cup forgotten'
<1>0. /\ MemoryOK /\ ids \in Nat /\ review \in [Reviewer -> ReviewState]
      /\ up => learned \subseteq ContentIn(knowledge) \cup forgotten
  BY TypesOfMemory DEF LearnTypes, MemoryOK, StoredInTime
<1>1. ASSUME up, UNCHANGED <<knowledge, learned, forgotten>> PROVE learned' \subseteq ContentIn(knowledge)' \cup forgotten'
  BY <1>0, <1>1 DEF ContentIn
<1>2. ASSUME (\E t \in Topic : CreateObjective(t)) \/ \E terms \in SUBSET Topic : DetectGap(terms)
      PROVE  learned' \subseteq ContentIn(knowledge)' \cup forgotten'
  BY <1>1, <1>2 DEF CreateObjective, DetectGap, history
<1>3. ASSUME NEW c \in Learner, Step(c) PROVE learned' \subseteq ContentIn(knowledge)' \cup forgotten'
  <2>1. CASE Learn(c) \/ InsightTaken(c) \/ Failed(c) \/ Answered(c) \/ Saved(c)
    BY <1>1, <2>1 DEF Learn, InsightTaken, Failed, Ends, Answered, Saved, memory, history
  <2>2. CASE Embedded(c) \/ ExampleEmbedded(c)
    <3>1. PICK id, entry, left, main : StoresEntry(c, id, entry, left, main)
      BY <2>2, EntriesAreStored
    <3>2. /\ knowledge' = [k \in DOMAIN knowledge \cup {id} |-> IF k = id THEN entry ELSE knowledge[k]]
          /\ id \notin DOMAIN knowledge /\ learned' = learned \cup entry.content /\ UNCHANGED forgotten /\ up
      BY <3>1 DEF StoresEntry, Store
    <3>3. ContentIn(knowledge) \cup entry.content \subseteq ContentIn(knowledge)'
      BY <3>2 DEF ContentIn
    <3> QED BY <1>0, <3>2, <3>3
  <2> QED BY <1>3, <2>1, <2>2 DEF Step
<1>4. ASSUME NEW r \in Reviewer, ReviewStep(r) PROVE learned' \subseteq ContentIn(knowledge)' \cup forgotten'
  <2>1. CASE StartReview(r) \/ ReviewEnds(r) \/ ReviewSaved(r) \/ \E k \in DOMAIN knowledge : Look(r, k)
    BY <1>1, <2>1 DEF StartReview, ReviewEnds, ReviewSaved, Look, memory, history
  <2>2. ASSUME NEW k \in DOMAIN knowledge, Forget(r, k) PROVE learned' \subseteq ContentIn(knowledge)' \cup forgotten'
    <3>1. /\ knowledge' = [j \in DOMAIN knowledge \ {k} |-> knowledge[j]] /\ UNCHANGED learned /\ up
          /\ forgotten' = forgotten \cup knowledge[k].content
      BY <2>2 DEF Forget
    <3>2. ContentIn(knowledge) \subseteq ContentIn(knowledge)' \cup knowledge[k].content
      BY <3>1 DEF ContentIn
    <3> QED BY <1>0, <3>1, <3>2
  <2>3. CASE Consolidate(r)
    <3>0. PICK of \in [Nat -> SUBSET Nat], said \in Sayings : Agree(of, said)
      BY DEF Origin
    <3> DEFINE m == review[r]
               k == m.entry
    <3>1. PICK kept \in SUBSET m.text :
             /\ knowledge' = [j \in (DOMAIN knowledge \cup {k}) \ m.related |->
                                IF j = k THEN [m.primary EXCEPT !.content = kept] ELSE knowledge[j]]
             /\ forgotten' = forgotten \cup (m.text \ kept)
      BY <2>3 DEF Consolidate
    <3>2. m.at = "merging" /\ m.primary \in Entry /\ k \in Nat /\ UNCHANGED learned /\ up
      BY <1>0, <2>3 DEF Consolidate, MergesOK
    <3>3. OriginOK(of, said) /\ EntriesAgree(of, said, Snapshot.knowledge) /\ ReviewAgrees(of, said, m)
      BY <3>0 DEF Agree
    <3> HIDE DEF m
    <3>4. /\ EntriesAgree(of, said, knowledge) /\ m.related = of[k]
          /\ Full(of, said, k) \subseteq m.text \cup forgotten
      BY <3>2, <3>3 DEF Snapshot, ReviewAgrees
    <3>5. \A j \in m.related : of[j] = {} /\ j # k
      BY <3>2, <3>3, <3>4 DEF OriginOK
    <3>6. m.text \subseteq ContentIn(knowledge)' \cup forgotten'
      <4>1. k \in DOMAIN knowledge' /\ knowledge'[k].content = kept
        BY <3>1, <3>2, <3>5 DEF Entry
      <4> QED BY <3>1, <4>1 DEF ContentIn
    <3>7. ASSUME NEW j \in DOMAIN knowledge
          PROVE  knowledge[j].content \subseteq ContentIn(knowledge)' \cup forgotten'
      <4>1. CASE j = k
        BY <3>1, <3>4, <3>6, <4>1 DEF EntriesAgree
      <4>2. CASE j \in m.related
        <5>1. knowledge[j].content \subseteq said[j]
          BY <3>4, <3>5, <4>2 DEF EntriesAgree, Full
        <5>2. said[j] \subseteq Full(of, said, k)
          BY <3>4, <4>2 DEF Full
        <5> QED BY <3>1, <3>4, <3>6, <5>1, <5>2
      <4>3. CASE j # k /\ j \notin m.related
        BY <3>1, <4>3 DEF ContentIn
      <4> QED BY <4>1, <4>2, <4>3
    <3>8. ContentIn(knowledge) \subseteq ContentIn(knowledge)' \cup forgotten'
      BY <3>7 DEF ContentIn
    <3>9. forgotten \subseteq forgotten'
      BY <3>1
    <3> QED BY <1>0, <3>2, <3>8, <3>9
  <2> QED BY <1>4, <2>1, <2>2, <2>3 DEF ReviewStep
<1>5. CASE Crash
  BY <1>5 DEF Crash
<1>6. CASE LoadState
  <2>1. PICK state : knowledge' = state.knowledge
                     /\ learned' = UNION {state.knowledge[k].content : k \in DOMAIN state.knowledge}
    BY <1>6 DEF LoadState
  <2> QED BY <2>1 DEF ContentIn
<1> QED BY <1>2, <1>3, <1>4, <1>5, <1>6 DEF Next, Step, ReviewStep

\* What is learned has been stored: the objective is marked after the last of its entries.
LEMMA MarksComeAfterContent ==
    ASSUME LearningParameters, LearnTypes, QueuesOK, MergesOK, Next, StoredInTime, up'
    PROVE  /\ LearnedOK(objectives, learned \cup forgotten)'
           /\ \A c \in Learner : call'[c].at = "example" => <<TopicOf(c)', 0>> \in learned'
<1>0. /\ objectives \in Seq(Objective) /\ call \in [Learner -> CallState]
      /\ up => \A i \in DOMAIN objectives : objectives[i].status = "learned" =>
                 <<objectives[i].topic, 0>> \in learned \cup forgotten
      /\ \A c \in Learner : call[c].at = "example" => <<TopicOf(c), 0>> \in learned
  BY TypesOfMemory DEF LearnTypes, StoredInTime, LearnedOK
<1>1. ASSUME NEW c \in Learner, call[c].at \in Active PROVE Current(c) \in DOMAIN objectives
  <2>1. call[c].queue \in Seq(Nat) /\ call[c].queue # <<>> /\ call[c].queue[1] \in DOMAIN objectives
    BY <1>0, <1>1 DEF QueuesOK, CallState
  <2> QED BY <2>1 DEF Current
<1>2. ASSUME up, learned \subseteq learned', forgotten \subseteq forgotten',
             \A i \in DOMAIN objectives : i \in DOMAIN objectives' /\ objectives'[i].topic = objectives[i].topic,
             \A i \in DOMAIN objectives' : objectives'[i].status = "learned" =>
                i \in DOMAIN objectives /\
                   (objectives[i].status = "learned" \/ <<objectives[i].topic, 0>> \in learned'),
             \A c \in Learner : call'[c].at = "example" =>
                /\ call'[c].queue = call[c].queue /\ call[c].at \in Active
                /\ call[c].at = "example" \/ <<TopicOf(c), 0>> \in learned'
      PROVE  /\ LearnedOK(objectives, learned \cup forgotten)'
             /\ \A c \in Learner : call'[c].at = "example" => <<TopicOf(c)', 0>> \in learned'
  <2>1. LearnedOK(objectives, learned \cup forgotten)'
    BY <1>0, <1>2 DEF LearnedOK
  <2>2. ASSUME NEW c \in Learner, call'[c].at = "example" PROVE <<TopicOf(c)', 0>> \in learned'
    <3>1. Current(c)' = Current(c) /\ Current(c) \in DOMAIN objectives
      BY <1>1, <1>2, <2>2 DEF Current
    <3>2. TopicOf(c)' = TopicOf(c)
      BY <1>2, <3>1 DEF TopicOf
    <3> QED BY <1>0, <1>2, <2>2, <3>2
  <2> QED BY <2>1, <2>2
<1> DEFINE Goal == /\ LearnedOK(objectives, learned \cup forgotten)'
                   /\ \A c \in Learner : call'[c].at = "example" => <<TopicOf(c)', 0>> \in learned'
<1> HIDE DEF Goal
<1>10. Goal <=> /\ LearnedOK(objectives, learned \cup forgotten)'
               /\ \A c \in Learner : call'[c].at = "example" => <<TopicOf(c)', 0>> \in learned'
  BY DEF Goal
<1>11. ASSUME NEW c \in Learner, call[c].at = "example" PROVE call[c].at \in Active
  BY <1>11 DEF Active, Embeds
<1>3. ASSUME NEW t \in Topic, CreateObjective(t) PROVE Goal
  <2>1. up /\ UNCHANGED <<call, learned, forgotten>> /\ objectives' = Append(objectives, NewObjective(t))
    BY <1>3 DEF CreateObjective, history
  <2>2. /\ \A i \in DOMAIN objectives : i \in DOMAIN objectives' /\ objectives'[i] = objectives[i]
        /\ \A i \in DOMAIN objectives' : objectives'[i].status = "learned" => i \in DOMAIN objectives
    BY <1>0, <2>1 DEF NewObjective
  <2> QED BY <1>2, <1>11, <1>10, <2>1, <2>2
<1>4. ASSUME NEW terms \in SUBSET Topic, DetectGap(terms) PROVE Goal
  <2> DEFINE n == Cardinality(terms)
  <2>1. n \in Nat
    BY FS_Subset, FS_CardinalityType DEF LearningParameters
  <2> HIDE DEF n
  <2>2. PICK order : objectives' = objectives \o [j \in 1 .. n |-> NewObjective(order[j])]
    BY <1>4 DEF DetectGap, n
  <2> DEFINE new == [j \in 1 .. n |-> NewObjective(order[j])]
  <2>3. new \in Seq({NewObjective(order[j]) : j \in 1 .. n}) /\ Len(new) = n
    BY <2>1
  <2>4. \A j \in 1 .. n : new[j].status = "pending"
    BY DEF NewObjective
  <2> HIDE DEF new
  <2>5. objectives' = objectives \o new
    BY <2>2 DEF new
  <2>6. \A i \in DOMAIN objectives : i \in DOMAIN objectives' /\ objectives'[i] = objectives[i]
    BY <1>0, <2>3, <2>5
  <2>7. ASSUME NEW i \in DOMAIN objectives', objectives'[i].status = "learned" PROVE i \in DOMAIN objectives
    <3>1. CASE i \in 1 .. Len(objectives)
      BY <1>0, <3>1
    <3>2. CASE i \notin 1 .. Len(objectives)
      <4>1. i - Len(objectives) \in 1 .. n /\ objectives'[i] = new[i - Len(objectives)]
        BY <1>0, <2>1, <2>3, <2>5, <3>2
      <4> QED BY <2>4, <2>7, <4>1
    <3> QED BY <3>1, <3>2
  <2>8. up /\ UNCHANGED <<call, learned, forgotten>>
    BY <1>4 DEF DetectGap, history
  <2> QED BY <1>2, <1>11, <1>10, <2>6, <2>7, <2>8
<1>5. ASSUME NEW c \in Learner, Step(c) PROVE Goal
  <2>1. CASE Learn(c) \/ InsightTaken(c) \/ Failed(c)
    <3>1. PICK list \in Seq(Objective), rest \in Seq(Nat) : GoesOn(c, list, rest)
      BY <2>1, CallsGoOn
    <3>2. /\ DOMAIN objectives' = DOMAIN objectives /\ up /\ UNCHANGED <<learned, forgotten>>
          /\ \A i \in DOMAIN objectives : /\ objectives'[i].topic = objectives[i].topic
                                          /\ objectives'[i].status = "learned" => objectives[i].status = "learned"
      BY <3>1, TheNextIsBegun DEF GoesOn, history
    <3>3. \A d \in Learner : call'[d].at = "example" => call'[d] = call[d]
      BY <1>0, <3>1 DEF GoesOn, Goes, Idle
    <3> QED BY <1>2, <1>11, <1>10, <3>2, <3>3
  <2>2. CASE Answered(c)
    <3>1. \A d \in Learner : call'[d].at = "example" => call'[d] = call[d]
      BY <1>0, <2>2 DEF Answered, CallState
    <3>2. up /\ UNCHANGED <<objectives, learned, forgotten>>
      BY <2>2 DEF Answered, memory, history
    <3> QED BY <1>2, <1>11, <1>10, <3>1, <3>2
  <2>3. CASE Saved(c)
    <3>1. \A d \in Learner : call'[d].at = "example" => call'[d] = call[d]
      BY <1>0, <2>3 DEF Saved, Idle
    <3>2. up /\ UNCHANGED <<objectives, learned, forgotten>>
      BY <2>3 DEF Saved, memory, history
    <3> QED BY <1>2, <1>11, <1>10, <3>1, <3>2
  <2>4. CASE Embedded(c) \/ ExampleEmbedded(c)
    <3>1. PICK id, entry, left, main : StoresEntry(c, id, entry, left, main)
      BY <2>4, EntriesAreStored
    <3>2. up /\ UNCHANGED forgotten /\ learned' = learned \cup entry.content /\ call[c].at \in Active
      BY <3>1 DEF StoresEntry, Store, Active, Embeds
    <3>3. <<TopicOf(c), 0>> \in learned'
      <4>1. CASE call[c].at = "embedding"
        <5>1. entry.content = {<<TopicOf(c), 0>>}
          BY <3>1, <4>1 DEF StoresEntry
        <5> QED BY <3>2, <5>1
      <4>2. CASE call[c].at = "example"
        BY <1>0, <3>2, <4>2
      <4> QED BY <3>1, <4>1, <4>2 DEF StoresEntry
    <3>4. call'[c].queue = call[c].queue /\ \A d \in Learner : d # c => call'[d] = call[d]
      <4>1. CASE left > 0
        BY <1>0, <3>1, <4>1 DEF StoresEntry, Stored, CallState
      <4>2. CASE ~(left > 0)
        BY <1>0, <3>1, <4>2 DEF StoresEntry, Stored, CallState
      <4> QED BY <4>1, <4>2
    <3>5. /\ DOMAIN objectives' = DOMAIN objectives
          /\ \A i \in DOMAIN objectives :
                /\ objectives'[i].topic = objectives[i].topic
                /\ i = Current(c) \/ objectives'[i].status = objectives[i].status
      <4> DEFINE k == Current(c)
                 status == "learned"
      <4>1. k \in DOMAIN objectives /\ status \in {"pending", "learning", "learned", "failed"}
        BY <3>1 DEF StoresEntry
      <4>2. UNCHANGED objectives \/ objectives' = [objectives EXCEPT ![k].status = status]
        BY <3>1 DEF StoresEntry, Stored, SetStatus
      <4> HIDE DEF k, status
      <4>3. /\ DOMAIN objectives' = DOMAIN objectives
            /\ \A i \in DOMAIN objectives :
                /\ objectives'[i].topic = objectives[i].topic
                /\ i = k \/ objectives'[i].status = objectives[i].status
        BY <1>0, <4>1, <4>2, ObjectivesCanBeMarked
      <4> QED BY <4>3 DEF k
    <3>6. \A i \in DOMAIN objectives' : objectives'[i].status = "learned" =>
             objectives[i].status = "learned" \/ <<objectives[i].topic, 0>> \in learned'
      BY <3>3, <3>5 DEF TopicOf
    <3> QED BY <1>2, <1>11, <1>10, <3>2, <3>3, <3>4, <3>5, <3>6
  <2> QED BY <1>5, <2>1, <2>2, <2>3, <2>4 DEF Step
<1>6. ASSUME NEW r \in Reviewer, ReviewStep(r) PROVE Goal
  <2>1. up /\ UNCHANGED <<objectives, call, learned>> /\ forgotten \subseteq forgotten'
    BY <1>6 DEF ReviewStep, StartReview, Forget, Look, Consolidate, ReviewEnds, ReviewSaved, memory, history
  <2> QED BY <1>2, <1>11, <1>10, <2>1
<1>7. CASE Crash
  BY <1>7 DEF Crash
<1>8. CASE LoadState
  <2>1. \A c \in Learner : call'[c].at = "idle"
    BY <1>8 DEF LoadState, LearnTypes
  <2>2. LearnedOK(objectives, learned \cup forgotten)'
    <3>1. CASE file = Torn
      <4>1. objectives' = <<>>
        BY <1>8, <3>1 DEF LoadState, Empty
      <4> QED BY <4>1 DEF LearnedOK
    <3>2. CASE file # Torn
      <4>1. /\ objectives' = file.objectives /\ UNCHANGED forgotten /\ learned' = ContentIn(file.knowledge)
        BY <1>8, <3>2 DEF LoadState, ContentIn
      <4>2. LearnedOK(file.objectives, ContentIn(file.knowledge) \cup forgotten)
        BY <3>2 DEF StoredInTime, Images
      <4> QED BY <4>1, <4>2 DEF LearnedOK
    <3> QED BY <3>1, <3>2
  <2> QED BY <1>10, <2>1, <2>2
<1> QED BY <1>3, <1>4, <1>5, <1>6, <1>7, <1>8, <1>10 DEF Next, Step, ReviewStep

LEMMA StoredStaysInTime ==
    ASSUME LearningParameters, LearnTypes, QueuesOK, MergesOK, Next, ~collided', StoredInTime, Origin
    PROVE  StoredInTime'
<1>0. LearnTypes'
  BY LearnTypesAreKept
<1>1. up' => /\ LearnedOK(objectives, learned \cup forgotten)' /\ learned' \subseteq ContentIn(knowledge)' \cup forgotten'
             /\ \A c \in Learner : call'[c].at = "example" => <<TopicOf(c)', 0>> \in learned'
  BY ContentStays, MarksComeAfterContent
<1>2. ~up' => objectives' = <<>> /\ \A c \in Learner : call'[c].at = "idle"
  BY <1>0 DEF LearnTypes
<1>3. forgotten \subseteq forgotten'
  BY DEF Next, CreateObjective, DetectGap, Learn, Answered, Embedded, ExampleEmbedded, InsightTaken, Failed, Ends, Saved,
         StartReview, Consolidate, ReviewEnds, ReviewSaved, Forget, Look, Crash, LoadState, history
<1>4. ASSUME NEW s \in Images' PROVE LearnedOK(s.objectives, ContentIn(s.knowledge) \cup forgotten')
  <2>1. CASE s \in Images
    BY <1>3, <2>1 DEF StoredInTime, LearnedOK
  <2>2. CASE s = Snapshot'
    <3>1. s.objectives = objectives' /\ s.knowledge = knowledge'
      BY <2>2 DEF Snapshot
    <3>2. CASE up'
      BY <1>1, <3>1, <3>2 DEF LearnedOK, ContentIn
    <3>3. CASE ~up'
      BY <1>2, <3>1, <3>3 DEF LearnedOK
    <3> QED BY <3>2, <3>3
  <2> QED BY <1>4, <2>1, <2>2, ImagesComeFromMemory
<1>5. \A c \in Learner : call'[c].at = "example" => <<TopicOf(c)', 0>> \in learned'
  BY <1>0, <1>1, <1>2 DEF LearnTypes
<1>6. \A s \in Images' : LearnedOK(s.objectives, ContentIn(s.knowledge) \cup forgotten)'
  BY <1>4 DEF LearnedOK, ContentIn
<1> QED BY <1>1, <1>5, <1>6 DEF StoredInTime

LEMMA LearnInvHoldsAtFirst == ASSUME LearningParameters, Init PROVE LearnInv
<1>1. /\ ids = 0 /\ up = TRUE /\ collided = FALSE /\ crashes = 0 /\ objectives = <<>> /\ knowledge = <<>> /\ learned = {}
      /\ file = Empty /\ Snapshot = Empty
  BY DEF Init, Snapshot, Empty
<1>2. call = [c \in Learner |-> Idle] /\ review = [r \in Reviewer |-> Resting]
  BY DEF Init
<1>3. (\A c \in Learner : call[c].at = "idle") /\ \A r \in Reviewer : review[r].at = "idle"
  BY <1>2 DEF Idle, Resting
<1>4. Images \cup {Snapshot} \subseteq {Empty} /\ StateOK(Empty)
  BY <1>1, <1>3, EmptyIsOK DEF Images
<1>5. Idle \in CallState /\ Resting \in ReviewState
  BY DEF Idle, CallState, Resting, ReviewState
<1>6. LearnTypes
  <2>1. call \in [Learner -> CallState] /\ review \in [Reviewer -> ReviewState]
    BY <1>2, <1>5
  <2>2. \A s \in Images \cup {Snapshot} : StateOK(s)
    BY <1>4
  <2>3. ids \in 0 .. MaxKnowledge
    BY <1>1 DEF LearningParameters
  <2> QED BY <1>1, <2>1, <2>2, <2>3 DEF LearnTypes
<1>7. QueuesOK /\ MergesOK /\ SomebodyLearns
  BY <1>1, <1>3 DEF QueuesOK, MergesOK, SomebodyLearns, Active, Embeds
<1>8. Empty.objectives = <<>> /\ Empty.knowledge = <<>>
  BY DEF Empty
<1>9. StoredInTime
  BY <1>1, <1>3, <1>4, <1>8 DEF StoredInTime, LearnedOK
<1>10. Origin
  <2> DEFINE none == [k \in Nat |-> {}]
  <2>1. none \in [Nat -> SUBSET Nat] /\ none \in Sayings /\ OriginOK(none, none)
    BY DEF OriginOK, Sayings
  <2>2. Agree(none, none)
    BY <1>3, <1>4, <1>8, <2>1 DEF Agree, EntriesAgree, CallAgrees, ReviewAgrees
  <2> QED BY <2>1, <2>2 DEF Origin
<1> QED BY <1>6, <1>7, <1>9, <1>10 DEF LearnInv

LEMMA LearnInvIsInductive == ASSUME LearningParameters, LearnInv, [Next]_vars PROVE LearnInv'
<1>1. CASE Next
  <2>1. LearnTypes' /\ QueuesOK' /\ MergesOK' /\ SomebodyLearns'
    BY <1>1, LearnTypesAreKept, QueuesStayOK, WhatIsBegunHasAnEnd DEF LearnInv
  <2>2. collided => collided'
    BY <1>1 DEF Next, CreateObjective, DetectGap, Learn, Answered, Embedded, ExampleEmbedded, InsightTaken, Failed, Ends,
                Saved, StartReview, Consolidate, ReviewEnds, ReviewSaved, Forget, Look, Crash, LoadState, history, Store
  <2>3. ~collided' => StoredInTime' /\ Origin'
    BY <1>1, <2>2, StoredStaysInTime, OriginIsKept DEF LearnInv
  <2> QED BY <2>1, <2>3 DEF LearnInv
<1>2. CASE UNCHANGED vars
  <2>1. UNCHANGED <<Images, Snapshot>>
    BY <1>2 DEF vars, memory, Images, Snapshot
  <2>2. LearnTypes'
    BY <1>2, <2>1 DEF LearnInv, LearnTypes, StateOK, vars, memory, history
  <2>3. QueuesOK' /\ MergesOK' /\ SomebodyLearns'
    BY <1>2 DEF LearnInv, QueuesOK, MergesOK, SomebodyLearns, Current, vars, memory
  <2>4. ~collided' => StoredInTime'
    BY <1>2, <2>1 DEF LearnInv, StoredInTime, LearnedOK, ContentIn, TopicOf, Current, vars, memory, history
  <2>5. ~collided' => Origin'
    <3> SUFFICES ASSUME ~collided' PROVE Origin'
      OBVIOUS
    <3>1. PICK of \in [Nat -> SUBSET Nat], said \in Sayings : Agree(of, said)
      BY <1>2 DEF LearnInv, Origin, vars, history
    <3>2. UNCHANGED <<ids, forgotten, call, review>>
      BY <1>2 DEF vars, history
    <3>3. Agree(of, said)'
      BY <2>1, <3>1, <3>2 DEF Agree, OriginOK, EntriesAgree, CallAgrees, ReviewAgrees
    <3> QED BY <3>1, <3>3 DEF Origin
  <2> QED BY <2>2, <2>3, <2>4, <2>5 DEF LearnInv
<1> QED BY <1>1, <1>2

LEMMA LearnInvSuffices == ASSUME LearnInv PROVE LearningIsKept
<1>1. ContentIsKept
  BY DEF LearnInv, StoredInTime, ContentIsKept, ContentIn, ContentOf
<1>2. GraphIsSymmetric
  BY TypesOfMemory DEF LearnInv, IsSymmetric, GraphIsSymmetric
<1>3. ObjectivesEnd
  BY DEF LearnInv, SomebodyLearns, ObjectivesEnd, Embeds
<1>4. LearnedIsStored
  BY DEF LearnInv, StoredInTime, LearnedOK, LearnedIsStored
<1> QED BY <1>1, <1>2, <1>3, <1>4 DEF LearningIsKept

\* For every number of calls of learn() and review(), of objectives and of entries, however they overlap,
\* crash and restart: what the model said is kept or counted as forgotten, what is learned has been stored,
\* what is begun has an end and the graph relates both ways. (autonomous-learning-loop.ts)
THEOREM LearningStaysKept == ASSUME LearningParameters PROVE Spec => []LearningIsKept
<1>1. Init => LearnInv
  BY LearnInvHoldsAtFirst
<1>2. LearnInv /\ [Next]_vars => LearnInv'
  BY LearnInvIsInductive
<1>3. LearnInv => LearningIsKept
  BY LearnInvSuffices
<1> QED BY <1>1, <1>2, <1>3, PTL DEF Spec
=============================================================================
