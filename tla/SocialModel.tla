------------------------------ MODULE SocialModel ------------------------------
(***************************************************************************)
(* What the program thinks of other agents: the beliefs and goals they     *)
(* have stated, the intentions read out of what they did, and the history  *)
(* all of it rests on. The patterns of behaviour are learned from all      *)
(* agents together and are kept by nobody. Maintenance lets beliefs fade   *)
(* and is the only time anything is saved. Confidence is in hundredths,    *)
(* and what happens at one time happens in one millisecond.                *)
(***************************************************************************)
EXTENDS Integers, SequencesExt

CONSTANTS
    Agent, Situation, Action,
    Message,               \* what messages state: sequences [beliefs, goals]
    PlanNext,              \* pairs of actions -> what usually comes next
    Often,                 \* a pattern counts in full when it has been seen so often
    Fading,                \* age -> the hundredths that are left of a confidence
    None, Torn,
    MaxBeliefs, MaxHistory,
    MaxTime, MaxEvents, MaxDecays, MaxCrashes

VARIABLES
    alert, known, inits,       \* the process, initialize(), the calls of it under way
    reads,                     \* what those of them have read that have not ended
    hour, agents, patterns,    \* the time, the models, the patterns in their order
    modelFile, keeping, mixed, \* the file, the writes of it under way, whether two have overlapped
    kept,                      \* history: the last state saved,
    observed, stated, wanted, recorded,   \* the actions of all time, what an agent has said, and when,
                               \* its goals with their times, and all that it did and said since the last start
    events, decays, falls

socialVars == <<alert, known, inits, reads, hour, agents, patterns, modelFile, keeping, mixed, kept,
                observed, stated, wanted, recorded, events, decays, falls>>

files == <<modelFile, keeping, mixed, kept>>
process == <<alert, known, inits, reads, hour>>

Nobody == [a \in Agent |-> None]
NewAgent == [beliefs |-> <<>>, goals |-> <<>>, intentions |-> <<>>, history |-> <<>>, modelConfidence |-> 10]

GetOrCreateAgent(a) == IF agents[a] = None THEN NewAgent ELSE agents[a]

\* A key that is there keeps its place and gets the new value.
Put(entries, entry) ==
    IF \E i \in DOMAIN entries : entries[i].id = entry.id
    THEN [i \in DOMAIN entries |-> IF entries[i].id = entry.id THEN entry ELSE entries[i]]
    ELSE Append(entries, entry)

------------------------------------------------------------------------------
(* Attributions *)

Oldest(beliefs) ==
    CHOOSE i \in DOMAIN beliefs : \A j \in DOMAIN beliefs :
        beliefs[i].at < beliefs[j].at \/ (beliefs[i].at = beliefs[j].at /\ i <= j)

RemoveOldestBelief(beliefs) ==
    IF Len(beliefs) < MaxBeliefs THEN beliefs ELSE RemoveAt(beliefs, Oldest(beliefs))

\* A proposition is believed half as much as before and half as it was stated.
AttributeBelief(beliefs, proposition) ==
    IF \E i \in DOMAIN beliefs : beliefs[i].of = proposition
    THEN [i \in DOMAIN beliefs |->
            IF beliefs[i].of = proposition
            THEN [of |-> proposition, confidence |-> (beliefs[i].confidence + 70) \div 2, at |-> hour]
            ELSE beliefs[i]]
    ELSE Append(RemoveOldestBelief(beliefs), [of |-> proposition, confidence |-> 70, at |-> hour])

\* The identifier of a goal is the millisecond: the goals of one message take each other's place.
AttributeGoal(goals, description) ==
    IF \E i \in DOMAIN goals : goals[i].of = description THEN goals
    ELSE Put(goals, [id |-> hour, of |-> description])

LastOf(history, n) == IF Len(history) > n THEN SubSeq(history, Len(history) - n + 1, Len(history)) ELSE history
Trimmed(history) == LastOf(history, MaxHistory)

RecordInteraction(agent, record) ==
    [agent EXCEPT !.history = Trimmed(Append(@, record)),
                  !.modelConfidence = IF @ < 100 THEN @ + 1 ELSE 100]

------------------------------------------------------------------------------
(* Recognition *)

Candidate(action, score) == [action |-> action, score |-> score]

RecognizeDirectIntention(agent, action) ==
    LET same == SelectSeq(agent.intentions, LAMBDA x : x.action = action)
    IN  IF same = <<>> THEN <<>> ELSE <<Candidate(action, Head(same).confidence)>>

\* The patterns are not an agent's. A new one is the last of the map.
LearnFromObservation(seen, situation, action) ==
    LET IsIt(p) == p.situation = situation /\ p.action = action
    IN  IF \E i \in DOMAIN seen : IsIt(seen[i])
        THEN [i \in DOMAIN seen |-> IF IsIt(seen[i]) THEN [seen[i] EXCEPT !.frequency = @ + 1] ELSE seen[i]]
        ELSE Append(seen, [situation |-> situation, action |-> action, frequency |-> 1])

PatternConfidence(n) == IF n < 10 THEN 45 + 5 * n ELSE 95
PatternScore(n) == (PatternConfidence(n) * n) \div Often

MatchBehaviorPatterns(seen, situation) ==
    LET s == SelectSeq(seen, LAMBDA p : p.situation = situation)
    IN  [i \in DOMAIN s |-> Candidate(s[i].action, PatternScore(s[i].frequency))]

Actions(history) == LET s == SelectSeq(history, LAMBDA r : r.action # None) IN [i \in DOMAIN s |-> s[i].action]

\* The last two actions among the last ten records, if the history is long enough.
RecognizePlanStep(agent) ==
    LET done == Actions(LastOf(agent.history, 10))
        last == SubSeq(done, Len(done) - 1, Len(done))
    IN  IF Len(agent.history) >= 2 /\ Len(done) >= 2 /\ last \in DOMAIN PlanNext
        THEN <<Candidate(PlanNext[last], 60)>> ELSE <<>>

\* What would achieve a stated goal (priority 0.7) has a score of 49, and is no intention.
InferFromGoals(agent) == [i \in DOMAIN agent.goals |-> Candidate(agent.goals[i].of, 49)]

\* The first of the best.
RecognizeIntention(agent, seen, situation, action) ==
    LET candidates == RecognizeDirectIntention(agent, action) \o InferFromGoals(agent)
                      \o MatchBehaviorPatterns(seen, situation) \o RecognizePlanStep(agent)
        best == CHOOSE i \in DOMAIN candidates : \A j \in DOMAIN candidates :
                    \/ candidates[i].score > candidates[j].score
                    \/ candidates[i].score = candidates[j].score /\ i <= j
    IN  IF candidates = <<>> THEN Candidate(None, 0)
        ELSE [candidates[best] EXCEPT !.score = IF @ > 95 THEN 95 ELSE @]

\* An intention is never taken back.
AttributeIntention(agent, c) ==
    IF c.score > 50
    THEN [agent EXCEPT !.intentions = Put(@, [id |-> hour, action |-> c.action, confidence |-> c.score])]
    ELSE agent

------------------------------------------------------------------------------
(* The calls *)

Calls(a, record) ==
    /\ alert /\ events < MaxEvents /\ events' = events + 1
    /\ recorded' = [recorded EXCEPT ![a] = Append(@, record)]
    /\ UNCHANGED <<process, files, decays, falls>>

ObserveAction(a, situation, action) ==
    LET record == [of |-> situation, action |-> action]
        agent == RecordInteraction(GetOrCreateAgent(a), record)
        seen == LearnFromObservation(patterns, situation, action)
    IN  /\ Calls(a, record)
        /\ patterns' = seen
        /\ agents' = [agents EXCEPT ![a] =
               AttributeIntention(agent, RecognizeIntention(agent, seen, situation, action))]
        /\ observed' = [observed EXCEPT ![action] = @ + 1]
        /\ UNCHANGED <<stated, wanted>>

\* The intention that is recognised shapes the answer only.
ProcessCommunication(a, message) ==
    LET record == [of |-> message, action |-> None]
        agent == RecordInteraction(GetOrCreateAgent(a), record)
    IN  /\ Calls(a, record)
        /\ agents' = [agents EXCEPT ![a] =
               [agent EXCEPT !.beliefs = FoldLeft(AttributeBelief, @, message.beliefs),
                             !.goals = FoldLeft(AttributeGoal, @, message.goals)]]
        /\ stated' = [stated EXCEPT ![a] = [p \in ToSet(message.beliefs) |-> hour] @@ @]
        /\ wanted' = [wanted EXCEPT ![a] = @ \o [i \in DOMAIN message.goals |->
                                                    [of |-> message.goals[i], at |-> hour]]]
        /\ UNCHANGED <<patterns, observed>>

\* The age counts from the last attribution every time, so that fading adds up. What is left is
\* serialised at once; the file is emptied before it is written.
DecayBeliefs ==
    /\ alert /\ decays < MaxDecays /\ decays' = decays + 1
    /\ LET Faded(b) == [b EXCEPT !.confidence = (@ * Fading[hour - b.at]) \div 100]
           Decayed(s) == SelectSeq([i \in DOMAIN s |-> Faded(s[i])], LAMBDA b : b.confidence >= 10)
           models == [a \in Agent |-> IF agents[a] = None THEN None
                                      ELSE [agents[a] EXCEPT !.beliefs = Decayed(@)]]
       IN  /\ agents' = models
           /\ modelFile' = Torn /\ kept' = models
           /\ mixed' = (mixed \/ keeping # {}) /\ keeping' = keeping \cup {models}
    /\ stated' = [a \in Agent |-> <<>>]
    /\ UNCHANGED <<process, patterns, observed, wanted, recorded, events, falls>>

SaveEnds ==
    /\ alert
    /\ \E state \in keeping :
          /\ keeping' = keeping \ {state}
          /\ modelFile' \in IF mixed THEN {state, Torn} ELSE {state}
    /\ UNCHANGED <<process, agents, patterns, mixed, kept, observed, stated, wanted, recorded, events, decays, falls>>

------------------------------------------------------------------------------
(* Start, time and crash *)

\* Calls that come while the file is read find no model of anybody ...
Initialize ==
    /\ alert /\ ~known /\ inits + Len(reads) < 2 /\ inits' = inits + 1
    /\ UNCHANGED <<alert, known, reads, hour, agents, patterns, files, observed, stated, wanted, recorded,
                   events, decays, falls>>

ReadState ==
    /\ alert /\ inits > 0 /\ inits' = inits - 1
    /\ reads' = Append(reads, modelFile)
    /\ UNCHANGED <<alert, known, hour, agents, patterns, files, observed, stated, wanted, recorded,
                   events, decays, falls>>

\* ... and what they have made, and saved, is replaced by what was read before, unless that cannot be
\* parsed. The reads may end in any order.
ApplyState ==
    /\ alert /\ known' = TRUE
    /\ \E k \in DOMAIN reads :
          /\ reads' = RemoveAt(reads, k)
          /\ IF reads[k] \in {None, Torn} THEN UNCHANGED <<agents, stated, wanted, recorded>>
             ELSE /\ agents' = reads[k]
                  /\ stated' = [a \in Agent |-> <<>>] /\ wanted' = [a \in Agent |-> <<>>]
                  /\ recorded' = [a \in Agent |-> IF reads[k][a] = None THEN <<>> ELSE reads[k][a].history]
    /\ UNCHANGED <<alert, inits, hour, patterns, files, observed, events, decays, falls>>

Wait ==
    /\ hour < MaxTime /\ hour' = hour + 1
    /\ UNCHANGED <<alert, known, inits, reads, agents, patterns, files, observed, stated, wanted, recorded,
                   events, decays, falls>>

Forgotten ==
    /\ agents' = Nobody /\ patterns' = <<>>
    /\ stated' = [a \in Agent |-> <<>>] /\ wanted' = [a \in Agent |-> <<>>] /\ recorded' = [a \in Agent |-> <<>>]

\* A write that is cut off leaves the file empty.
Crash ==
    /\ alert /\ falls < MaxCrashes /\ falls' = falls + 1
    /\ Forgotten
    /\ alert' = FALSE /\ known' = FALSE /\ inits' = 0 /\ reads' = <<>> /\ keeping' = {}
    /\ UNCHANGED <<hour, modelFile, mixed, kept, observed, events, decays>>

Restart ==
    /\ ~alert /\ alert' = TRUE
    /\ UNCHANGED <<known, inits, reads, hour, agents, patterns, files, observed, stated, wanted, recorded,
                   events, decays, falls>>

SocialInit ==
    /\ alert = TRUE /\ known = FALSE /\ inits = 0 /\ reads = <<>> /\ hour = 0
    /\ agents = Nobody /\ patterns = <<>>
    /\ modelFile = None /\ keeping = {} /\ mixed = FALSE /\ kept = None
    /\ observed = [x \in Action |-> 0]
    /\ stated = [a \in Agent |-> <<>>] /\ wanted = [a \in Agent |-> <<>>] /\ recorded = [a \in Agent |-> <<>>]
    /\ events = 0 /\ decays = 0 /\ falls = 0

SocialNext ==
    \/ \E a \in Agent :
          \/ \E situation \in Situation, action \in Action : ObserveAction(a, situation, action)
          \/ \E message \in Message : ProcessCommunication(a, message)
    \/ DecayBeliefs \/ SaveEnds
    \/ Initialize \/ ReadState \/ ApplyState \/ Wait \/ Crash \/ Restart

------------------------------------------------------------------------------
Models == {agents[a] : a \in {x \in Agent : agents[x] # None}}

\* A proposition is one belief, there are no more than configured, and none is weaker than what
\* maintenance takes away. What has been said since maintenance or the end of a load is believed unless the
\* model is full of what was said as lately. (attributeBelief, removeOldestBelief, decayBeliefs)
BeliefsAreKept ==
    /\ \A m \in Models :
          /\ Len(m.beliefs) <= MaxBeliefs
          /\ \A i, j \in DOMAIN m.beliefs : m.beliefs[i].of = m.beliefs[j].of => i = j
          /\ \A i \in DOMAIN m.beliefs : m.beliefs[i].confidence \in 10 .. 70
    /\ \A a \in Agent : \A p \in DOMAIN stated[a] :
          \/ \E i \in DOMAIN agents[a].beliefs : agents[a].beliefs[i].of = p
          \/ /\ Len(agents[a].beliefs) = MaxBeliefs
             /\ \A i \in DOMAIN agents[a].beliefs : agents[a].beliefs[i].at >= stated[a][p]

\* A goal that is missing was stated in the same millisecond as a later one. (attributeGoal)
GoalsAreKept ==
    \A a \in Agent : \A i \in DOMAIN wanted[a] :
        \/ \E k \in DOMAIN agents[a].goals : agents[a].goals[k].of = wanted[a][i].of
        \/ \E j \in DOMAIN wanted[a] : j > i /\ wanted[a][j].at = wanted[a][i].at

\* The history is the end of all that happened, and the confidence in a model counts it.
HistoryIsTheTail ==
    \A a \in Agent : agents[a] # None =>
        /\ agents[a].history = Trimmed(recorded[a])
        /\ agents[a].modelConfidence >= 10 + Len(agents[a].history)

\* An intention is the next step of a plan whose steps were seen, or was seen as often as a pattern
\* needs, if not of this agent. No goal has become one. (recognizeIntention)
IntentionsAreGrounded ==
    \A m \in Models : \A i \in DOMAIN m.intentions :
        LET x == m.intentions[i].action
        IN  \/ x \in Action /\ PatternScore(observed[x]) > 50 /\ observed[x] > 1
            \/ \E p \in DOMAIN PlanNext : /\ PlanNext[p] = x
                                          /\ observed[p[1]] > 0 /\ observed[p[2]] > 0

\* While no two writes overlap, the file is what was saved last, or was cut off by a crash.
ModelIsSaved ==
    ~mixed /\ keeping = {} /\ kept # None => modelFile = kept \/ (falls > 0 /\ modelFile = Torn)

SocialIsSound ==
    BeliefsAreKept /\ GoalsAreKept /\ HistoryIsTheTail /\ IntentionsAreGrounded /\ ModelIsSaved
================================================================================
