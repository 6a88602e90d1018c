--------------------------- MODULE SemanticMemory ---------------------------
(***************************************************************************)
(* Facts learnt from the steps of a run (src/src/memory/semantic/          *)
(* consolidator.ts) and the store that deduplicates, reinforces and evicts *)
(* them (src/src/memory/semantic/store.ts). addFact() is synchronous; a    *)
(* crash may come between its two writes, or within one.                   *)
(***************************************************************************)
EXTENDS Naturals, Sequences, SequencesExt, FiniteSets, FiniteSetsExt

CONSTANTS
    Statement, Words,   \* statements, and Words[s]: the keywords of a statement
    Run,                \* runs; a run is a sequence of steps
    Torn,               \* what a file cut short holds
    MaxFacts,
    RecallLimit,        \* how many facts are recalled at most
    MaxRuns, MaxCrashes \* bounds

VARIABLES
    facts, index,       \* what the store holds in memory
    factsFile, indexFile,
    candidates,         \* what is still to be added of a run
    saving,             \* writes that saveFacts() still makes
    up,                 \* init() has been called
    runs, ids, crashes,
    cut                 \* history: a crash has cut saveFacts() short

vars == <<facts, index, factsFile, indexFile, candidates, saving, up, runs, ids, crashes, cut>>

\* extractFacts(): steps that were executed, by a tool whose output tells a fact.
Tells(step) ==
    step.status = "executed" /\ step.says # "nothing" /\
        step.tool \in {"local_read", "local_write", "local_search", "local_reason",
                       "external_read_reasoning"}
ExtractFacts(steps) ==
    LET told == SelectSeq(steps, Tells)
    IN [i \in DOMAIN told |-> [statement |-> told[i].says, evidence |-> told[i].id]]

\* Confidence in hundredths.
NewFact(c) == [id |-> ids + 1, statement |-> c.statement, confidence |-> 90, verified |-> runs,
               evidence |-> {c.evidence}]

Reinforce(f, c) == [f EXCEPT !.confidence = Min({99, @ + 5}), !.verified = runs,
                             !.evidence = @ \cup {c.evidence}]

Weaker(f, g) ==
    \/ f.confidence < g.confidence
    \/ f.confidence = g.confidence /\ f.verified < g.verified

\* enforceCap(): the stable sort puts the weakest first, which are cut off.
EnforceCap(fs) ==
    IF Len(fs) <= MaxFacts THEN fs
    ELSE LET before(i, j) == Weaker(fs[i], fs[j]) \/ (~Weaker(fs[j], fs[i]) /\ i < j)
             place(i) == Cardinality({j \in DOMAIN fs : before(j, i)}) + 1
             sorted == [k \in DOMAIN fs |-> fs[CHOOSE i \in DOMAIN fs : place(i) = k]]
         IN SubSeq(sorted, Len(fs) - MaxFacts + 1, Len(fs))

Known(statement) == SelectInSeq(facts, LAMBDA f : f.statement = statement)

-----------------------------------------------------------------------------
Init ==
    /\ facts = <<>> /\ index = {} /\ factsFile = <<>> /\ indexFile = {}
    /\ candidates = <<>> /\ saving = <<>> /\ up = FALSE
    /\ runs = 0 /\ ids = 0 /\ crashes = 0 /\ cut = FALSE

\* init(): a file that cannot be parsed is as good as none.
Load ==
    /\ ~up /\ up' = TRUE
    /\ facts' = EnforceCap(IF factsFile = Torn THEN <<>> ELSE factsFile)
    /\ index' = IF indexFile = Torn THEN {} ELSE indexFile
    /\ UNCHANGED <<factsFile, indexFile, candidates, saving, runs, ids, crashes, cut>>

\* A run ends: its facts are added one after the other.
Consolidate ==
    /\ up /\ candidates = <<>> /\ saving = <<>>
    /\ runs < MaxRuns /\ runs' = runs + 1
    /\ \E steps \in Run : candidates' = ExtractFacts(steps)
    /\ UNCHANGED <<facts, index, factsFile, indexFile, saving, up, ids, crashes, cut>>

Save == saving' = <<"facts", "fill facts", "index", "fill index">>

ReinforceFact ==
    /\ candidates # <<>> /\ saving = <<>>
    /\ LET c == Head(candidates) IN
        /\ Known(c.statement) # 0
        /\ facts' = [facts EXCEPT ![Known(c.statement)] = Reinforce(@, c)]
        /\ ids' = Max({ids} \cup {f.id : f \in ToSet(facts')})
    /\ candidates' = Tail(candidates) /\ Save
    /\ UNCHANGED <<index, factsFile, indexFile, up, runs, crashes, cut>>

\* A new fact is indexed even if the cap has just evicted it.
AddFact ==
    /\ candidates # <<>> /\ saving = <<>>
    /\ LET c == Head(candidates) IN
        /\ Known(c.statement) = 0
        /\ facts' = EnforceCap(Append(facts, NewFact(c)))
        /\ index' = index \cup {<<w, ids + 1>> : w \in Words[c.statement]}
        /\ ids' = ids + 1
    /\ candidates' = Tail(candidates) /\ Save
    /\ UNCHANGED <<factsFile, indexFile, up, runs, crashes, cut>>

\* saveFacts(): each file is truncated, then filled.
WriteNext ==
    /\ saving # <<>> /\ saving' = Tail(saving)
    /\ factsFile' = CASE Head(saving) = "facts" -> Torn [] Head(saving) = "fill facts" -> facts
                      [] OTHER -> factsFile
    /\ indexFile' = CASE Head(saving) = "index" -> Torn [] Head(saving) = "fill index" -> index
                      [] OTHER -> indexFile
    /\ UNCHANGED <<facts, index, candidates, up, runs, ids, crashes, cut>>

Crash ==
    /\ up /\ crashes < MaxCrashes /\ crashes' = crashes + 1
    /\ up' = FALSE /\ facts' = <<>> /\ index' = {} /\ candidates' = <<>> /\ saving' = <<>>
    /\ cut' = (cut \/ Len(saving) \in 1..3)
    /\ UNCHANGED <<factsFile, indexFile, runs, ids>>

Next == Load \/ Consolidate \/ ReinforceFact \/ AddFact \/ WriteNext \/ Crash

-----------------------------------------------------------------------------
\* Types: the store never holds more facts than its cap, and no confidence beyond 0.99.
TypeOK ==
    /\ Len(facts) <= MaxFacts /\ candidates \in Seq([statement : Statement, evidence : Nat])
    /\ \A f \in ToSet(facts) : f.statement \in Statement /\ f.confidence \in 90..99 /\ f.id <= ids

\* recallFacts() with the keywords of a statement: the strongest of the facts that share one, in the
\* order they are held in where none is weaker.
Recalled(s) ==
    LET relevant == SelectSeq(facts, LAMBDA f : \E w \in Words[s] : <<w, f.id>> \in index)
        ahead(i) == {j \in DOMAIN relevant : Weaker(relevant[i], relevant[j])
                                             \/ (j < i /\ ~Weaker(relevant[j], relevant[i]))}
    IN  {relevant[i] : i \in {j \in DOMAIN relevant : Cardinality(ahead(j)) < RecallLimit}}

\* Across restarts, evictions and repetitions, a statement has one fact at most, and a fact that the
\* store holds is recalled by its words, or as many that are no weaker and share one are, unless a
\* crash has cut a save short. What is recalled has a word in common with what was asked for.
FactsAreFound ==
    /\ \A i, j \in DOMAIN facts : facts[i].statement = facts[j].statement => i = j
    /\ (up /\ ~cut) => \A f \in ToSet(facts) :
          LET recalled == Recalled(f.statement)
          IN  /\ \A g \in recalled : Words[g.statement] \cap Words[f.statement] # {}
              /\ \/ f \in recalled
                 \/ Cardinality(recalled) = RecallLimit /\ \A g \in recalled : ~Weaker(g, f)
=============================================================================
