---------------------------- MODULE Abstractions ----------------------------
(***************************************************************************)
(* The registries of concepts, schemas and invariants, what is found with  *)
(* them in a text or a plan, and the caution of a cold start               *)
(* (src/src/neuronwaves-v2/abstractions and cold-start). Each registry is  *)
(* a list in memory and a file, and the three have the same code for them; *)
(* the file is read once, truncated when its write begins, and stands for  *)
(* no registry when it cannot be parsed.                                   *)
(***************************************************************************)
EXTENDS Naturals, Sequences, SequencesExt, FiniteSets, FiniteSetsExt

CONSTANTS
    Client,
    ConceptItem,    \* concepts to register: [name, patterns, threshold (percent)]
    SchemaItem,     \* schemas to register: [concept, required, optional]
    InvariantItem,  \* invariants to register: [rule, classes, concepts]
    Content,        \* texts: the patterns and slots that occur in them
    Plan,           \* plans: sequences of [class, status, words, tool, justified]
    Torn, None,
    MaxReconnaissance,
    MaxOperations, MaxCrashes  \* bounds

Kind == {"concepts", "schemas", "invariants"}
Item(k) == CASE k = "concepts" -> ConceptItem [] k = "schemas" -> SchemaItem [] k = "invariants" -> InvariantItem

VARIABLES
    registry,   \* registry[k]: a sequence of [id, item, exemplars]
    loaded,     \* the registries whose file was read
    file,       \* file[k]: a sequence, or Torn
    client,     \* client[c]: what c does
    found,      \* what the last call that looks something up has found, or None
    reconnaissance,  \* steps of reconnaissance that were recorded
    registered, \* history: <<kind, id>> registered and not removed since
    disturbed,  \* history: operations have overlapped, or one was cut short
    operations, crashes

vars == <<registry, loaded, file, client, found, reconnaissance, registered, disturbed, operations, crashes>>

Idle == [pc |-> "idle"]

Init ==
    /\ registry = [k \in Kind |-> <<>>] /\ loaded = {}
    /\ file = [k \in Kind |-> <<>>]
    /\ client = [c \in Client |-> Idle]
    /\ found = None /\ reconnaissance = 0
    /\ registered = {} /\ disturbed = FALSE
    /\ operations = 0 /\ crashes = 0

Busy == {c \in Client : client[c].pc # "idle"}

\* An operation of a registry begins with load().
Begin(c, kind, job) ==
    /\ client[c].pc = "idle" /\ operations < MaxOperations
    /\ client' = [client EXCEPT ![c] = [pc |-> "load", kind |-> kind, job |-> job, read |-> <<>>]]
    /\ operations' = operations + 1
    /\ disturbed' = (disturbed \/ Busy # {})
    /\ found' = None
    /\ UNCHANGED <<registry, loaded, file, reconnaissance, registered, crashes>>

RegisterConcept(c) == \E item \in ConceptItem : Begin(c, "concepts", [does |-> "register", item |-> item])
RegisterSchema(c) == \E item \in SchemaItem : Begin(c, "schemas", [does |-> "register", item |-> item])
RegisterInvariant(c) == \E item \in InvariantItem : Begin(c, "invariants", [does |-> "register", item |-> item])
RemoveConcept(c) == \E e \in ToSet(registry["concepts"]) : Begin(c, "concepts", [does |-> "remove", id |-> e.id])
RemoveSchema(c) == \E e \in ToSet(registry["schemas"]) : Begin(c, "schemas", [does |-> "remove", id |-> e.id])
RemoveInvariant(c) == \E e \in ToSet(registry["invariants"]) : Begin(c, "invariants", [does |-> "remove", id |-> e.id])
UpdateExemplars(c) ==
    \E e \in ToSet(registry["concepts"]) : Begin(c, "concepts", [does |-> "exemplar", id |-> e.id])
Tag(c) == \E x \in Content : Begin(c, "concepts", [does |-> "tag", content |-> x])
FillSlots(c) ==
    \E x \in Content, item \in SchemaItem :
        Begin(c, "schemas", [does |-> "fill", content |-> x, concept |-> item.concept])
CheckInvariants(c) ==
    \E plan \in Plan, concepts \in SUBSET {item.name : item \in ConceptItem} :
        Begin(c, "invariants", [does |-> "check", plan |-> plan, concepts |-> concepts])

\* load(): unless it was read before, the file is read ...
Load(c) ==
    /\ client[c].pc = "load"
    /\ LET k == client[c].kind
       IN client' = [client EXCEPT
            ![c] = IF k \in loaded THEN [@ EXCEPT !.pc = "loaded"]
                   ELSE [@ EXCEPT !.pc = "reading", !.read = IF file[k] = Torn THEN <<>> ELSE file[k]]]
    /\ UNCHANGED <<registry, loaded, file, found, reconnaissance, registered, disturbed, operations, crashes>>

\* ... and what was read replaces the entries of the same id and joins the others.
Joined(mine, read) ==
    SelectSeq(mine, LAMBDA e : \A i \in DOMAIN read : read[i].id # e.id) \o read
Read(c) ==
    /\ client[c].pc = "reading"
    /\ registry' = [registry EXCEPT ![client[c].kind] = Joined(@, client[c].read)]
    /\ loaded' = loaded \cup {client[c].kind}
    /\ client' = [client EXCEPT ![c].pc = "loaded"]
    /\ UNCHANGED <<file, found, reconnaissance, registered, disturbed, operations, crashes>>

(***************************************************************************)
(* Registering and removing, which save the registry.                      *)
(***************************************************************************)

\* What an operation makes of a registry; ids have a time in them, here the number of the operation.
Changed(list, job) ==
    CASE job.does = "register" -> Append(list, [id |-> operations, item |-> job.item, exemplars |-> 0])
      [] job.does = "remove" -> SelectSeq(list, LAMBDA e : e.id # job.id)
      [] job.does = "exemplar" ->
            [i \in DOMAIN list |-> IF list[i].id = job.id THEN [list[i] EXCEPT !.exemplars = @ + 1] ELSE list[i]]

Change(c) ==
    LET k == client[c].kind
        job == client[c].job
    IN /\ client[c].pc = "loaded" /\ job.does \in {"register", "remove", "exemplar"}
       /\ registry' = [registry EXCEPT ![k] = Changed(@, job)]
       /\ registered' = IF job.does = "register" THEN registered \cup {<<k, operations>>}
                        ELSE IF job.does = "remove" THEN registered \ {<<k, job.id>>} ELSE registered
       /\ client' = [client EXCEPT ![c] = IF registry' = registry THEN Idle ELSE [@ EXCEPT !.pc = "save"]]
       /\ UNCHANGED <<loaded, file, found, reconnaissance, disturbed, operations, crashes>>

\* save(): the list of that moment is written.
Save(c) ==
    /\ client[c].pc = "save"
    /\ file' = [file EXCEPT ![client[c].kind] = Torn]
    /\ client' = [client EXCEPT ![c] = [@ EXCEPT !.pc = "saving", !.read = registry[client[c].kind]]]
    /\ UNCHANGED <<registry, loaded, found, reconnaissance, registered, disturbed, operations, crashes>>

Saved(c) ==
    /\ client[c].pc = "saving"
    /\ file' = [file EXCEPT ![client[c].kind] = client[c].read]
    /\ client' = [client EXCEPT ![c] = Idle]
    /\ UNCHANGED <<registry, loaded, found, reconnaissance, registered, disturbed, operations, crashes>>

Crash ==
    /\ crashes < MaxCrashes /\ crashes' = crashes + 1
    /\ registry' = [k \in Kind |-> <<>>] /\ loaded' = {}
    /\ client' = [c \in Client |-> Idle]
    /\ found' = None /\ reconnaissance' = 0
    /\ disturbed' = (disturbed \/ Busy # {})
    /\ UNCHANGED <<file, registered, operations>>

(***************************************************************************)
(* Looking things up.                                                      *)
(***************************************************************************)

\* detectConcept(): every pattern in the text is worth 30 percent.
ConceptConfidence(item, content) == Min({100, 30 * Cardinality(item.patterns \cap content)})
Tagged(content) ==
    {e.item.name : e \in {d \in ToSet(registry["concepts"]) :
                            ConceptConfidence(d.item, content) >= d.item.threshold}}

\* fillSchema(), with no data from before.
Filled(item, content) == (item.required \cup item.optional) \cap content
MissingSlots(item, content) == item.required \ Filled(item, content)
FilledSchemas(concept, content) ==
    {[schema |-> e.id, filled |-> Filled(e.item, content), missing |-> MissingSlots(e.item, content)] :
        e \in {d \in ToSet(registry["schemas"]) : d.item.concept = concept}}

\* getInvariantsForActionClasses(), getInvariantsForConcepts()
AppliesTo(item, plan, concepts) ==
    \/ \E i \in DOMAIN plan : plan[i].class \in item.classes
    \/ item.concepts \cap concepts # {}

\* The checks of a plan. A rule about the order is about the first step with either word; a rule
\* with none of the known words is never broken.
FirstWith(plan, word) == SelectInSeq(plan, LAMBDA s : word \in s.words)
Breaks(rule, plan) ==
    CASE rule = "irreversible" -> \E i \in DOMAIN plan : plan[i].class = "irreversible" /\ plan[i].status # "awaiting_approval"
      [] rule = "justification" -> \E i \in DOMAIN plan : plan[i].class = "external_write" /\ ~plan[i].justified
      [] rule = "tool" -> \E i \in DOMAIN plan : plan[i].class = "local_only" /\ ~plan[i].tool
      [] rule = "order" ->
            FirstWith(plan, "second") # 0 /\ FirstWith(plan, "first") > FirstWith(plan, "second")
      [] rule = "concurrent" ->
            Cardinality({i \in DOMAIN plan : "delete" \in plan[i].words /\ plan[i].status = "allowed"}) > 1
      [] OTHER -> FALSE

\* Each invariant that applies is checked once.
Violated(plan, concepts) ==
    {e.id : e \in {d \in ToSet(registry["invariants"]) :
                    AppliesTo(d.item, plan, concepts) /\ Breaks(d.item.rule, plan)}}

LookUp(c) ==
    LET job == client[c].job
    IN /\ client[c].pc = "loaded" /\ job.does \in {"tag", "fill", "check"}
       /\ found' = [job |-> job,
                    result |-> CASE job.does = "tag" -> Tagged(job.content)
                                 [] job.does = "fill" -> FilledSchemas(job.concept, job.content)
                                 [] job.does = "check" -> Violated(job.plan, job.concepts)]
       /\ client' = [client EXCEPT ![c] = Idle]
       /\ UNCHANGED <<registry, loaded, file, reconnaissance, registered, disturbed, operations, crashes>>

(***************************************************************************)
(* Cold start: reading comes first, and what cannot be undone needs a yes. *)
(***************************************************************************)

DetermineActionType(class, reversible, readOnly) ==
    IF readOnly /\ reconnaissance < MaxReconnaissance THEN "reconnaissance"
    ELSE IF ~reversible THEN "request_approval"
    ELSE IF class = "local_only" THEN "allow"
    ELSE "ask"

RecordReconnaissance ==
    /\ DetermineActionType("read", TRUE, TRUE) = "reconnaissance"
    /\ reconnaissance' = reconnaissance + 1
    /\ UNCHANGED <<registry, loaded, file, client, found, registered, disturbed, operations, crashes>>

ResetReconnaissance ==
    /\ reconnaissance' = 0
    /\ UNCHANGED <<registry, loaded, file, client, found, registered, disturbed, operations, crashes>>

Start(c) ==
    \/ RegisterConcept(c) \/ RegisterSchema(c) \/ RegisterInvariant(c)
    \/ RemoveConcept(c) \/ RemoveSchema(c) \/ RemoveInvariant(c)
    \/ UpdateExemplars(c) \/ Tag(c) \/ FillSlots(c) \/ CheckInvariants(c)
Step(c) == Load(c) \/ Read(c) \/ Change(c) \/ Save(c) \/ Saved(c) \/ LookUp(c)
Next == Crash \/ RecordReconnaissance \/ ResetReconnaissance \/ \E c \in Client : Start(c) \/ Step(c)

Spec == Init /\ [][Next]_vars

(***************************************************************************)
(* Properties.                                                             *)
(***************************************************************************)

Ids(list) == {list[i].id : i \in DOMAIN list}

TypeOK ==
    /\ loaded \subseteq Kind /\ reconnaissance \in 0..MaxReconnaissance
    /\ \A k \in Kind : \A e \in ToSet(registry[k]) : e.item \in Item(k)
    /\ \A c \in Client : client[c].pc \in {"idle", "load", "reading", "loaded", "save", "saving"}

\* What was registered and not removed is in the file, across ends of the process between
\* operations, and in memory once the registry was read.
RegistriesAreKept ==
    ~disturbed =>
        \A k \in Kind :
            /\ Busy = {} => Ids(file[k]) = {r[2] : r \in {q \in registered : q[1] = k}}
            /\ Busy = {} /\ k \in loaded => file[k] = registry[k]

\* A plan in which nothing was found wrong has no step that cannot be undone and waits for no
\* approval, while an invariant against it is registered, whoever registered it and whenever.
PlansAreGuarded ==
    found # None /\ ~disturbed =>
        LET j == found.job IN
        /\ j.does = "check" /\ found.result = {} =>
            \A i \in DOMAIN j.plan :
                j.plan[i].class = "irreversible" /\ j.plan[i].status # "awaiting_approval" =>
                    \A e \in ToSet(file["invariants"]) :
                        e.item.rule = "irreversible" => "irreversible" \notin e.item.classes
        \* A text is tagged with every registered concept of which it has all patterns.
        /\ j.does = "tag" =>
            \A e \in ToSet(file["concepts"]) :
                e.item.patterns \subseteq j.content /\ Cardinality(e.item.patterns) >= 4 =>
                    e.item.name \in found.result

AbstractionsAreKept == RegistriesAreKept /\ PlansAreGuarded
=============================================================================
