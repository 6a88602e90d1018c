----------------------------- MODULE VectorStore -----------------------------
(***************************************************************************)
(* The store of vectors: an insertion-ordered map in memory, searched in   *)
(* full, and a file that a timer rewrites some time after a change.        *)
(***************************************************************************)
EXTENDS Naturals, SequencesExt

CONSTANTS
    Id, Vector, Note,
    DimensionOf,       \* the dimension of a vector ...
    Similarity,        \* ... and the cosine of each two
    Dimensions,        \* what a start may be configured with
    Writer, None, Torn,
    MaxChanges, MaxCrashes

VARIABLES
    dimension,
    vectors,           \* a sequence of entries, one for each id
    persistScheduled,
    writers,           \* what each writeFile under way writes, and how far it is
    vectorFile, tempFiles,
    running, changes, crashes,
    mixed              \* history: two writes of the file have overlapped since the start

vectorVars == <<dimension, vectors, persistScheduled, writers, vectorFile, tempFiles, running, changes,
                crashes, mixed>>

Ids == {vectors[i].id : i \in DOMAIN vectors}
Place(id) == CHOOSE i \in DOMAIN vectors : vectors[i].id = id

\* A key that is set again keeps its place.
SetEntry(entry) ==
    IF entry.id \in Ids THEN [vectors EXCEPT ![Place(entry.id)] = entry] ELSE Append(vectors, entry)

------------------------------------------------------------------------------
(* Searching *)

Matching(filter) == SelectSeq(vectors, LAMBDA e : filter = None \/ e.metadata = filter)

\* In descending order of the score; the sort is stable.
Before(s, i, j, query) ==
    LET a == Similarity[<<query, s[i].vector>>]
        b == Similarity[<<query, s[j].vector>>]
    IN  a > b \/ (a = b /\ i < j)

Search(query, k, filter) ==
    LET s == Matching(filter)
        order == SetToSortSeq(DOMAIN s, LAMBDA i, j : Before(s, i, j, query))
    IN  [n \in 1 .. (IF k < Len(s) THEN k ELSE Len(s)) |-> s[order[n]]]

------------------------------------------------------------------------------
(* Changes *)

Changes == running /\ changes < MaxChanges /\ changes' = changes + 1

SchedulePersist == persistScheduled' = TRUE

\* A vector of another dimension is refused.
Add(id, vector, note) ==
    /\ Changes
    /\ IF DimensionOf[vector] = dimension
       THEN vectors' = SetEntry([id |-> id, vector |-> vector, metadata |-> note]) /\ SchedulePersist
       ELSE UNCHANGED <<vectors, persistScheduled>>
    /\ UNCHANGED <<dimension, writers, vectorFile, tempFiles, running, crashes, mixed>>

Delete(id) ==
    /\ Changes /\ id \in Ids
    /\ vectors' = SelectSeq(vectors, LAMBDA e : e.id # id)
    /\ SchedulePersist
    /\ UNCHANGED <<dimension, writers, vectorFile, tempFiles, running, crashes, mixed>>

UpdateMetadata(id, note) ==
    /\ Changes /\ id \in Ids
    /\ vectors' = [vectors EXCEPT ![Place(id)].metadata = note]
    /\ SchedulePersist
    /\ UNCHANGED <<dimension, writers, vectorFile, tempFiles, running, crashes, mixed>>

------------------------------------------------------------------------------
(* The file *)

\* persist() takes what there is and writes it twice: to a file of its own, then over the real one.
Persist(w, contents) ==
    /\ writers[w] = None
    /\ writers' = [writers EXCEPT ![w] = [at |-> "temp", dimension |-> dimension, entries |-> contents]]

\* The timer. Changes from now on set it again.
TimerFires(w) ==
    /\ running /\ persistScheduled
    /\ Persist(w, vectors)
    /\ persistScheduled' = FALSE
    /\ UNCHANGED <<dimension, vectors, vectorFile, tempFiles, running, changes, crashes, mixed>>

Clear(w) ==
    /\ Changes
    /\ vectors' = <<>>
    /\ Persist(w, <<>>)
    /\ UNCHANGED <<dimension, persistScheduled, vectorFile, tempFiles, running, crashes, mixed>>

\* The temporary file is complete; the real one is opened and is empty until it is written.
OpenFile(w) ==
    /\ writers[w] # None /\ writers[w].at = "temp"
    /\ writers' = [writers EXCEPT ![w].at = "final"]
    /\ tempFiles' = tempFiles \union {w}
    /\ vectorFile' = Torn
    /\ mixed' = ((\E v \in Writer \ {w} : writers[v] # None) \/ mixed)
    /\ UNCHANGED <<dimension, vectors, persistScheduled, running, changes, crashes>>

\* What two writes at once leave behind is what one of them wrote, or neither.
WriteFile(w) ==
    /\ writers[w] # None /\ writers[w].at = "final"
    /\ writers' = [writers EXCEPT ![w] = None]
    /\ tempFiles' = tempFiles \ {w}
    /\ LET written == [dimension |-> writers[w].dimension, entries |-> writers[w].entries]
       IN  \/ vectorFile' = written
           \/ (\E v \in Writer \ {w} : writers[v] # None /\ writers[v].at = "final") /\ vectorFile' = Torn
    /\ UNCHANGED <<dimension, vectors, persistScheduled, running, changes, crashes, mixed>>

Crash ==
    /\ running /\ crashes < MaxCrashes
    /\ running' = FALSE /\ crashes' = crashes + 1
    /\ vectors' = <<>> /\ persistScheduled' = FALSE
    /\ writers' = [w \in Writer |-> None]
    /\ UNCHANGED <<dimension, vectorFile, tempFiles, changes, mixed>>

\* A file that is missing, torn or of another dimension is no file.
Load(d) ==
    IF vectorFile \in {None, Torn} THEN <<>>
    ELSE IF vectorFile.dimension # d THEN <<>> ELSE vectorFile.entries

Initialize(d) ==
    /\ ~running /\ running' = TRUE
    /\ dimension' = d
    /\ vectors' = Load(d)
    /\ mixed' = FALSE
    /\ UNCHANGED <<persistScheduled, writers, vectorFile, tempFiles, changes, crashes>>

VectorInit ==
    /\ dimension \in Dimensions
    /\ vectors = <<>> /\ persistScheduled = FALSE
    /\ writers = [w \in Writer |-> None]
    /\ vectorFile = None /\ tempFiles = {}
    /\ running = TRUE /\ changes = 0 /\ crashes = 0 /\ mixed = FALSE

VectorNext ==
    \/ \E id \in Id, vector \in Vector, note \in Note : Add(id, vector, note)
    \/ \E id \in Id : Delete(id) \/ (\E note \in Note : UpdateMetadata(id, note))
    \/ \E w \in Writer : TimerFires(w) \/ Clear(w) \/ OpenFile(w) \/ WriteFile(w)
    \/ Crash
    \/ \E d \in Dimensions : Initialize(d)

------------------------------------------------------------------------------
VectorTypeOK ==
    /\ \A i \in DOMAIN vectors : DimensionOf[vectors[i].vector] = dimension
    /\ \A i, j \in DOMAIN vectors : vectors[i].id = vectors[j].id => i = j

AtRest == running /\ ~persistScheduled /\ \A w \in Writer : writers[w] = None

\* Once nothing is due any more the file holds what memory holds - unless writes have overlapped,
\* it was torn or made for vectors of another dimension. (schedulePersist, persist, clear, load)
FileIsCurrent ==
    AtRest /\ ~mixed /\ vectorFile # Torn =>
        \/ vectorFile = None /\ vectors = <<>>
        \/ vectorFile # None /\ vectorFile.dimension # dimension /\ vectors = <<>>
        \/ vectorFile = [dimension |-> dimension, entries |-> vectors]

\* A file is torn only by a write that is under way, that a crash has cut, or that another overtook.
FileIsWhole == vectorFile = Torn => mixed \/ crashes > 0 \/ \E w \in Writer : writers[w] # None

\* A search finds the nearest, in order, and nothing the filter excludes. (search)
NearestAreFound ==
    \A query \in {v \in Vector : DimensionOf[v] = dimension}, filter \in Note \union {None} :
        LET found == Search(query, 1, filter)
        IN  \A i \in DOMAIN vectors : filter = None \/ vectors[i].metadata = filter =>
               /\ found # <<>>
               /\ Similarity[<<query, vectors[i].vector>>] <= Similarity[<<query, found[1].vector>>]

VectorsAreKept == VectorTypeOK /\ FileIsCurrent /\ FileIsWhole /\ NearestAreFound
===============================================================================
