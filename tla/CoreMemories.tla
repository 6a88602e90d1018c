---------------------------- MODULE CoreMemories ----------------------------
(***************************************************************************)
(* The layers of the memory (src/src/memory/core-memories.ts): an entry    *)
(* moves from the flash file to the warm one and to the recent one, where  *)
(* similar entries are merged and unused ones decay. A caller adds and     *)
(* searches while the maintenance of every minute moves; each reads a file *)
(* and writes it several awaits later, and writeJsonAtomic() truncates the *)
(* file itself. Archive and core files are read but written by nothing;    *)
(* the warm files of all weeks are one file here.                          *)
(***************************************************************************)
EXTENDS Integers, Sequences, SequencesExt, FiniteSets, FiniteSetsExt

CONSTANTS
    Memory, Word,             \* memories, and Word[m]: its keywords
    Torn,                     \* what a file cut short holds
    TwoHours, TwoDays, Week, Month, CompressEvery, ConsolidateEvery,
    MaxFlash, MaxWarm, MaxRecent,
    MaxTime, MaxCrashes, MaxSearches  \* bounds

Process == {"caller", "maintenance"}
Layer == {"flash", "warm", "recent"}

VARIABLES
    clock,
    file,          \* file[l]: the entries of a layer, or Torn; file["links"]: references
    todo,          \* todo[p]: the accesses to files that an operation of p still makes
    lastCompression, lastConsolidation,
    added, dropped,  \* history: memories added, and those dropped by a rule
    searches, crashes,
    disturbed      \* history: operations have overlapped, or a crash has torn a file

vars == <<clock, file, todo, lastCompression, lastConsolidation, added, dropped, searches, crashes,
          disturbed>>

\* An entry stands for the memories in of (originalId, originalIds).
Entry(of) == [of |-> of, at |-> clock, last |-> clock, count |-> 0]
Memories(entries) == UNION {e.of : e \in ToSet(entries)}
Same(e, f) == e.of = f.of /\ e.at = f.at
Capped(entries, max) == SubSeq(entries, Max({1, Len(entries) - max + 1}), Len(entries))
MaxEntries == [flash |-> MaxFlash, warm |-> MaxWarm, recent |-> MaxRecent]
Contents(f) == IF file[f] = Torn THEN <<>> ELSE file[f]
\* What a rule drops: memories of the entries that are not among the ones kept.
Gone(entries, kept) == Memories(entries) \ Memories(kept)

Init ==
    /\ clock = 0
    /\ file = [f \in Layer \cup {"links"} |-> <<>>]
    /\ todo = [p \in Process |-> <<>>]
    /\ lastCompression = -MaxTime /\ lastConsolidation = -MaxTime
    /\ added = {} /\ dropped = {} /\ searches = 0 /\ crashes = 0
    /\ disturbed = FALSE

-----------------------------------------------------------------------------
\* The accesses an operation is made of. "add" and "access" read their file first; "replace"
\* writes what was computed before, and "write" is the second half of any write.
Add(l, of) == [do |-> "add", file |-> l, of |-> of]
Link(l, of) == [do |-> "link", file |-> "links", of |-> <<l, of>>]
Access(e) == [do |-> "access", file |-> "recent", entry |-> e]
Replace(l, entries, drops, adds) ==
    [do |-> "replace", file |-> l, entries |-> entries, drops |-> drops, adds |-> adds]
Load(what) == [do |-> what]

\* addWarmEntry(), addRecentEntry() and the end of addFlashEntry().
AddLinked(l, of) == <<Add(l, of), Link(l, of)>>

Begin(p, accesses) ==
    /\ todo[p] = <<>> /\ todo' = [todo EXCEPT ![p] = accesses]
    /\ disturbed' = (disturbed \/ \E q \in Process : todo[q] # <<>>)

AddFlashEntry ==
    /\ \E m \in Memory \ added :
        /\ Begin("caller", AddLinked("flash", {m}))
        /\ added' = added \cup {m}
    /\ UNCHANGED <<clock, file, lastCompression, lastConsolidation, dropped, searches, crashes>>

\* searchByKeyword(): its reads change nothing, but each hit in the recent layer is counted.
Search ==
    /\ searches < MaxSearches /\ searches' = searches + 1
    /\ \E w \in {Word[m] : m \in Memory} :
        LET hits == SelectSeq(Contents("recent"), LAMBDA e : \E m \in e.of : Word[m] = w)
        IN hits # <<>> /\ Begin("caller", [i \in DOMAIN hits |-> Access(hits[i])])
    /\ UNCHANGED <<clock, file, lastCompression, lastConsolidation, added, dropped, crashes>>

\* runMaintenance(): what is due is noted as done at the time of its start.
RunMaintenance ==
    LET compress == clock - lastCompression > CompressEvery
        consolidate == clock - lastConsolidation > ConsolidateEvery
    IN /\ compress \/ consolidate
       /\ Begin("maintenance",
            (IF compress THEN <<Load("compressToWarm"), Load("compressToRecent")>> ELSE <<>>)
                \o (IF consolidate THEN <<Load("consolidateRecent"), Load("decayUnused")>> ELSE <<>>))
       /\ lastCompression' = IF compress THEN clock ELSE lastCompression
       /\ lastConsolidation' = IF consolidate THEN clock ELSE lastConsolidation
       /\ UNCHANGED <<clock, file, added, dropped, searches, crashes>>

-----------------------------------------------------------------------------
Doing(p, what) == todo[p] # <<>> /\ Head(todo[p]).do = what
\* The first access of p is done; others take its place.
Then(p, accesses) == todo' = [todo EXCEPT ![p] = accesses \o Tail(@)]
Unmoved == UNCHANGED <<clock, lastCompression, lastConsolidation, searches, crashes, disturbed>>

\* Mutation: entries of exactly two hours are neither compressed nor kept.
RipeLater(e) == clock - e.at > TwoHours /\ clock - e.at < TwoDays

\* Entries that compressToWarm() takes from the flash layer, and those it leaves there.
Ripe(e) == clock - e.at >= TwoHours /\ clock - e.at < TwoDays
Fresh(e) == clock - e.at < TwoHours

\* compressToWarm() and compressToRecent(): what is moved is written to the next layer entry by
\* entry, and at last removed from its own; a file that cannot be parsed is left alone.
Compress(p, what, from, to, Moves(_), Stays(_), Expired(_)) ==
    /\ Doing(p, what)
    /\ LET moved == SelectSeq(Contents(from), Moves)
           stay == SelectSeq(Contents(from), Stays)
       IN Then(p, IF file[from] = Torn THEN <<>>
                  ELSE FlattenSeq([i \in DOMAIN moved |-> AddLinked(to, moved[i].of)])
                        \o <<Replace(from, stay, Memories(SelectSeq(Contents(from), Expired)), {})>>)
    /\ UNCHANGED <<file, added, dropped>> /\ Unmoved

CompressToWarm(p) == Compress(p, "compressToWarm", "flash", "warm", Ripe, Fresh, LAMBDA e : clock - e.at >= TwoDays)
CompressToRecent(p) ==
    Compress(p, "compressToRecent", "warm", "recent", LAMBDA e : clock - e.at > Week,
             LAMBDA e : clock - e.at <= Week, LAMBDA e : FALSE)

\* The entry that replaces two similar ones keeps the times and the count of the first.
Merge(e, f) == [e EXCEPT !.of = @ \cup f.of]

Similar(e, f) == \E m \in e.of, n \in f.of : Word[m] = Word[n]

\* consolidateRecent(): every entry is merged with the first similar one behind it.
Consolidated(entries) ==
    LET pair(done, i) ==
            LET later == {j \in (i + 1)..Len(entries) :
                            j \notin done.gone /\ Similar(entries[i], entries[j])}
            IN IF i \in done.gone \/ later = {} THEN done
               ELSE [merged |-> Append(done.merged, Merge(entries[i], entries[Min(later)])),
                     gone |-> done.gone \cup {i, Min(later)}]
        done == FoldLeft(pair, [merged |-> <<>>, gone |-> {}], [i \in DOMAIN entries |-> i])
        remaining == SelectSeq([i \in DOMAIN entries |-> i], LAMBDA i : i \notin done.gone)
    IN [i \in DOMAIN remaining |-> entries[remaining[i]]] \o done.merged

ConsolidateRecent(p) ==
    /\ Doing(p, "consolidateRecent")
    /\ Then(p, <<Replace("recent", Consolidated(Contents("recent")), {}, {})>>)
    /\ UNCHANGED <<file, added, dropped>> /\ Unmoved

Unused(e) == clock - e.last > Month /\ e.count < 3

DecayUnusedMemories(p) ==
    /\ Doing(p, "decayUnused")
    /\ LET entries == Contents("recent")
           kept == SelectSeq(entries, LAMBDA e : ~Unused(e))
       IN Then(p, IF kept = entries THEN <<>>
                  ELSE <<Replace("recent", kept, Gone(entries, kept), {})>>)
    /\ UNCHANGED <<file, added, dropped>> /\ Unmoved

-----------------------------------------------------------------------------
\* The read of addFlashEntry(), which also drops what is older than two days, and of
\* addWarmEntry() and addRecentEntry(); then the oldest beyond the cap are dropped.
ReadToAdd(p) ==
    /\ Doing(p, "add")
    /\ LET a == Head(todo[p])
           entries == Contents(a.file)
           kept == IF a.file = "flash" THEN SelectSeq(entries, LAMBDA e : clock - e.at < TwoDays)
                   ELSE entries
           new == Capped(Append(kept, Entry(a.of)), MaxEntries[a.file])
       IN Then(p, <<Replace(a.file, new, Gone(entries, new), a.of)>>)
    /\ UNCHANGED <<file, added, dropped>> /\ Unmoved

\* updateGlobalLinks(): a reference is added once, and never removed.
ReadToLink(p) ==
    /\ Doing(p, "link")
    /\ LET ref == Head(todo[p]).of
           refs == Contents("links")
       IN Then(p, <<Replace("links", IF ref \in ToSet(refs) THEN refs ELSE Append(refs, ref), {}, {})>>)
    /\ UNCHANGED <<file, added, dropped>> /\ Unmoved

\* updateAccessCount() of the first entry with that id.
ReadToCount(p) ==
    /\ Doing(p, "access")
    /\ LET entries == Contents("recent")
           hit == SelectInSeq(entries, LAMBDA e : Same(e, Head(todo[p]).entry))
       IN Then(p, IF hit = 0 THEN <<>>
                  ELSE <<Replace("recent", [entries EXCEPT ![hit].last = clock,
                                                           ![hit].count = Min({3, @ + 1})], {}, {})>>)
    /\ UNCHANGED <<file, added, dropped>> /\ Unmoved

\* writeJsonAtomic() truncates the file and then fills it.
Truncate(p) ==
    /\ Doing(p, "replace")
    /\ file' = [file EXCEPT ![Head(todo[p]).file] = Torn]
    /\ Then(p, <<[Head(todo[p]) EXCEPT !.do = "write"]>>)
    /\ UNCHANGED <<added, dropped>> /\ Unmoved

Write(p) ==
    /\ Doing(p, "write")
    /\ LET a == Head(todo[p]) IN
        /\ file' = [file EXCEPT ![a.file] = a.entries]
        /\ dropped' = dropped \cup a.drops
    /\ Then(p, <<>>)
    /\ UNCHANGED added /\ Unmoved

Time ==
    /\ clock < MaxTime /\ \A p \in Process : todo[p] = <<>>
    /\ clock' = clock + 1
    /\ UNCHANGED <<file, todo, lastCompression, lastConsolidation, added, dropped, searches, crashes,
                   disturbed>>

\* A crash ends all operations; what an add had not yet written was never there.
Crash ==
    /\ crashes < MaxCrashes /\ crashes' = crashes + 1
    /\ \E p \in Process : todo[p] # <<>>
    /\ todo' = [p \in Process |-> <<>>]
    /\ lastCompression' = -MaxTime /\ lastConsolidation' = -MaxTime
    /\ added' = added \ (UNION {a.of : a \in {b \in ToSet(todo["caller"]) : b.do = "add"}} \cup
                         UNION {a.adds : a \in {b \in ToSet(todo["caller"]) : b.do \in {"replace", "write"}}})
    /\ disturbed' = (disturbed \/ \E f \in DOMAIN file : file[f] = Torn)
    /\ UNCHANGED <<clock, file, dropped, searches>>

Next ==
    \/ AddFlashEntry \/ Search \/ RunMaintenance \/ Time \/ Crash
    \/ \E p \in Process :
        \/ CompressToWarm(p) \/ CompressToRecent(p) \/ ConsolidateRecent(p) \/ DecayUnusedMemories(p)
        \/ ReadToAdd(p) \/ ReadToLink(p) \/ ReadToCount(p) \/ Truncate(p) \/ Write(p)

-----------------------------------------------------------------------------
\* Types: the layers stay within their caps, also when operations overlap or crash.
TypeOK ==
    \A l \in Layer : file[l] # Torn =>
        /\ Len(file[l]) <= MaxEntries[l]
        /\ \A e \in ToSet(file[l]) : e.of \subseteq Memory /\ e.of # {} /\ e.at \in 0..clock

\* A memory that was added is in one of the layers until a rule drops it (age, cap or disuse), also
\* in the middle of a move, after merges, and after a crash between two accesses to the files.
NoMemoryIsLost ==
    (~disturbed /\ \A l \in Layer : file[l] # Torn) =>
        \A m \in added :
            \/ m \in dropped \/ \E l \in Layer : m \in Memories(file[l])
            \/ \E a \in ToSet(todo["caller"]) :
                (a.do = "add" /\ m \in a.of) \/ (a.do = "replace" /\ m \in a.adds)
=============================================================================
