------------------------------ MODULE StoreOps ------------------------------
(***************************************************************************)
(* The recording store's in-memory half: the manifest's vector of entries  *)
(* and the index of the current one (daemon/src/qmdl_store.rs, struct      *)
(* RecordingStore).  Every operation here is a function from the store's   *)
(* old value to its new one, so that the handlers that call several of     *)
(* them under one write lock can be written as compositions.  What reaches *)
(* the disk is in RecordingStore; what the recording task does with the    *)
(* store is in DiagTask.                                                   *)
(***************************************************************************)
EXTENDS Naturals, Sequences, FiniteSets

CONSTANTS
    Names,    \* recording names, numbered in the order of their start times
    Reasons,  \* the stop reasons a recording can be given
    Marks     \* what a later request can set on an entry (upload time, label)

ASSUME NamesAssumption == Names \subseteq Nat \ {0} /\ IsFiniteSet(Names)

\* stop_reason: None
NoReason == "none"

\* No current entry; the entries of the vector are numbered from 1.
None == 0

ManifestEntry ==
    [name: Names, size: Nat, reason: Reasons \cup {NoReason},
     marks: SUBSET Marks]

Store == [entries: Seq(ManifestEntry), current: Nat]

\* The index, when there is one, is an index of the vector: the code indexes
\* manifest.entries with it without a check (get_current_entry).
WellFormed(s) == s \in Store /\ s.current \in 0..Len(s.entries)

EmptyStore == [entries |-> <<>>, current |-> None]

NewManifestEntry(n) ==
    [name |-> n, size |-> 0, reason |-> NoReason, marks |-> {}]

NamesOf(es) == {es[i].name : i \in DOMAIN es}

(***************************************************************************)
(* Lookups.  entry_for_name finds the first entry of that name.            *)
(***************************************************************************)
EntryForName(es, n) ==
    CHOOSE i \in DOMAIN es :
        es[i].name = n /\ \A j \in DOMAIN es : es[j].name = n => i <= j

IsCurrentEntry(s, n) ==
    /\ s.current \in DOMAIN s.entries
    /\ s.entries[s.current].name = n

(***************************************************************************)
(* Operations on the current entry.                                        *)
(***************************************************************************)
CloseCurrentEntry(s) == [s EXCEPT !.current = None]

\* A slip: the index of the entry before the new one.
PushEntryOffByOne(s, n) ==
    [s EXCEPT !.entries = Append(@, NewManifestEntry(n)),
              !.current = Len(s.entries)]

PushEntry(s, n) ==
    [s EXCEPT !.entries = Append(@, NewManifestEntry(n)),
              !.current = Len(s.entries) + 1]

UpdateCurrentEntryQmdlSize(s, bytes) ==
    IF s.current = None THEN s
    ELSE [s EXCEPT !.entries[s.current].size = bytes]

SetCurrentStopReason(s, r) ==
    IF s.current = None THEN s
    ELSE [s EXCEPT !.entries[s.current].reason = r]

(***************************************************************************)
(* Operations on an entry given by name.                                   *)
(***************************************************************************)
SetMark(s, n, k, on) ==
    [s EXCEPT !.entries[EntryForName(s.entries, n)].marks =
        IF on THEN @ \cup {k} ELSE @ \ {k}]

\* Vec::remove
RemoveIndex(es, i) ==
    [j \in 1..(Len(es) - 1) |-> IF j < i THEN es[j] ELSE es[j + 1]]

\* A plausible slip: the index of the current entry is not moved down.
DeleteEntryKeepingIndex(s, n) ==
    LET i == EntryForName(s.entries, n)
    IN [entries |-> RemoveIndex(s.entries, i),
        current |-> IF s.current = i THEN None ELSE s.current]

\* The manifest half of delete_entry, once the entry's files are gone.
DeleteEntry(s, n) ==
    LET i == EntryForName(s.entries, n)
    IN [entries |-> RemoveIndex(s.entries, i),
        current |-> IF s.current = i THEN None
                    ELSE IF s.current > i THEN s.current - 1
                    ELSE s.current]

\* The members of a finite set of numbers, in increasing order.
Rank(S, x) == Cardinality({y \in S : y <= x})
InOrder(S) == [a \in 1..Cardinality(S) |-> CHOOSE x \in S : Rank(S, x) = a]

\* Vec::retain: the entries at the indices in I, in their order.
Retain(es, I) == [a \in 1..Cardinality(I) |-> es[InOrder(I)[a]]]

RetainOnly(es, keep) == Retain(es, {i \in DOMAIN es : es[i].name \in keep})

\* delete_entry of the entries at the indices in I, one after the other: the
\* index of the current entry stays with its entry.
DeleteEntries(s, I) ==
    LET kept == DOMAIN s.entries \ I
    IN [entries |-> Retain(s.entries, kept),
        current |-> IF s.current \in kept THEN Rank(kept, s.current) ELSE None]
=============================================================================
