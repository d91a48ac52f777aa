--------------------------- MODULE StoreOpsProofs ---------------------------
(***************************************************************************)
(* What the operations of StoreOps do to a store, for every store, name    *)
(* and size: the lemmas that the proofs of RecordingStore, WebdavUpload    *)
(* and DiagTask share.                                                     *)
(***************************************************************************)
EXTENDS StoreOps, FiniteSetTheorems, WellFoundedInduction, TLAPS

\* A nonempty set of natural numbers has a least member; the first entry of a
\* name (entry_for_name) is found that way.
LEMMA LeastNatural ==
    ASSUME NEW T, T \subseteq Nat, T # {}
    PROVE  \E x \in T : \A y \in T : x <= y
<1> DEFINE R == OpToRel(<, Nat)
<1>1. \E x \in T : \A y \in T : ~ (<<y, x>> \in R)
  <2>1. IsWellFoundedOn(R, Nat)
    BY NatLessThanWellFounded
  <2> HIDE DEF R
  <2> QED
    BY <2>1, WFMin
<1>2. \A x, y \in Nat : ~ (<<y, x>> \in R) => x <= y
  BY DEF OpToRel
<1> QED
  BY <1>1, <1>2

\* entry_for_name returns an index of the manifest that carries the name.
LEMMA EntryForNameFinds ==
    ASSUME NEW es \in Seq(ManifestEntry), NEW n \in NamesOf(es)
    PROVE  EntryForName(es, n) \in DOMAIN es /\ es[EntryForName(es, n)].name = n
<1> DEFINE T == {i \in DOMAIN es : es[i].name = n}
<1>1. T \subseteq Nat /\ T # {}
  BY DEF NamesOf
<1>2. \E x \in T : \A y \in T : x <= y
  <2> HIDE DEF T
  <2> QED BY <1>1, LeastNatural
<1>3. \E i \in DOMAIN es :
          es[i].name = n /\ \A j \in DOMAIN es : es[j].name = n => i <= j
  BY <1>2
<1> QED
  BY <1>3, Zenon DEF EntryForName

\* Removing an index yields a manifest that keeps every other name.
LEMMA RemoveIndexKeeps ==
    ASSUME NEW es \in Seq(ManifestEntry), NEW i \in DOMAIN es
    PROVE  /\ RemoveIndex(es, i) \in Seq(ManifestEntry)
           /\ Len(RemoveIndex(es, i)) = Len(es) - 1
           /\ \A m \in NamesOf(es) : m # es[i].name => m \in NamesOf(RemoveIndex(es, i))
<1> DEFINE t == RemoveIndex(es, i)
<1>1. Len(es) \in Nat /\ DOMAIN es = 1..Len(es) /\ \A k \in DOMAIN es : es[k] \in ManifestEntry
  OBVIOUS
<1>2. \A j \in 1..(Len(es) - 1) : t[j] \in ManifestEntry
  BY <1>1 DEF RemoveIndex
<1>3. t \in Seq(ManifestEntry) /\ Len(t) = Len(es) - 1
  BY <1>1, <1>2 DEF RemoveIndex
<1>4. ASSUME NEW m \in NamesOf(es), m # es[i].name
      PROVE  m \in NamesOf(t)
  <2>1. PICK k \in DOMAIN es : es[k].name = m
    BY DEF NamesOf
  <2>2. k # i
    BY <1>4, <2>1
  <2>3. CASE k < i
    <3>1. k \in DOMAIN t /\ t[k] = es[k]
      BY <1>1, <1>3, <2>3 DEF RemoveIndex
    <3> QED BY <3>1, <2>1 DEF NamesOf
  <2>4. CASE k > i
    <3>1. k - 1 \in DOMAIN t /\ t[k - 1] = es[k]
      BY <1>1, <1>3, <2>4 DEF RemoveIndex
    <3> QED BY <3>1, <2>1 DEF NamesOf
  <2> QED BY <2>2, <2>3, <2>4, <1>1
<1> QED
  BY <1>3, <1>4

\* InOrder enumerates a finite set of numbers: the rank of a member is its
\* place.  Ranks are different, and there are as many as members, so every
\* place is taken.
LEMMA InOrderIs ==
    ASSUME NEW S \in SUBSET Nat, IsFiniteSet(S)
    PROVE  /\ Cardinality(S) \in Nat
           /\ \A a \in 1..Cardinality(S) : InOrder(S)[a] \in S
           /\ \A x \in S : Rank(S, x) \in 1..Cardinality(S) /\ InOrder(S)[Rank(S, x)] = x
<1> DEFINE c == Cardinality(S)
           Upto(x) == {y \in S : y <= x}
           f == [x \in S |-> Rank(S, x)]
<1>1. c \in Nat
  BY FS_CardinalityType
<1>2. ASSUME NEW x \in S
      PROVE  IsFiniteSet(Upto(x)) /\ Rank(S, x) = Cardinality(Upto(x)) /\ Rank(S, x) \in 1..c
  <2>1. Upto(x) \in SUBSET S /\ x \in Upto(x)
    OBVIOUS
  <2>2. Rank(S, x) = Cardinality(Upto(x))
    BY DEF Rank
  <2> HIDE DEF Upto
  <2>3. /\ IsFiniteSet(Upto(x)) /\ Cardinality(Upto(x)) <= c
        /\ Cardinality(Upto(x)) \in Nat /\ Cardinality(Upto(x)) # 0
    BY <2>1, FS_Subset, FS_CardinalityType, FS_EmptySet
  <2> QED BY <1>1, <2>2, <2>3
<1>3. ASSUME NEW x \in S, NEW y \in S, x < y
      PROVE  Rank(S, x) # Rank(S, y)
  <2>1. Upto(x) \in SUBSET Upto(y) /\ Upto(x) # Upto(y)
    <3>1. y \in Upto(y) /\ y \notin Upto(x)
      BY <1>3
    <3>2. \A z \in S : z <= x => z <= y
      BY <1>3
    <3>3. \A z \in Upto(x) : z \in Upto(y)
      BY <3>2
    <3> QED BY <3>1, <3>3
  <2> HIDE DEF Upto
  <2> QED BY <1>2, <2>1, FS_Subset
<1>4. \A x, y \in S : Rank(S, x) = Rank(S, y) => x = y
  BY <1>3
<1>5. f \in Injection(S, 1..c)
  <2>1. f \in [S -> 1..c]
    BY <1>2
  <2>2. \A x, y \in S : f[x] = f[y] => x = y
    BY <1>4
  <2> HIDE DEF f
  <2> QED BY <2>1, <2>2 DEF Injection, IsInjective
<1>6. f \in Surjection(S, 1..c)
  <2>1. IsFiniteSet(1..c) /\ Cardinality(1..c) = c
    BY <1>1, FS_Interval
  <2> HIDE DEF f
  <2> QED BY <1>5, <2>1, FS_Injection
<1>7. \A a \in 1..c : \E x \in S : Rank(S, x) = a
  BY <1>6 DEF Surjection
<1>8. \A a \in 1..c : InOrder(S)[a] \in S /\ Rank(S, InOrder(S)[a]) = a
  BY <1>7 DEF InOrder
<1>9. \A x \in S : InOrder(S)[Rank(S, x)] = x
  BY <1>2, <1>4, <1>8
<1> QED BY <1>1, <1>2, <1>8, <1>9

\* retain yields a manifest of the entries at the kept indices, each at the
\* rank of its index, and no others.
LEMMA RetainIs ==
    ASSUME NEW es \in Seq(ManifestEntry), NEW I \in SUBSET DOMAIN es
    PROVE  /\ Retain(es, I) \in Seq(ManifestEntry)
           /\ \A a \in DOMAIN Retain(es, I) : \E i \in I : Retain(es, I)[a] = es[i]
           /\ \A i \in I : /\ Rank(I, i) \in DOMAIN Retain(es, I)
                           /\ Retain(es, I)[Rank(I, i)] = es[i]
           /\ \A i \in I : Rank(I, i) \in Nat \ {0}
<1> DEFINE c == Cardinality(I)
           t == Retain(es, I)
<1>1. I \in SUBSET Nat /\ IsFiniteSet(I)
  <2>1. IsFiniteSet(1..Len(es)) /\ I \in SUBSET (1..Len(es))
    BY FS_Interval
  <2> QED BY <2>1, FS_Subset
<1>2. /\ c \in Nat
      /\ \A a \in 1..c : InOrder(I)[a] \in I
      /\ \A i \in I : Rank(I, i) \in 1..c /\ InOrder(I)[Rank(I, i)] = i
  BY <1>1, InOrderIs
<1> HIDE DEF c
<1>3. t = [a \in 1..c |-> es[InOrder(I)[a]]]
  BY DEF Retain, c
<1>4. \A a \in 1..c : es[InOrder(I)[a]] \in ManifestEntry
  BY <1>2
<1>5. t \in Seq(ManifestEntry) /\ DOMAIN t = 1..c
  BY <1>2, <1>3, <1>4
<1> HIDE DEF t
<1>6. \A a \in 1..c : t[a] = es[InOrder(I)[a]]
  BY <1>3
<1> QED BY <1>2, <1>5, <1>6 DEF t

\* delete_all_entries yields a manifest with exactly the kept names of the old
\* one.
LEMMA RetainOnlyKeeps ==
    ASSUME NEW es \in Seq(ManifestEntry), NEW keep
    PROVE  /\ RetainOnly(es, keep) \in Seq(ManifestEntry)
           /\ NamesOf(RetainOnly(es, keep)) = NamesOf(es) \cap keep
<1> DEFINE I == {i \in DOMAIN es : es[i].name \in keep}
           t == RetainOnly(es, keep)
<1>1. t = Retain(es, I) /\ I \in SUBSET DOMAIN es
  BY DEF RetainOnly
<1>2. /\ t \in Seq(ManifestEntry)
      /\ \A a \in DOMAIN t : \E i \in I : t[a] = es[i]
      /\ \A i \in I : Rank(I, i) \in DOMAIN t /\ t[Rank(I, i)] = es[i]
  <2> HIDE DEF I, t
  <2> QED BY <1>1, RetainIs
<1> HIDE DEF t
<1>3. ASSUME NEW m \in NamesOf(t) PROVE m \in NamesOf(es) \cap keep
  <2>1. PICK a \in DOMAIN t : t[a].name = m
    BY DEF NamesOf
  <2>2. PICK i \in I : t[a] = es[i]
    BY <1>2
  <2> QED BY <2>1, <2>2 DEF NamesOf
<1>4. ASSUME NEW m \in NamesOf(es) \cap keep PROVE m \in NamesOf(t)
  <2>1. PICK i \in DOMAIN es : es[i].name = m
    BY DEF NamesOf
  <2>2. i \in I
    BY <2>1, <1>4
  <2> HIDE DEF I
  <2>3. Rank(I, i) \in DOMAIN t /\ t[Rank(I, i)].name = m
    BY <1>2, <2>1, <2>2
  <2> QED BY <2>3 DEF NamesOf
<1> QED BY <1>2, <1>3, <1>4 DEF t

\* close_current_entry forgets the index and leaves the vector alone.
LEMMA CloseCurrentEntryKeeps ==
    ASSUME NEW s, WellFormed(s)
    PROVE  /\ WellFormed(CloseCurrentEntry(s))
           /\ CloseCurrentEntry(s).entries = s.entries
           /\ CloseCurrentEntry(s).current = None
BY DEF WellFormed, Store, CloseCurrentEntry, None

\* new_entry appends an entry of that name and makes it the current one.
LEMMA PushEntryAdds ==
    ASSUME NEW s, WellFormed(s), NEW n \in Names
    PROVE  /\ WellFormed(PushEntry(s, n))
           /\ PushEntry(s, n).current # None
           /\ PushEntry(s, n).entries[PushEntry(s, n).current].name = n
           /\ NamesOf(PushEntry(s, n).entries) = NamesOf(s.entries) \cup {n}
<1> DEFINE e == NewManifestEntry(n)
           es == Append(s.entries, e)
<1>1. s.entries \in Seq(ManifestEntry) /\ s \in Store
  BY DEF WellFormed, Store
<1>2. e \in ManifestEntry /\ e.name = n
  BY DEF NewManifestEntry, ManifestEntry
<1> HIDE DEF e
<1>3. /\ es \in Seq(ManifestEntry) /\ Len(es) = Len(s.entries) + 1
      /\ es[Len(s.entries) + 1] = e
      /\ \A i \in DOMAIN s.entries : es[i] = s.entries[i]
  BY <1>1, <1>2
<1>4. PushEntry(s, n) = [s EXCEPT !.entries = es, !.current = Len(s.entries) + 1]
  BY DEF PushEntry, e
<1> HIDE DEF es
<1>L. Len(s.entries) \in Nat /\ DOMAIN s.entries = 1..Len(s.entries)
  BY <1>1
<1>5. PushEntry(s, n).entries = es /\ PushEntry(s, n).current = Len(s.entries) + 1
      /\ PushEntry(s, n) \in Store
  <2>1. Len(s.entries) + 1 \in Nat
    BY <1>L
  <2> QED BY <1>1, <1>3, <1>4, <2>1 DEF Store
<1>6. DOMAIN es = DOMAIN s.entries \cup {Len(s.entries) + 1}
  <2>1. DOMAIN es = 1..(Len(s.entries) + 1)
    BY <1>3
  <2> QED BY <1>L, <2>1
<1>7. NamesOf(es) = NamesOf(s.entries) \cup {n}
  <2>1. ASSUME NEW m \in NamesOf(es) PROVE m \in NamesOf(s.entries) \cup {n}
    BY <1>2, <1>3, <1>6 DEF NamesOf
  <2>2. ASSUME NEW m \in NamesOf(s.entries) PROVE m \in NamesOf(es)
    BY <1>3, <1>6 DEF NamesOf
  <2>3. n \in NamesOf(es)
    BY <1>2, <1>3, <1>6 DEF NamesOf
  <2> QED BY <2>1, <2>2, <2>3
<1> QED
  BY <1>L, <1>2, <1>3, <1>5, <1>7 DEF WellFormed, None

\* Changing fields other than the name of one entry keeps all names in place.
LEMMA EditKeepsNames ==
    ASSUME NEW es \in Seq(ManifestEntry), NEW i \in DOMAIN es,
           NEW e \in ManifestEntry, e.name = es[i].name
    PROVE  LET t == [es EXCEPT ![i] = e]
           IN /\ t \in Seq(ManifestEntry) /\ Len(t) = Len(es)
              /\ NamesOf(t) = NamesOf(es)
              /\ \A j \in DOMAIN es : t[j].name = es[j].name
<1> DEFINE t == [es EXCEPT ![i] = e]
<1>1. t \in Seq(ManifestEntry) /\ Len(t) = Len(es) /\ DOMAIN t = DOMAIN es
  OBVIOUS
<1>2. \A j \in DOMAIN es : t[j].name = es[j].name
  OBVIOUS
<1> HIDE DEF t
<1>3. NamesOf(t) = NamesOf(es)
  BY <1>1, <1>2 DEF NamesOf
<1> QED
  BY <1>1, <1>2, <1>3 DEF t

\* The store after an edit of one entry: same names, same current entry.
SameEntries(s, t) ==
    /\ WellFormed(t)
    /\ t.current = s.current
    /\ NamesOf(t.entries) = NamesOf(s.entries)
    /\ Len(t.entries) = Len(s.entries)
    /\ \A j \in DOMAIN s.entries : t.entries[j].name = s.entries[j].name

\* update_current_entry_qmdl_size edits the current entry, if there is one.
LEMMA UpdateSizeKeeps ==
    ASSUME NEW s, WellFormed(s), NEW b \in Nat
    PROVE  SameEntries(s, UpdateCurrentEntryQmdlSize(s, b))
<1>1. s \in Store /\ s.entries \in Seq(ManifestEntry)
  BY DEF WellFormed, Store
<1>2. CASE s.current = None
  BY <1>2 DEF UpdateCurrentEntryQmdlSize, SameEntries
<1>3. CASE s.current # None
  <2> DEFINE e == [s.entries[s.current] EXCEPT !.size = b]
             t == [s.entries EXCEPT ![s.current] = e]
  <2>1. s.current \in DOMAIN s.entries
    BY <1>1, <1>3 DEF WellFormed, None
  <2>2. e \in ManifestEntry /\ e.name = s.entries[s.current].name
    <3>1. s.entries[s.current] \in ManifestEntry
      BY <1>1, <2>1
    <3> QED BY <3>1 DEF ManifestEntry
  <2>3. UpdateCurrentEntryQmdlSize(s, b) = [s EXCEPT !.entries = t]
    BY <1>1, <1>3, <2>1 DEF UpdateCurrentEntryQmdlSize, Store
  <2> HIDE DEF e
  <2>4. /\ t \in Seq(ManifestEntry) /\ Len(t) = Len(s.entries)
        /\ NamesOf(t) = NamesOf(s.entries)
        /\ \A j \in DOMAIN s.entries : t[j].name = s.entries[j].name
    BY <1>1, <2>1, <2>2, EditKeepsNames
  <2> HIDE DEF t
  <2> QED
    BY <1>1, <2>3, <2>4 DEF SameEntries, WellFormed, Store
<1> QED BY <1>2, <1>3

\* set_current_stop_reason edits the current entry, if there is one.
LEMMA SetReasonKeeps ==
    ASSUME NEW s, WellFormed(s), NEW r \in Reasons \cup {NoReason}
    PROVE  SameEntries(s, SetCurrentStopReason(s, r))
<1>1. s \in Store /\ s.entries \in Seq(ManifestEntry)
  BY DEF WellFormed, Store
<1>2. CASE s.current = None
  BY <1>2 DEF SetCurrentStopReason, SameEntries
<1>3. CASE s.current # None
  <2> DEFINE e == [s.entries[s.current] EXCEPT !.reason = r]
             t == [s.entries EXCEPT ![s.current] = e]
  <2>1. s.current \in DOMAIN s.entries
    BY <1>1, <1>3 DEF WellFormed, None
  <2>2. e \in ManifestEntry /\ e.name = s.entries[s.current].name
    <3>1. s.entries[s.current] \in ManifestEntry
      BY <1>1, <2>1
    <3> QED BY <3>1 DEF ManifestEntry
  <2>3. SetCurrentStopReason(s, r) = [s EXCEPT !.entries = t]
    BY <1>1, <1>3, <2>1 DEF SetCurrentStopReason, Store
  <2> HIDE DEF e
  <2>4. /\ t \in Seq(ManifestEntry) /\ Len(t) = Len(s.entries)
        /\ NamesOf(t) = NamesOf(s.entries)
        /\ \A j \in DOMAIN s.entries : t[j].name = s.entries[j].name
    BY <1>1, <2>1, <2>2, EditKeepsNames
  <2> HIDE DEF t
  <2> QED
    BY <1>1, <2>3, <2>4 DEF SameEntries, WellFormed, Store
<1> QED BY <1>2, <1>3

\* Marking an entry edits the first entry of that name.
LEMMA SetMarkKeeps ==
    ASSUME NEW s, WellFormed(s), NEW n \in NamesOf(s.entries),
           NEW k \in Marks, NEW on \in BOOLEAN
    PROVE  SameEntries(s, SetMark(s, n, k, on))
<1>1. s \in Store /\ s.entries \in Seq(ManifestEntry)
  BY DEF WellFormed, Store
<1> DEFINE i == EntryForName(s.entries, n)
           old == s.entries[i].marks
           new == IF on THEN old \cup {k} ELSE old \ {k}
           e == [s.entries[i] EXCEPT !.marks = new]
           t == [s.entries EXCEPT ![i] = e]
<1>2. i \in DOMAIN s.entries
  BY <1>1, EntryForNameFinds
<1>3. SetMark(s, n, k, on) = [s EXCEPT !.entries = t]
  BY <1>1, <1>2 DEF SetMark, Store
<1> HIDE DEF i
<1>0. s.entries[i] \in ManifestEntry
  BY <1>1, <1>2
<1>4. old \in SUBSET Marks
  BY <1>0 DEF ManifestEntry
<1>5. new \in SUBSET Marks
  BY <1>4
<1> HIDE DEF new
<1>6. e \in ManifestEntry /\ e.name = s.entries[i].name
  BY <1>0, <1>5 DEF ManifestEntry
<1> HIDE DEF e
<1>7. /\ t \in Seq(ManifestEntry) /\ Len(t) = Len(s.entries)
      /\ NamesOf(t) = NamesOf(s.entries)
      /\ \A j \in DOMAIN s.entries : t[j].name = s.entries[j].name
  BY <1>1, <1>2, <1>6, EditKeepsNames
<1> HIDE DEF t
<1> QED
  BY <1>1, <1>3, <1>7 DEF SameEntries, WellFormed, Store

\* delete_entry keeps every other name, and the current entry keeps its name.
LEMMA DeleteEntryKeeps ==
    ASSUME NEW s, WellFormed(s), NEW n \in NamesOf(s.entries)
    PROVE  LET t == DeleteEntry(s, n)
           IN /\ WellFormed(t)
              /\ \A m \in NamesOf(s.entries) : m # n => m \in NamesOf(t.entries)
              /\ t.current # None =>
                    /\ s.current # None
                    /\ t.entries[t.current].name = s.entries[s.current].name
<1> DEFINE i == EntryForName(s.entries, n)
           t == DeleteEntry(s, n)
<1>1. s \in Store /\ s.entries \in Seq(ManifestEntry) /\ s.current \in 0..Len(s.entries)
  BY DEF WellFormed, Store
<1>2. i \in DOMAIN s.entries /\ s.entries[i].name = n
  BY <1>1, EntryForNameFinds
<1>3. /\ RemoveIndex(s.entries, i) \in Seq(ManifestEntry)
      /\ Len(RemoveIndex(s.entries, i)) = Len(s.entries) - 1
      /\ \A m \in NamesOf(s.entries) : m # n => m \in NamesOf(RemoveIndex(s.entries, i))
  BY <1>1, <1>2, RemoveIndexKeeps
<1>4. /\ t.entries = RemoveIndex(s.entries, i)
      /\ t.current = IF s.current = i THEN None
                     ELSE IF s.current > i THEN s.current - 1 ELSE s.current
      /\ t = [entries |-> t.entries, current |-> t.current]
  BY DEF DeleteEntry
<1> HIDE DEF i, t
<1>5. t.current \in 0..Len(t.entries)
  BY <1>1, <1>2, <1>3, <1>4 DEF None
<1>6. WellFormed(t)
  BY <1>3, <1>4, <1>5 DEF WellFormed, Store
<1>7. ASSUME t.current # None
      PROVE  s.current # None /\ t.entries[t.current].name = s.entries[s.current].name
  <2>1. s.current # i /\ s.current # None
    BY <1>1, <1>2, <1>4, <1>7 DEF None
  <2>2. t.entries[t.current] = s.entries[s.current]
    BY <1>1, <1>2, <1>3, <1>4, <1>5, <1>7, <2>1 DEF RemoveIndex, None
  <2> QED BY <2>1, <2>2
<1> QED BY <1>3, <1>4, <1>6, <1>7 DEF t

(***************************************************************************)
(* What the operations leave alone, entry by entry.                        *)
(***************************************************************************)
\* new_entry leaves every older entry where and as it is.
LEMMA PushEntryIs ==
    ASSUME NEW s, WellFormed(s), NEW n \in Names
    PROVE  LET t == PushEntry(s, n)
           IN /\ t.current = Len(s.entries) + 1
              /\ DOMAIN t.entries = DOMAIN s.entries \cup {t.current}
              /\ t.current \notin DOMAIN s.entries
              /\ t.entries[t.current] = NewManifestEntry(n)
              /\ \A i \in DOMAIN s.entries : t.entries[i] = s.entries[i]
<1> DEFINE e == NewManifestEntry(n)
           t == PushEntry(s, n)
<1>1. /\ s.entries \in Seq(ManifestEntry) /\ s \in Store
      /\ Len(s.entries) \in Nat /\ DOMAIN s.entries = 1..Len(s.entries)
  BY DEF WellFormed, Store
<1>2. e \in ManifestEntry
  BY DEF NewManifestEntry, ManifestEntry
<1>3. t.entries = Append(s.entries, e) /\ t.current = Len(s.entries) + 1
  BY <1>1 DEF PushEntry, Store
<1> HIDE DEF e, t
<1>4. /\ Len(t.entries) = Len(s.entries) + 1
      /\ DOMAIN t.entries = 1..(Len(s.entries) + 1)
      /\ t.entries[Len(s.entries) + 1] = e
      /\ \A i \in DOMAIN s.entries : t.entries[i] = s.entries[i]
  BY <1>1, <1>2, <1>3
<1> QED BY <1>1, <1>3, <1>4 DEF t, e

\* Marking an entry leaves every size, and every entry of another name, alone.
LEMMA SetMarkIs ==
    ASSUME NEW s, WellFormed(s), NEW n \in NamesOf(s.entries),
           NEW k \in Marks, NEW on \in BOOLEAN
    PROVE  /\ \A j \in DOMAIN s.entries :
                SetMark(s, n, k, on).entries[j].size = s.entries[j].size
           /\ \A j \in DOMAIN s.entries :
                \/ SetMark(s, n, k, on).entries[j] = s.entries[j]
                \/ s.entries[j].name = n
<1>1. s \in Store /\ s.entries \in Seq(ManifestEntry)
  BY DEF WellFormed, Store
<1> DEFINE i == EntryForName(s.entries, n)
           old == s.entries[i].marks
           new == IF on THEN old \cup {k} ELSE old \ {k}
           e == [s.entries[i] EXCEPT !.marks = new]
           t == [s.entries EXCEPT ![i] = e]
<1>2. i \in DOMAIN s.entries /\ s.entries[i].name = n
  BY <1>1, EntryForNameFinds
<1>3. SetMark(s, n, k, on) = [s EXCEPT !.entries = t]
  BY <1>1, <1>2 DEF SetMark, Store
<1> HIDE DEF i
<1>4. s.entries[i] \in ManifestEntry
  BY <1>1, <1>2
<1>5. e.size = s.entries[i].size
  BY <1>4 DEF ManifestEntry
<1> HIDE DEF e
<1>7. SetMark(s, n, k, on).entries = t
  BY <1>1, <1>3 DEF Store
<1>8. \A j \in DOMAIN s.entries : t[j] = IF j = i THEN e ELSE s.entries[j]
  BY <1>1, <1>2
<1> HIDE DEF t
<1> QED BY <1>2, <1>5, <1>7, <1>8

\* delete_entry lists nothing new: what is left are entries of before, and the
\* current one, if still there, is the one of before.
LEMMA DeleteEntryIs ==
    ASSUME NEW s, WellFormed(s), NEW n \in NamesOf(s.entries)
    PROVE  LET t == DeleteEntry(s, n)
           IN /\ \A j \in DOMAIN t.entries : \E k \in DOMAIN s.entries :
                    t.entries[j] = s.entries[k]
              /\ t.current \in DOMAIN t.entries =>
                    /\ s.current \in DOMAIN s.entries
                    /\ t.entries[t.current] = s.entries[s.current]
<1> DEFINE i == EntryForName(s.entries, n)
           t == DeleteEntry(s, n)
<1>1. /\ s.entries \in Seq(ManifestEntry) /\ s.current \in 0..Len(s.entries)
      /\ Len(s.entries) \in Nat /\ DOMAIN s.entries = 1..Len(s.entries)
  BY DEF WellFormed, Store
<1>2. i \in DOMAIN s.entries
  BY <1>1, EntryForNameFinds
<1>3. /\ t.entries = RemoveIndex(s.entries, i)
      /\ t.current = IF s.current = i THEN None
                     ELSE IF s.current > i THEN s.current - 1 ELSE s.current
  BY DEF DeleteEntry
<1> HIDE DEF i, t
<1>4. DOMAIN t.entries = 1..(Len(s.entries) - 1)
  BY <1>1, <1>2, <1>3 DEF RemoveIndex
<1>5. ASSUME NEW j \in DOMAIN t.entries
      PROVE  \E k \in DOMAIN s.entries : t.entries[j] = s.entries[k]
  <2>1. CASE j < i
    <3>1. j \in DOMAIN s.entries /\ t.entries[j] = s.entries[j]
      BY <1>1, <1>2, <1>3, <1>4, <1>5, <2>1 DEF RemoveIndex
    <3> QED BY <3>1
  <2>2. CASE ~(j < i)
    <3>1. j + 1 \in DOMAIN s.entries /\ t.entries[j] = s.entries[j + 1]
      BY <1>1, <1>2, <1>3, <1>4, <1>5, <2>2 DEF RemoveIndex
    <3> QED BY <3>1
  <2> QED BY <2>1, <2>2
<1>6. ASSUME t.current \in DOMAIN t.entries
      PROVE  /\ s.current \in DOMAIN s.entries
             /\ t.entries[t.current] = s.entries[s.current]
  <2>1. s.current # i /\ s.current # None
    BY <1>1, <1>2, <1>3, <1>4, <1>6 DEF None
  <2>2. s.current \in DOMAIN s.entries
    BY <1>1, <2>1 DEF None
  <2> QED BY <1>1, <1>2, <1>3, <1>4, <1>6, <2>1, <2>2 DEF RemoveIndex, None
<1> QED BY <1>5, <1>6 DEF t

\* Deleting several entries, none of them the current one: what is left are
\* entries of before, and the current one is still the current one.
LEMMA DeleteEntriesIs ==
    ASSUME NEW s, WellFormed(s), NEW I \in SUBSET DOMAIN s.entries, s.current \notin I
    PROVE  /\ WellFormed(DeleteEntries(s, I))
           /\ NamesOf(DeleteEntries(s, I).entries) \subseteq NamesOf(s.entries)
           /\ s.current # None =>
                /\ DeleteEntries(s, I).current # None
                /\ DeleteEntries(s, I).entries[DeleteEntries(s, I).current]
                        = s.entries[s.current]
           /\ s.current = None => DeleteEntries(s, I).current = None
<1> DEFINE K == DOMAIN s.entries \ I
           t == DeleteEntries(s, I)
<1>1. /\ s.entries \in Seq(ManifestEntry) /\ s.current \in 0..Len(s.entries)
      /\ DOMAIN s.entries = 1..Len(s.entries) /\ Len(s.entries) \in Nat
  BY DEF WellFormed, Store
<1>2. K \in SUBSET DOMAIN s.entries /\ (s.current \in K <=> s.current # None)
  BY <1>1 DEF None
<1>3. /\ t.entries = Retain(s.entries, K)
      /\ t.current = IF s.current \in K THEN Rank(K, s.current) ELSE None
      /\ t = [entries |-> t.entries, current |-> t.current]
  BY DEF DeleteEntries
<1> HIDE DEF K, t
<1>4. /\ t.entries \in Seq(ManifestEntry)
      /\ \A a \in DOMAIN t.entries : \E i \in K : t.entries[a] = s.entries[i]
      /\ \A i \in K : Rank(K, i) \in DOMAIN t.entries /\ t.entries[Rank(K, i)] = s.entries[i]
      /\ \A i \in K : Rank(K, i) \in Nat \ {0}
  <2> DEFINE es == s.entries
             r == Retain(es, K)
  <2>1. es \in Seq(ManifestEntry) /\ K \in SUBSET DOMAIN es
    BY <1>1, <1>2
  <2> HIDE DEF es
  <2>2. /\ r \in Seq(ManifestEntry)
        /\ \A a \in DOMAIN r : \E i \in K : r[a] = es[i]
        /\ \A i \in K : Rank(K, i) \in DOMAIN r /\ r[Rank(K, i)] = es[i]
        /\ \A i \in K : Rank(K, i) \in Nat \ {0}
    BY <2>1, RetainIs
  <2> HIDE DEF r
  <2>3. t.entries = r
    BY <1>3 DEF r, es
  <2> QED BY <2>2, <2>3 DEF es
<1>5. DOMAIN t.entries = 1..Len(t.entries) /\ Len(t.entries) \in Nat
  BY <1>4
<1>6. t.current \in 0..Len(t.entries) /\ t.current \in Nat
  BY <1>3, <1>4, <1>5 DEF None
<1>7. WellFormed(t)
  BY <1>3, <1>4, <1>6 DEF WellFormed, Store
<1>8. NamesOf(t.entries) \subseteq NamesOf(s.entries)
  BY <1>2, <1>4 DEF NamesOf
<1>9. s.current # None => t.current # None /\ t.entries[t.current] = s.entries[s.current]
  BY <1>2, <1>3, <1>4 DEF None
<1>10. s.current = None => t.current = None
  BY <1>2, <1>3
<1> QED BY <1>7, <1>8, <1>9, <1>10 DEF t

\* Deleting an entry whose name the current one does not have keeps the
\* current one.
LEMMA DeleteEntryKeepsCurrent ==
    ASSUME NEW s, WellFormed(s), NEW n \in NamesOf(s.entries), ~IsCurrentEntry(s, n)
    PROVE  /\ s.current # None =>
                /\ DeleteEntry(s, n).current # None
                /\ DeleteEntry(s, n).entries[DeleteEntry(s, n).current].name
                        = s.entries[s.current].name
<1> DEFINE i == EntryForName(s.entries, n)
           t == DeleteEntry(s, n)
<1>1. /\ s.entries \in Seq(ManifestEntry) /\ s.current \in 0..Len(s.entries)
      /\ Len(s.entries) \in Nat /\ DOMAIN s.entries = 1..Len(s.entries)
  BY DEF WellFormed, Store
<1>2. i \in DOMAIN s.entries /\ s.entries[i].name = n
  BY <1>1, EntryForNameFinds
<1>3. t.current = IF s.current = i THEN None
                  ELSE IF s.current > i THEN s.current - 1 ELSE s.current
  BY DEF DeleteEntry
<1> HIDE DEF i, t
<1>4. s.current # i
  BY <1>2 DEF IsCurrentEntry
<1>5. s.current # None => t.current # None
  BY <1>1, <1>2, <1>3, <1>4 DEF None
<1>6. t.current # None => t.entries[t.current].name = s.entries[s.current].name
  BY DeleteEntryKeeps DEF t
<1> QED BY <1>5, <1>6 DEF t
=============================================================================
