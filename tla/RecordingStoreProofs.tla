------------------------ MODULE RecordingStoreProofs ------------------------
(***************************************************************************)
(* Proofs about RecordingStore for every set of names, every bound and     *)
(* whether or not names repeat.                                            *)
(***************************************************************************)
EXTENDS RecordingStore, StoreOpsProofs

(***************************************************************************)
(* Each action preserves the inductive invariant.                          *)
(***************************************************************************)
LEMMA NewEntryPreserves ==
    ASSUME IndInv, NEW n \in Names,
           NEW o \in {"qmdl", "analysis", "gps", "manifest", "late", "ok"},
           NewEntry(n, o)
    PROVE  IndInv'
<1> DEFINE c == CloseCurrentEntry(store)
<1>1. /\ WellFormed(c) /\ c.entries = store.entries /\ c.current = None
  BY CloseCurrentEntryKeeps DEF IndInv, TypeOK
<1>2. /\ WellFormed(PushEntry(c, n))
      /\ PushEntry(c, n).current # None
      /\ PushEntry(c, n).entries[PushEntry(c, n).current].name = n
      /\ NamesOf(PushEntry(c, n).entries) = NamesOf(c.entries) \cup {n}
  <2> HIDE DEF c
  <2> QED BY <1>1, PushEntryAdds
<1>3. /\ WellFormed(store')
      /\ NamesOf(store.entries) \subseteq NamesOf(store'.entries)
      /\ o = "ok" => store'.current # None /\ n \in NamesOf(store'.entries)
                    /\ store'.entries[store'.current].name = n
  BY <1>1, <1>2 DEF NewEntry
<1>4. store'.entries \in Seq(ManifestEntry)
  BY <1>3 DEF WellFormed, Store
<1>5. /\ up' = up /\ up /\ manifest' = "ok"
      /\ saved' = saved \/ saved' = store'.entries
      /\ o = "ok" => saved' = store'.entries
      /\ writer' = IF o = "ok" THEN n ELSE None
      /\ \A m \in Names : m # n => files'[m] = files[m] /\ bytes'[m] = bytes[m]
      /\ bytes'[n] = 0
  BY DEF NewEntry, WriteManifest, IndInv, TypeOK
<1>6. TypeOK'
  <2>1. files' \in [Names -> SUBSET FileKind]
    BY DEF NewEntry, IndInv, TypeOK, FileKind
  <2>2. bytes' \in [Names -> 0..MaxBytes]
    BY BoundsAssumption DEF NewEntry, IndInv, TypeOK
  <2>3. issued' \subseteq Names
    BY DEF NewEntry, IndInv, TypeOK
  <2> QED BY <1>3, <1>4, <1>5, <2>1, <2>2, <2>3 DEF TypeOK, IndInv
<1>7. DataVisible'
  BY <1>3, <1>5 DEF DataVisible, HasData, Listed, IndInv, TypeOK
<1>8. WriterIsCurrent'
  BY <1>3, <1>5 DEF WriterIsCurrent
<1> QED
  BY <1>3, <1>5, <1>6, <1>7, <1>8 DEF IndInv, Listed

LEMMA WriteContainerPreserves == IndInv /\ WriteContainer => IndInv'
<1> SUFFICES ASSUME IndInv, WriteContainer PROVE IndInv'
  OBVIOUS
<1>1. /\ writer \in Names /\ writer # None /\ up /\ manifest = "ok"
      /\ bytes'[writer] \in 0..MaxBytes
      /\ bytes' \in [Names -> 0..MaxBytes]
      /\ \A m \in Names : m # writer => bytes'[m] = bytes[m]
  BY BoundsAssumption DEF WriteContainer, IndInv, TypeOK
<1>2. SameEntries(store, store')
  <2>1. bytes'[writer] \in Nat
    BY <1>1, BoundsAssumption
  <2> QED BY <2>1, UpdateSizeKeeps DEF WriteContainer, IndInv, TypeOK
<1>3. store'.entries \in Seq(ManifestEntry)
  BY <1>2 DEF SameEntries, WellFormed, Store
<1>4. /\ up' = up /\ manifest' = "ok" /\ saved' = store'.entries
      /\ writer' = writer /\ files' = files /\ issued' = issued
  BY DEF WriteContainer, WriteManifest
<1>5. TypeOK'
  BY <1>1, <1>2, <1>3, <1>4 DEF TypeOK, IndInv, SameEntries
<1>6. DataVisible'
  BY <1>1, <1>2, <1>4 DEF DataVisible, HasData, Listed, IndInv, SameEntries
<1>7. WriterIsCurrent'
  <2>1. store.current # None => store.current \in DOMAIN store.entries
    BY DEF IndInv, TypeOK, WellFormed, Store, None
  <2> QED BY <1>1, <1>2, <1>4, <2>1 DEF WriterIsCurrent, IndInv, SameEntries
<1> QED
  BY <1>1, <1>2, <1>4, <1>5, <1>6, <1>7 DEF IndInv, Listed, SameEntries

LEMMA FinishCurrentEntryPreserves ==
    ASSUME IndInv, NEW r \in Reasons \cup {NoReason},
           NEW closed \in BOOLEAN, NEW ok1 \in BOOLEAN, NEW ok2 \in BOOLEAN,
           FinishCurrentEntry(r, closed, ok1, ok2)
    PROVE  IndInv'
<1> DEFINE sized == IF closed THEN UpdateCurrentEntryQmdlSize(store, bytes'[writer])
                              ELSE store
           noted == IF r = NoReason THEN sized ELSE SetCurrentStopReason(sized, r)
<1>1. /\ writer \in Names /\ writer # None /\ up /\ manifest = "ok"
      /\ bytes'[writer] \in Nat
      /\ bytes' \in [Names -> 0..MaxBytes]
      /\ \A m \in Names : m # writer \/ "qmdl" \notin files[m] => bytes'[m] = bytes[m]
  <2>1. PICK more \in 0..1 :
          /\ bytes[writer] + more <= MaxBytes
          /\ bytes' = [bytes EXCEPT ![writer] =
                          IF "qmdl" \in files[writer] THEN @ + more ELSE @]
    BY DEF FinishCurrentEntry
  <2> QED BY <2>1, BoundsAssumption DEF FinishCurrentEntry, IndInv, TypeOK
<1>2. SameEntries(store, store)
  BY DEF SameEntries, IndInv, TypeOK
<1>3. SameEntries(store, sized)
  BY <1>1, <1>2, UpdateSizeKeeps DEF IndInv, TypeOK
<1>4. SameEntries(store, noted)
  <2>1. WellFormed(sized)
    BY <1>3 DEF SameEntries
  <2> HIDE DEF sized
  <2>2. CASE r = NoReason
    BY <1>3, <2>2
  <2>3. CASE r # NoReason
    <3>1. SameEntries(sized, SetCurrentStopReason(sized, r))
      BY <2>1, SetReasonKeeps
    <3>2. noted = SetCurrentStopReason(sized, r)
      BY <2>3
    <3>3. SameEntries(sized, noted)
      BY <3>1, <3>2
    <3> HIDE DEF noted
    <3>4. sized.entries \in Seq(ManifestEntry) /\ store.entries \in Seq(ManifestEntry)
      BY <1>3, <2>1 DEF SameEntries, WellFormed, Store, IndInv, TypeOK
    <3> QED BY <1>3, <3>3, <3>4 DEF SameEntries
  <2> QED BY <2>2, <2>3
<1>5. /\ store' = CloseCurrentEntry(noted) /\ writer' = None
      /\ up' = up /\ files' = files /\ issued' = issued /\ manifest' = "ok"
      /\ saved' = saved \/ saved' = noted.entries \/ saved' = sized.entries
  BY <1>1 DEF FinishCurrentEntry, WriteManifest
<1> HIDE DEF noted, sized
<1>6. WellFormed(store') /\ store'.entries = noted.entries /\ store'.current = None
  BY <1>4, <1>5, CloseCurrentEntryKeeps DEF SameEntries
<1>7. noted.entries \in Seq(ManifestEntry) /\ sized.entries \in Seq(ManifestEntry)
  BY <1>3, <1>4 DEF SameEntries, WellFormed, Store
<1>8. TypeOK'
  BY <1>1, <1>5, <1>6, <1>7 DEF TypeOK, IndInv, None
<1>9. DataVisible'
  <2>1. \A m \in Names : HasData(m)' => Listed(m)
    BY <1>1, <1>5 DEF HasData, DataVisible, IndInv
  <2> QED BY <2>1, <1>1, <1>3, <1>4, <1>5, <1>6 DEF DataVisible, Listed, SameEntries
<1> QED
  BY <1>1, <1>5, <1>6, <1>8, <1>9 DEF IndInv, WriterIsCurrent

LEMMA MarkEntryPreserves ==
    ASSUME IndInv, NEW n \in Names, NEW k \in Marks,
           NEW on \in BOOLEAN, NEW ok \in BOOLEAN, MarkEntry(n, k, on, ok)
    PROVE  IndInv'
<1>1. SameEntries(store, store')
  BY SetMarkKeeps DEF MarkEntry, IndInv, TypeOK
<1>2. /\ store'.entries \in Seq(ManifestEntry) /\ up /\ up' = up
      /\ manifest' = "ok"
      /\ saved' = saved \/ saved' = store'.entries
      /\ writer' = writer /\ files' = files /\ issued' = issued /\ bytes' = bytes
      /\ store.current # None => store.current \in DOMAIN store.entries
  BY <1>1 DEF MarkEntry, WriteManifest, SameEntries, WellFormed, Store, IndInv,
              TypeOK, None
<1>3. TypeOK'
  BY <1>1, <1>2 DEF TypeOK, IndInv, SameEntries
<1> QED
  BY <1>1, <1>2, <1>3
  DEF IndInv, DataVisible, HasData, Listed, WriterIsCurrent, SameEntries

LEMMA DeleteRecordingPreserves ==
    ASSUME IndInv, NEW n \in Names, NEW at \in FileKind \cup {"none"},
           NEW ok \in BOOLEAN, DeleteRecording(n, at, ok)
    PROVE  IndInv'
<1>1. /\ up /\ up' = up /\ manifest = "ok" /\ manifest' = "ok"
      /\ writer' = writer /\ issued' = issued
      /\ n \in NamesOf(store.entries)
      /\ at # "none" => store' = store /\ saved' = saved
      /\ saved' = saved \/ saved' = store'.entries
  BY DEF DeleteRecording, WriteManifest, IndInv
<1>2. /\ files' \in [Names -> SUBSET FileKind]
      /\ bytes' \in [Names -> 0..MaxBytes]
      /\ \A m \in Names : m # n => files'[m] = files[m] /\ bytes'[m] = bytes[m]
      /\ files'[n] \subseteq files[n]
      /\ at = "qmdl" => bytes' = bytes
      /\ at # "qmdl" => "qmdl" \notin files'[n]
  BY BoundsAssumption DEF DeleteRecording, RemovedBefore, FileKind, IndInv, TypeOK
<1>3. CASE at # "none"
  <2>1. TypeOK'
    BY <1>1, <1>2, <1>3 DEF IndInv, TypeOK
  <2>2. DataVisible'
    BY <1>1, <1>2, <1>3 DEF IndInv, DataVisible, HasData, Listed
  <2> QED
    BY <1>1, <1>2, <1>3, <2>1, <2>2 DEF IndInv, WriterIsCurrent, Listed, TypeOK
<1>4. CASE at = "none"
  <2>1. store' = DeleteEntry(store, n)
    BY <1>4 DEF DeleteRecording
  <2>2. /\ WellFormed(store')
        /\ \A m \in NamesOf(store.entries) : m # n => m \in NamesOf(store'.entries)
        /\ store'.current # None =>
              /\ store.current # None
              /\ store'.entries[store'.current].name = store.entries[store.current].name
    BY <1>1, <2>1, DeleteEntryKeeps DEF IndInv, TypeOK
  <2>3. store'.entries \in Seq(ManifestEntry)
    BY <2>2 DEF WellFormed, Store
  <2>4. "qmdl" \notin files'[n]
    BY <1>2, <1>4
  <2>5. TypeOK'
    BY <1>1, <1>2, <2>2, <2>3 DEF IndInv, TypeOK
  <2>6. DataVisible'
    BY <1>1, <1>2, <2>2, <2>4 DEF IndInv, DataVisible, HasData, Listed
  <2>7. WriterIsCurrent'
    BY <1>1, <2>2 DEF IndInv, WriterIsCurrent
  <2>8. (writer # None /\ "qmdl" \in files[writer] => Listed(writer))'
    BY <1>1, <1>2, <2>2, <2>4 DEF IndInv, Listed, TypeOK
  <2> QED
    BY <1>1, <2>5, <2>6, <2>7, <2>8 DEF IndInv
<1> QED BY <1>3, <1>4

LEMMA DeleteAllPreserves ==
    ASSUME IndInv, NEW kept \in SUBSET Names, NEW at \in FileKind,
           NEW ok \in BOOLEAN, DeleteAll(kept, at, ok)
    PROVE  IndInv'
<1> DEFINE gone == NamesOf(store.entries) \ kept
           es == RetainOnly(store.entries, kept)
<1>1. /\ store' = [entries |-> es, current |-> None]
      /\ WriteManifest(es, ok)
  BY DEF DeleteAll
<1>2. store.entries \in Seq(ManifestEntry)
  BY DEF IndInv, TypeOK, WellFormed, Store
<1>3. /\ es \in Seq(ManifestEntry)
      /\ \A m \in NamesOf(store.entries) : m \in kept => m \in NamesOf(es)
  BY <1>2, RetainOnlyKeeps
<1> HIDE DEF es
<1>4. /\ store'.entries = es /\ store'.current = None /\ WellFormed(store')
  BY <1>1, <1>3 DEF WellFormed, Store, None
<1>5. /\ up /\ up' = up /\ manifest = "ok" /\ manifest' = "ok"
      /\ writer = None /\ writer' = None /\ issued' = issued
      /\ saved' = saved \/ saved' = es
  BY <1>1 DEF DeleteAll, WriteManifest, IndInv
<1>6. /\ files' \in [Names -> SUBSET FileKind]
      /\ bytes' \in [Names -> 0..MaxBytes]
      /\ \A m \in Names : files'[m] \subseteq files[m] /\ bytes'[m] <= bytes[m]
      /\ \A m \in Names : m \in gone => files'[m] = {}
  BY BoundsAssumption DEF DeleteAll, RemovedBefore, FileKind, IndInv, TypeOK
<1>7. TypeOK'
  BY <1>3, <1>4, <1>5, <1>6 DEF IndInv, TypeOK
<1>8. DataVisible'
  <2> SUFFICES ASSUME NEW m \in Names, HasData(m)' PROVE Listed(m)'
    BY DEF DataVisible
  <2>1. HasData(m) /\ m \notin gone
    BY <1>6 DEF HasData, IndInv, TypeOK
  <2>2. Listed(m)
    BY <2>1 DEF IndInv, DataVisible
  <2>3. m \in NamesOf(store.entries) /\ m \in kept
    BY <2>1, <2>2, <1>5 DEF Listed
  <2> QED BY <1>3, <1>4, <1>5, <2>2, <2>3 DEF Listed
<1> QED
  BY <1>4, <1>5, <1>7, <1>8 DEF IndInv, WriterIsCurrent

\* The captures recover finds, each once in the list.
LEMMA CapturesInOrderIs ==
    LET Q == {n \in Names : "qmdl" \in files[n]}
        c == Cardinality(Q)
    IN /\ c \in Nat
       /\ CapturesInOrder \in [1..c -> Q]
       /\ \A n \in Q : \E a \in 1..c : CapturesInOrder[a] = n
<1> DEFINE Q == {n \in Names : "qmdl" \in files[n]}
           c == Cardinality(Q)
<1>1. Q \in SUBSET Nat /\ IsFiniteSet(Q)
  <2>1. Q \in SUBSET Names
    OBVIOUS
  <2> HIDE DEF Q
  <2> QED BY <2>1, NamesAssumption, FS_Subset
<1>2. CapturesInOrder = InOrder(Q)
  BY DEF CapturesInOrder
<1> HIDE DEF Q
<1>3. /\ c \in Nat
      /\ \A a \in 1..c : InOrder(Q)[a] \in Q
      /\ \A n \in Q : Rank(Q, n) \in 1..c /\ InOrder(Q)[Rank(Q, n)] = n
  BY <1>1, InOrderIs
<1>4. InOrder(Q) \in [1..c -> Q]
  BY <1>3 DEF InOrder
<1> QED BY <1>2, <1>3, <1>4 DEF Q

LEMMA OpenOrRecoverPreserves ==
    ASSUME IndInv, NEW ok \in BOOLEAN, OpenOrRecover(ok)
    PROVE  IndInv'
<1>1. /\ ~up /\ writer = None /\ store = EmptyStore /\ up' = ok
      /\ writer' = writer /\ issued' = issued /\ files' = files /\ bytes' = bytes
  BY DEF OpenOrRecover, IndInv
<1>2. WellFormed(EmptyStore)
  BY DEF WellFormed, EmptyStore, Store, None
<1>3. CASE /\ manifest = "ok" /\ ok
           /\ store' = [entries |-> saved, current |-> None]
           /\ UNCHANGED <<manifest, saved>>
  <2>1. WellFormed(store') /\ store'.entries = saved /\ store'.current = None
    BY <1>3 DEF WellFormed, Store, None, IndInv, TypeOK
  <2>2. TypeOK'
    BY <1>1, <1>3, <2>1 DEF IndInv, TypeOK
  <2> QED
    BY <1>1, <1>3, <2>1, <2>2 DEF IndInv, DataVisible, HasData, Listed, WriterIsCurrent
<1>4. CASE /\ manifest \in {"corrupt", "missing"}
           /\ LET s == CapturesInOrder
                  es == [i \in DOMAIN s |-> RecoveredEntry(s[i])]
              IN /\ store' = IF ok THEN [entries |-> es, current |-> None]
                                   ELSE EmptyStore
                 /\ WriteManifest(es, ok)
  <2> DEFINE Q == {n \in Names : "qmdl" \in files[n]}
             c == Cardinality(Q)
             s == CapturesInOrder
             es == [i \in DOMAIN s |-> RecoveredEntry(s[i])]
  <2>1. /\ store' = IF ok THEN [entries |-> es, current |-> None] ELSE EmptyStore
        /\ WriteManifest(es, ok)
    BY <1>4
  <2>2. c \in Nat /\ s \in [1..c -> Q] /\ \A n \in Q : \E a \in 1..c : s[a] = n
    BY CapturesInOrderIs
  <2>3. c \in Nat
    BY <2>2
  <2> HIDE DEF s
  <2>4. \A i \in 1..c : RecoveredEntry(s[i]) \in ManifestEntry /\ RecoveredEntry(s[i]).name = s[i]
    <3> SUFFICES ASSUME NEW i \in 1..c
                 PROVE  RecoveredEntry(s[i]) \in ManifestEntry /\ RecoveredEntry(s[i]).name = s[i]
      OBVIOUS
    <3>1. s[i] \in Names
      BY <2>2
    <3>2. bytes[s[i]] \in Nat
      BY <3>1, BoundsAssumption DEF IndInv, TypeOK
    <3> QED BY <3>1, <3>2 DEF RecoveredEntry, NewManifestEntry, ManifestEntry
  <2> HIDE DEF c
  <2>5. es \in Seq(ManifestEntry) /\ DOMAIN es = 1..c
    BY <2>2, <2>3, <2>4
  <2>6. \A n \in Q : n \in NamesOf(es)
    <3> SUFFICES ASSUME NEW n \in Q PROVE n \in NamesOf(es)
      OBVIOUS
    <3>1. PICK a \in 1..c : s[a] = n
      BY <2>2
    <3>2. es[a] = RecoveredEntry(s[a])
      BY <2>2
    <3> HIDE DEF es
    <3> QED BY <2>4, <2>5, <3>1, <3>2 DEF NamesOf
  <2>7. /\ store' = IF ok THEN [entries |-> es, current |-> None] ELSE EmptyStore
        /\ WriteManifest(es, ok)
    BY <2>1
  <2> HIDE DEF es
  <2>8. /\ WellFormed(store') /\ store'.current = None
        /\ ok => store'.entries = es
    BY <1>2, <2>5, <2>7 DEF WellFormed, Store, None, EmptyStore
  <2>9. IF ok THEN manifest' = "ok" /\ saved' = es
              ELSE manifest' = manifest /\ saved' = saved
    BY <2>7 DEF WriteManifest
  <2>10. TypeOK'
    BY <1>1, <2>5, <2>8, <2>9 DEF IndInv, TypeOK
  <2>11. DataVisible'
    BY <1>1, <1>4, <2>6, <2>8, <2>9 DEF IndInv, DataVisible, HasData, Listed
  <2> QED
    BY <1>1, <1>4, <2>7, <2>8, <2>9, <2>10, <2>11 DEF IndInv, WriterIsCurrent
<1>5. CASE /\ manifest = "nodir"
           /\ store' = EmptyStore
           /\ saved' = <<>>
           /\ manifest' = IF ok THEN "ok" ELSE "missing"
  <2>1. \A n \in Names : files[n] = {}
    BY <1>5 DEF IndInv
  <2>2. TypeOK'
    BY <1>1, <1>2, <1>5 DEF IndInv, TypeOK
  <2> QED
    BY <1>1, <1>5, <2>1, <2>2 DEF IndInv, DataVisible, HasData, WriterIsCurrent, Listed
<1> QED
  BY <1>3, <1>4, <1>5 DEF OpenOrRecover

LEMMA SmallStepsPreserve ==
    ASSUME IndInv,
           \/ ShutdownCloseEntry
           \/ AppendGps
           \/ \E readable \in BOOLEAN : Crash(readable)
           \/ UNCHANGED vars
    PROVE  IndInv'
<1>1. CASE ShutdownCloseEntry
  <2>1. WellFormed(store') /\ store'.entries = store.entries /\ store'.current = None
    BY <1>1, CloseCurrentEntryKeeps DEF ShutdownCloseEntry, IndInv, TypeOK
  <2>2. up /\ UNCHANGED <<writer, issued, up, manifest, saved, files, bytes>>
    BY <1>1 DEF ShutdownCloseEntry, disk
  <2>3. TypeOK'
    BY <2>1, <2>2 DEF IndInv, TypeOK
  <2> QED
    BY <2>1, <2>2, <2>3 DEF IndInv, DataVisible, HasData, Listed, WriterIsCurrent
<1>2. CASE AppendGps
  <2>1. UNCHANGED <<store, writer, issued, up, manifest, saved, bytes>> /\ up
    BY <1>2 DEF AppendGps, memory
  <2>2. /\ files' \in [Names -> SUBSET FileKind]
        /\ \A m \in Names : "qmdl" \in files'[m] => "qmdl" \in files[m]
    BY <1>2 DEF AppendGps, IndInv, TypeOK, FileKind
  <2>3. TypeOK'
    BY <2>1, <2>2 DEF IndInv, TypeOK
  <2> QED
    BY <2>1, <2>2, <2>3 DEF IndInv, DataVisible, HasData, Listed, WriterIsCurrent, TypeOK
<1>3. CASE \E readable \in BOOLEAN : Crash(readable)
  <2>1. /\ up /\ up' = FALSE /\ store' = EmptyStore /\ writer' = None
        /\ issued' \subseteq Names
        /\ manifest = "ok" /\ manifest' \in {"ok", "corrupt"}
        /\ UNCHANGED <<saved, files, bytes>>
    BY <1>3 DEF Crash, IndInv, TypeOK
  <2>2. WellFormed(EmptyStore)
    BY DEF WellFormed, EmptyStore, Store, None
  <2>3. TypeOK'
    BY <2>1, <2>2 DEF IndInv, TypeOK
  <2> QED
    BY <2>1, <2>3 DEF IndInv, DataVisible, HasData, Listed, WriterIsCurrent
<1>4. CASE UNCHANGED vars
  BY <1>4 DEF vars, IndInv, TypeOK, DataVisible, HasData, Listed, WriterIsCurrent
<1> QED
  BY <1>1, <1>2, <1>3, <1>4

LEMMA Inductive == IndInv /\ [Next]_vars => IndInv'
<1> SUFFICES ASSUME IndInv, [Next]_vars PROVE IndInv'
  OBVIOUS
<1>1. CASE \E n \in Names, o \in {"qmdl", "analysis", "gps", "manifest", "late", "ok"} :
            NewEntry(n, o)
  BY <1>1, NewEntryPreserves
<1>2. CASE WriteContainer
  BY <1>2, WriteContainerPreserves
<1>3. CASE \E r \in Reasons \cup {NoReason}, closed, ok1, ok2 \in BOOLEAN :
            FinishCurrentEntry(r, closed, ok1, ok2)
  BY <1>3, FinishCurrentEntryPreserves
<1>4. CASE \E n \in Names, k \in Marks, on, ok \in BOOLEAN : MarkEntry(n, k, on, ok)
  BY <1>4, MarkEntryPreserves
<1>5. CASE \E n \in Names, at \in FileKind \cup {"none"}, ok \in BOOLEAN :
            DeleteRecording(n, at, ok)
  BY <1>5, DeleteRecordingPreserves
<1>6. CASE \E kept \in SUBSET Names, at \in FileKind, ok \in BOOLEAN :
            DeleteAll(kept, at, ok)
  BY <1>6, DeleteAllPreserves
<1>7. CASE \E ok \in BOOLEAN : OpenOrRecover(ok)
  BY <1>7, OpenOrRecoverPreserves
<1>8. CASE \/ ShutdownCloseEntry
           \/ AppendGps
           \/ \E readable \in BOOLEAN : Crash(readable)
           \/ UNCHANGED vars
  BY <1>8, SmallStepsPreserve
<1> QED
  BY <1>1, <1>2, <1>3, <1>4, <1>5, <1>6, <1>7, <1>8 DEF Next

LEMMA Initially == Init => IndInv
<1> SUFFICES ASSUME Init PROVE IndInv
  OBVIOUS
<1>1. WellFormed(store)
  BY DEF Init, WellFormed, EmptyStore, Store, None
<1>2. TypeOK
  <2>1. files \in [Names -> SUBSET FileKind]
    BY DEF Init
  <2>2. bytes \in [Names -> 0..MaxBytes]
    BY BoundsAssumption DEF Init
  <2>3. saved \in Seq(ManifestEntry)
    BY DEF Init
  <2> QED BY <1>1, <2>1, <2>2, <2>3 DEF Init, TypeOK
<1> QED
  BY <1>2 DEF Init, IndInv, DataVisible, HasData, WriterIsCurrent

\* The store keeps its types, and its index stays inside the manifest.
THEOREM StoreTypeCorrect == Spec => []TypeOK
<1>1. IndInv => TypeOK
  BY DEF IndInv
<1> QED
  BY Initially, Inductive, <1>1, PTL DEF Spec

\* No captured data becomes invisible to the daemon: through failed calls at
\* any point of new_entry, finish_current_entry, delete_entry and
\* delete_all_entries, through crashes, recovery of a lost manifest, and
\* whether or not the clock gives a name a second time.
THEOREM StoreDataVisible == Spec => []DataVisible
<1>1. IndInv => DataVisible
  BY DEF IndInv
<1> QED
  BY Initially, Inductive, <1>1, PTL DEF Spec

\* The current entry is the recording being written, however the manifest
\* changes around it.
THEOREM StoreWriterIsCurrent == Spec => []WriterIsCurrent
<1>1. IndInv => WriterIsCurrent
  BY DEF IndInv
<1> QED
  BY Initially, Inductive, <1>1, PTL DEF Spec

(***************************************************************************)
(* No capture is truncated.  new_entry starts a capture at zero, so this   *)
(* needs that a name without a capture file has nothing recorded of it.    *)
(***************************************************************************)
NoFileNoBytes == \A n \in Names : "qmdl" \notin files[n] => bytes[n] = 0

\* What one step does to a capture, and to a name that has none.
CaptureStep(n) ==
    /\ "qmdl" \notin files'[n] => bytes'[n] = 0
    /\ bytes'[n] < bytes[n] => "qmdl" \notin files'[n]

\* One step takes nothing from a capture whose file stays.
LEMMA StepKeepsCaptures ==
    ASSUME TypeOK, NoFileNoBytes, [Next]_vars
    PROVE  \A n \in Names : CaptureStep(n)
<1> SUFFICES ASSUME NEW m \in Names PROVE CaptureStep(m)
  OBVIOUS
<1>a. /\ files \in [Names -> SUBSET FileKind] /\ bytes \in [Names -> 0..MaxBytes]
      /\ MaxBytes \in Nat /\ bytes[m] \in 0..MaxBytes
      /\ "qmdl" \notin files[m] => bytes[m] = 0
  BY BoundsAssumption DEF TypeOK, NoFileNoBytes
<1>b. UNCHANGED <<files, bytes>> => CaptureStep(m)
  BY <1>a DEF CaptureStep
<1>1. ASSUME NEW n \in Names, NEW o \in {"qmdl", "analysis", "gps", "manifest", "late", "ok"},
             NewEntry(n, o)
      PROVE  CaptureStep(m)
  <2>1. /\ "qmdl" \notin files[n] /\ bytes' = [bytes EXCEPT ![n] = 0]
        /\ m # n => files'[m] = files[m]
    BY <1>1, <1>a DEF NewEntry
  <2>2. bytes[n] = 0
    BY <2>1 DEF NoFileNoBytes
  <2> QED BY <2>1, <2>2, <1>a DEF CaptureStep
<1>2. CASE WriteContainer
  <2>1. UNCHANGED files /\ (bytes'[m] = bytes[m] \/ ("qmdl" \in files[m] /\ bytes'[m] = bytes[m] + 1))
    BY <1>2, <1>a DEF WriteContainer
  <2> QED BY <2>1, <1>a DEF CaptureStep
<1>3. ASSUME NEW r \in Reasons \cup {NoReason}, NEW closed \in BOOLEAN,
             NEW ok1 \in BOOLEAN, NEW ok2 \in BOOLEAN,
             FinishCurrentEntry(r, closed, ok1, ok2)
      PROVE  CaptureStep(m)
  <2>1. UNCHANGED files
    BY <1>3 DEF FinishCurrentEntry
  <2>2. PICK more \in 0..1 :
            bytes' = [bytes EXCEPT ![writer] =
                            IF "qmdl" \in files[writer] THEN @ + more ELSE @]
    BY <1>3 DEF FinishCurrentEntry
  <2>3. bytes'[m] = bytes[m] \/ ("qmdl" \in files[m] /\ bytes'[m] = bytes[m] + more)
    BY <2>2, <1>a
  <2> QED BY <2>1, <2>2, <2>3, <1>a DEF CaptureStep
<1>4. ASSUME NEW n \in Names, NEW k \in Marks, NEW on \in BOOLEAN, NEW ok \in BOOLEAN,
             MarkEntry(n, k, on, ok)
      PROVE  CaptureStep(m)
  BY <1>4, <1>b DEF MarkEntry
<1>5. ASSUME NEW n \in Names, NEW at \in FileKind \cup {"none"}, NEW ok \in BOOLEAN,
             DeleteRecording(n, at, ok)
      PROVE  CaptureStep(m)
  <2>1. /\ files' = [files EXCEPT ![n] = @ \ RemovedBefore(at)]
        /\ bytes' = IF at = "qmdl" THEN bytes ELSE [bytes EXCEPT ![n] = 0]
    BY <1>5 DEF DeleteRecording
  <2>2. IF at = "qmdl" THEN RemovedBefore(at) = {} ELSE "qmdl" \in RemovedBefore(at)
    BY DEF RemovedBefore, FileKind
  <2> QED BY <2>1, <2>2, <1>a DEF CaptureStep
<1>6. ASSUME NEW kept \in SUBSET Names, NEW at \in FileKind, NEW ok \in BOOLEAN,
             DeleteAll(kept, at, ok)
      PROVE  CaptureStep(m)
  <2> DEFINE gone == NamesOf(store.entries) \ kept
  <2>1. /\ files'[m] = IF m \in gone THEN {}
                       ELSE IF m \in kept THEN files[m] \ RemovedBefore(at)
                       ELSE files[m]
        /\ bytes'[m] = IF m \in gone \/ (m \in kept /\ at # "qmdl")
                       THEN 0 ELSE bytes[m]
    BY <1>6 DEF DeleteAll
  <2>2. IF at = "qmdl" THEN RemovedBefore(at) = {} ELSE "qmdl" \in RemovedBefore(at)
    BY DEF RemovedBefore, FileKind
  <2> HIDE DEF gone
  <2> QED BY <2>1, <2>2, <1>a DEF CaptureStep
<1>7. ASSUME NEW ok \in BOOLEAN, OpenOrRecover(ok)
      PROVE  CaptureStep(m)
  BY <1>7, <1>b DEF OpenOrRecover
<1>8. CASE ShutdownCloseEntry
  BY <1>8, <1>b DEF ShutdownCloseEntry, disk
<1>9. CASE AppendGps
  <2>1. UNCHANGED bytes /\ ("qmdl" \in files'[m] <=> "qmdl" \in files[m])
    BY <1>9, <1>a DEF AppendGps
  <2> QED BY <2>1, <1>a DEF CaptureStep
<1>10. ASSUME NEW readable \in BOOLEAN, Crash(readable)
       PROVE  CaptureStep(m)
  BY <1>10, <1>b DEF Crash
<1>11. CASE UNCHANGED vars
  BY <1>11, <1>b DEF vars
<1> QED
  BY <1>1, <1>2, <1>3, <1>4, <1>5, <1>6, <1>7, <1>8, <1>9, <1>10, <1>11 DEF Next

\* A capture is never truncated or overwritten: create_new, the order in
\* delete_entry and recovery leave every capture whose file stays at its
\* length or longer, for every set of names and whether or not they repeat.
THEOREM StoreCaptureNeverTruncated == Spec => CaptureNeverTruncated
<1>1. Init => NoFileNoBytes
  BY DEF Init, NoFileNoBytes
<1>2. TypeOK /\ NoFileNoBytes /\ [Next]_vars => NoFileNoBytes'
  BY StepKeepsCaptures DEF CaptureStep, NoFileNoBytes
<1>3. TypeOK /\ NoFileNoBytes /\ [Next]_vars =>
        [\A n \in Names : bytes'[n] < bytes[n] => "qmdl" \notin files'[n]]_vars
  BY StepKeepsCaptures DEF CaptureStep
<1> QED
  BY StoreTypeCorrect, <1>1, <1>2, <1>3, PTL DEF Spec, CaptureNeverTruncated

(***************************************************************************)
(* The size listed for the recording in progress.                          *)
(***************************************************************************)
\* A step in which the capture, its writer and the current entry's size stay.
LEMMA SameSizeKept ==
    ASSUME SizeWithinCapture, UNCHANGED writer,
           writer # None /\ store'.current # None =>
                /\ store.current # None
                /\ store'.entries[store'.current].size = store.entries[store.current].size
                /\ bytes'[writer] = bytes[writer]
    PROVE  SizeWithinCapture'
BY DEF SizeWithinCapture

\* Either nobody writes to the current entry after a step, or its size is what
\* the step has just written (process_container), zero (new_entry), or that of
\* an entry the step did not touch: the index and the writer agree on which one
\* it is, whatever was deleted from under the index.
LEMMA StepKeepsSizes ==
    ASSUME IndInv, SizeWithinCapture, [Next]_vars
    PROVE  SizeWithinCapture'
<1>a. /\ WellFormed(store) /\ store \in Store /\ store.entries \in Seq(ManifestEntry)
      /\ store.current # None => store.current \in DOMAIN store.entries
      /\ writer \in Names \cup {None}
      /\ bytes \in [Names -> 0..MaxBytes] /\ MaxBytes \in Nat
  BY BoundsAssumption DEF IndInv, TypeOK, WellFormed, Store, None
<1>b. writer' = None \/ store'.current = None => SizeWithinCapture'
  BY DEF SizeWithinCapture
<1>1. ASSUME NEW n \in Names, NEW o \in {"qmdl", "analysis", "gps", "manifest", "late", "ok"},
             NewEntry(n, o)
      PROVE  SizeWithinCapture'
  <2>1. CASE o # "ok"
    BY <1>1, <1>b, <2>1 DEF NewEntry
  <2>2. CASE o = "ok"
    <3> DEFINE c == CloseCurrentEntry(store)
    <3>1. store' = PushEntry(c, n) /\ writer' = n /\ bytes'[n] = 0
      BY <1>1, <1>a, <2>2 DEF NewEntry
    <3>2. WellFormed(c)
      BY <1>a, CloseCurrentEntryKeeps
    <3> HIDE DEF c
    <3>3. store'.entries[store'.current] = NewManifestEntry(n)
      BY <3>1, <3>2, PushEntryIs
    <3> QED BY <3>1, <3>3 DEF SizeWithinCapture, NewManifestEntry
  <2> QED BY <2>1, <2>2
<1>2. CASE WriteContainer
  <2>1. /\ writer' = writer /\ writer \in Names /\ store.current # None
        /\ store' = UpdateCurrentEntryQmdlSize(store, bytes'[writer])
        /\ bytes'[writer] \in Nat
    BY <1>2, <1>a DEF WriteContainer
  <2>2. store' = [store EXCEPT !.entries[store.current].size = bytes'[writer]]
    BY <2>1 DEF UpdateCurrentEntryQmdlSize
  <2>3. store.entries[store.current] \in ManifestEntry
    BY <1>a, <2>1
  <2>4. /\ store'.current = store.current
        /\ store'.entries[store.current] = [store.entries[store.current] EXCEPT !.size = bytes'[writer]]
    BY <1>a, <2>1, <2>2 DEF Store
  <2>5. store'.entries[store'.current].size = bytes'[writer]
    BY <2>3, <2>4 DEF ManifestEntry
  <2> QED BY <2>1, <2>5 DEF SizeWithinCapture
<1>3. ASSUME NEW r \in Reasons \cup {NoReason}, NEW closed \in BOOLEAN,
             NEW ok1 \in BOOLEAN, NEW ok2 \in BOOLEAN,
             FinishCurrentEntry(r, closed, ok1, ok2)
      PROVE  SizeWithinCapture'
  BY <1>3, <1>b DEF FinishCurrentEntry
<1>4. ASSUME NEW n \in Names, NEW k \in Marks, NEW on \in BOOLEAN, NEW ok \in BOOLEAN,
             MarkEntry(n, k, on, ok)
      PROVE  SizeWithinCapture'
  <2>1. /\ n \in NamesOf(store.entries) /\ store' = SetMark(store, n, k, on)
        /\ UNCHANGED <<writer, bytes>>
    BY <1>4 DEF MarkEntry
  <2>2. SameEntries(store, store')
    BY <1>a, <2>1, SetMarkKeeps
  <2>3. \A j \in DOMAIN store.entries : store'.entries[j].size = store.entries[j].size
    <3>1. \A j \in DOMAIN store.entries :
            SetMark(store, n, k, on).entries[j].size = store.entries[j].size
      BY <1>a, <2>1, SetMarkIs
    <3> QED BY <2>1, <3>1
  <2> QED BY <1>a, <2>1, <2>2, <2>3, SameSizeKept DEF SameEntries
<1>5. ASSUME NEW n \in Names, NEW at \in FileKind \cup {"none"}, NEW ok \in BOOLEAN,
             DeleteRecording(n, at, ok)
      PROVE  SizeWithinCapture'
  <2>1. /\ UNCHANGED writer /\ n \in NamesOf(store.entries) /\ ~IsCurrentEntry(store, n)
        /\ bytes' = IF at = "qmdl" THEN bytes ELSE [bytes EXCEPT ![n] = 0]
        /\ store' = IF at = "none" THEN DeleteEntry(store, n) ELSE store
    BY <1>5 DEF DeleteRecording
  <2>2. writer # None /\ store.current # None => bytes'[writer] = bytes[writer]
    <3>1. writer # None /\ store.current # None => writer # n
      BY <1>a, <2>1 DEF IndInv, WriterIsCurrent, IsCurrentEntry
    <3> QED BY <1>a, <2>1, <3>1
  <2>3. store'.current # None =>
            /\ store.current # None
            /\ store'.entries[store'.current] = store.entries[store.current]
    <3>1. WellFormed(DeleteEntry(store, n))
      BY <1>a, <2>1, DeleteEntryKeeps
    <3>2. /\ WellFormed(store')
          /\ store'.current # None => store'.current \in DOMAIN store'.entries
      BY <1>a, <2>1, <3>1 DEF WellFormed, Store, None
    <3>3. store'.current \in DOMAIN store'.entries =>
            /\ store.current \in DOMAIN store.entries
            /\ store'.entries[store'.current] = store.entries[store.current]
      BY <1>a, <2>1, DeleteEntryIs
    <3>4. store.current \in DOMAIN store.entries => store.current # None
      BY <1>a DEF None
    <3> QED BY <3>2, <3>3, <3>4
  <2> QED BY <2>1, <2>2, <2>3, SameSizeKept
<1>6. ASSUME NEW kept \in SUBSET Names, NEW at \in FileKind, NEW ok \in BOOLEAN,
             DeleteAll(kept, at, ok)
      PROVE  SizeWithinCapture'
  BY <1>6, <1>b DEF DeleteAll
<1>7. ASSUME NEW ok \in BOOLEAN, OpenOrRecover(ok)
      PROVE  SizeWithinCapture'
  BY <1>7, <1>b DEF OpenOrRecover, IndInv
<1>8. CASE ShutdownCloseEntry
  BY <1>8, <1>a, <1>b, CloseCurrentEntryKeeps DEF ShutdownCloseEntry
<1>9. CASE AppendGps
  BY <1>9 DEF AppendGps, memory, SizeWithinCapture
<1>10. ASSUME NEW readable \in BOOLEAN, Crash(readable)
       PROVE  SizeWithinCapture'
  BY <1>10, <1>b DEF Crash
<1>11. CASE UNCHANGED vars
  BY <1>11 DEF vars, SizeWithinCapture
<1> QED
  BY <1>1, <1>2, <1>3, <1>4, <1>5, <1>6, <1>7, <1>8, <1>9, <1>10, <1>11 DEF Next

\* The HTTP server, which reads the recording in progress up to its listed
\* size, never reads past what the capture holds: no size lands on the wrong
\* entry, whatever fails, is deleted or restarts.
THEOREM StoreSizeWithinCapture == Spec => []SizeWithinCapture
<1>1. Init => SizeWithinCapture
  BY DEF Init, SizeWithinCapture
<1> QED
  BY Initially, Inductive, StepKeepsSizes, <1>1, PTL DEF Spec

-----------------------------------------------------------------------------
(***************************************************************************)
(* RecordingStore implements AbstractStore, for every set of names, every  *)
(* bound and whether or not names repeat.  Each action of the detailed     *)
(* store is one action of the abstract one, or changes nothing it shows;   *)
(* recovery is of the second kind.                                         *)
(***************************************************************************)

\* Deleting an entry lists no name that was not listed.
LEMMA RemoveIndexAddsNothing ==
    ASSUME NEW es \in Seq(ManifestEntry), NEW i \in DOMAIN es
    PROVE  NamesOf(RemoveIndex(es, i)) \subseteq NamesOf(es)
<1> SUFFICES ASSUME NEW j \in DOMAIN RemoveIndex(es, i)
             PROVE  RemoveIndex(es, i)[j].name \in NamesOf(es)
  BY DEF NamesOf
<1>1. j \in 1..(Len(es) - 1) /\ Len(es) \in Nat /\ DOMAIN es = 1..Len(es)
  BY DEF RemoveIndex
<1>2. \E k \in DOMAIN es : RemoveIndex(es, i)[j] = es[k]
  BY <1>1 DEF RemoveIndex
<1> QED BY <1>2 DEF NamesOf

\* The names of a manifest are names.
LEMMA NamesOfAreNames ==
    ASSUME NEW es \in Seq(ManifestEntry)
    PROVE  NamesOf(es) \subseteq Names
<1>1. \A i \in DOMAIN es : es[i] \in ManifestEntry
  OBVIOUS
<1> QED BY <1>1 DEF NamesOf, ManifestEntry

\* What is shown are names, lengths are numbers, and every recording that
\* holds data is shown.
LEMMA ShownFacts ==
    ASSUME IndInv
    PROVE  /\ ShownNames \subseteq Names
           /\ CaptureLength \in [Names -> Nat]
           /\ \A n \in Names : CaptureLength[n] > 0 => n \in ShownNames
<1>1. ShownNames \subseteq Names
  <2>1. store.entries \in Seq(ManifestEntry) /\ saved \in Seq(ManifestEntry)
    BY DEF IndInv, TypeOK, WellFormed, Store
  <2> QED BY <2>1, NamesOfAreNames DEF ShownNames
<1>2. bytes \in [Names -> Nat]
  BY BoundsAssumption DEF IndInv, TypeOK
<1>3. CaptureLength \in [Names -> Nat]
  BY <1>2 DEF CaptureLength
<1>4. ASSUME NEW n \in Names, CaptureLength[n] > 0
      PROVE  n \in ShownNames
  <2>1. "qmdl" \in files[n] /\ bytes[n] > 0
    BY <1>4, <1>2 DEF CaptureLength
  <2> QED BY <2>1 DEF IndInv, DataVisible, HasData, Listed, ShownNames
<1> QED BY <1>1, <1>3, <1>4

\* What is shown leaves out nothing that holds data; after a step too.
ShowsData ==
    /\ ShownNames \subseteq Names
    /\ \A n \in Names : CaptureLength[n] > 0 => n \in ShownNames

LEMMA ShowsDataNow == IndInv => ShowsData
BY ShownFacts DEF ShowsData

LEMMA ShowsDataNext == IndInv' => ShowsData'
BY ShowsDataNow, PTL

\* A step that changes nothing the abstract store shows.
LEMMA Unseen ==
    ASSUME writer' = writer, ShownNames' = ShownNames, CaptureLength' = CaptureLength
    PROVE  [Abstract!Next]_(Abstract!promise)
BY DEF Abstract!promise

LEMMA NewEntryBegins ==
    ASSUME IndInv, NEW n \in Names,
           NEW o \in {"qmdl", "analysis", "gps", "manifest", "late", "ok"},
           NewEntry(n, o)
    PROVE  Abstract!Begin(n)
<1> DEFINE c == CloseCurrentEntry(store)
<1>1. WellFormed(c) /\ c.entries = store.entries
  BY CloseCurrentEntryKeeps DEF IndInv, TypeOK
<1>2. NamesOf(PushEntry(c, n).entries) = NamesOf(store.entries) \cup {n}
  BY <1>1, PushEntryAdds
<1>3. up /\ up' /\ store' = IF o \in {"qmdl", "analysis", "gps"} THEN c ELSE PushEntry(c, n)
  BY DEF NewEntry
<1> HIDE DEF c
<1>4. ShownNames' = IF o \in {"qmdl", "analysis", "gps"} THEN ShownNames
                    ELSE ShownNames \cup {n}
  BY <1>1, <1>2, <1>3 DEF ShownNames
<1>5. writer = None /\ writer' = IF o = "ok" THEN n ELSE None
  BY DEF NewEntry
<1>6. CaptureLength[n] = 0 /\ CaptureLength' = CaptureLength
  <2>1. /\ "qmdl" \notin files[n] /\ bytes' = [bytes EXCEPT ![n] = 0]
        /\ \A m \in Names : m # n => files'[m] = files[m]
    BY DEF NewEntry, IndInv, TypeOK
  <2>2. bytes \in [Names -> 0..MaxBytes]
    BY DEF IndInv, TypeOK
  <2>3. \A m \in Names : (IF "qmdl" \in files'[m] THEN bytes'[m] ELSE 0)
                       = (IF "qmdl" \in files[m] THEN bytes[m] ELSE 0)
    BY <2>1, <2>2
  <2> QED BY <2>1, <2>3 DEF CaptureLength
<1>7. n # None
  BY NamesAssumption DEF None
<1> QED BY <1>4, <1>5, <1>6, <1>7 DEF Abstract!Begin

\* What appending to the open capture (more = 0 or 1) does to the lengths.
LEMMA AppendGrows ==
    ASSUME IndInv, writer # None, files' = files, NEW more \in Nat,
           bytes' = [bytes EXCEPT ![writer] =
                        IF "qmdl" \in files[writer] THEN @ + more ELSE @]
    PROVE  \/ CaptureLength' = CaptureLength
           \/ /\ writer \in ShownNames
              /\ CaptureLength' = [CaptureLength EXCEPT ![writer] = @ + more]
<1>1. bytes \in [Names -> Nat] /\ writer \in Names
  BY BoundsAssumption DEF IndInv, TypeOK
<1>2. CASE "qmdl" \notin files[writer]
  <2>1. \A m \in Names : (IF "qmdl" \in files'[m] THEN bytes'[m] ELSE 0)
                       = (IF "qmdl" \in files[m] THEN bytes[m] ELSE 0)
    BY <1>1, <1>2
  <2> QED BY <2>1 DEF CaptureLength
<1>3. CASE "qmdl" \in files[writer]
  <2>1. writer \in ShownNames
    BY <1>3 DEF IndInv, Listed, ShownNames, WriterIsCurrent
  <2>2. CaptureLength' = [CaptureLength EXCEPT ![writer] = @ + more]
    BY <1>1, <1>3 DEF CaptureLength
  <2> QED BY <2>1, <2>2
<1> QED BY <1>2, <1>3

LEMMA WriteContainerGrows ==
    ASSUME IndInv, WriteContainer
    PROVE  [Abstract!Next]_(Abstract!promise)
<1>1. /\ writer # None /\ writer' = writer /\ files' = files /\ up /\ up'
      /\ bytes' = [bytes EXCEPT ![writer] = IF "qmdl" \in files[writer] THEN @ + 1 ELSE @]
  BY DEF WriteContainer
<1>2. ShownNames' = ShownNames
  <2>1. bytes'[writer] \in Nat
    BY <1>1, BoundsAssumption DEF IndInv, TypeOK
  <2>2. SameEntries(store, store')
    BY <2>1, UpdateSizeKeeps DEF WriteContainer, IndInv, TypeOK
  <2> QED BY <1>1, <2>2 DEF SameEntries, ShownNames
<1>3. CASE CaptureLength' = CaptureLength
  BY <1>1, <1>2, <1>3, Unseen
<1>4. CASE writer \in ShownNames /\ CaptureLength' = [CaptureLength EXCEPT ![writer] = @ + 1]
  <2>1. Abstract!Grow
    BY <1>1, <1>2, <1>4 DEF Abstract!Grow
  <2> QED BY <2>1 DEF Abstract!Next
<1> QED BY <1>1, <1>3, <1>4, AppendGrows

LEMMA FinishCurrentEntryFinishes ==
    ASSUME IndInv, NEW r \in Reasons \cup {NoReason},
           NEW closed \in BOOLEAN, NEW ok1 \in BOOLEAN, NEW ok2 \in BOOLEAN,
           FinishCurrentEntry(r, closed, ok1, ok2)
    PROVE  Abstract!Next
<1> DEFINE sized == IF closed THEN UpdateCurrentEntryQmdlSize(store, bytes'[writer])
                              ELSE store
           noted == IF r = NoReason THEN sized ELSE SetCurrentStopReason(sized, r)
<1>1. PICK more \in 0..1 :
          bytes' = [bytes EXCEPT ![writer] =
                        IF "qmdl" \in files[writer] THEN @ + more ELSE @]
  BY DEF FinishCurrentEntry
<1>2. /\ writer # None /\ writer' = None /\ files' = files /\ up /\ up'
      /\ store' = CloseCurrentEntry(noted)
  BY DEF FinishCurrentEntry
<1>3. ShownNames' = ShownNames
  <2>1. bytes'[writer] \in Nat
    BY <1>1, <1>2, BoundsAssumption DEF IndInv, TypeOK
  <2>2. WellFormed(sized) /\ NamesOf(sized.entries) = NamesOf(store.entries)
    BY <2>1, UpdateSizeKeeps DEF SameEntries, IndInv, TypeOK
  <2> HIDE DEF sized
  <2>3. WellFormed(noted) /\ NamesOf(noted.entries) = NamesOf(store.entries)
    BY <2>2, SetReasonKeeps DEF SameEntries
  <2> HIDE DEF noted
  <2>4. NamesOf(store'.entries) = NamesOf(store.entries)
    BY <1>2, <2>3, CloseCurrentEntryKeeps
  <2> QED BY <1>2, <2>4 DEF ShownNames
<1> HIDE DEF noted, sized
<1>4. CASE CaptureLength' = CaptureLength
  <2>1. Abstract!Finish
    BY <1>2, <1>3, <1>4 DEF Abstract!Finish
  <2> QED BY <2>1 DEF Abstract!Next
<1>5. CASE /\ writer \in ShownNames /\ more = 1
           /\ CaptureLength' = [CaptureLength EXCEPT ![writer] = @ + more]
  <2>1. Abstract!Grow
    BY <1>2, <1>3, <1>5 DEF Abstract!Grow
  <2> QED BY <2>1 DEF Abstract!Next
<1>6. CASE more = 0 /\ CaptureLength' = [CaptureLength EXCEPT ![writer] = @ + more]
  <2>1. CaptureLength' = CaptureLength
    BY <1>6, ShownFacts
  <2> QED BY <2>1, <1>4
<1>7. \/ CaptureLength' = CaptureLength
      \/ /\ writer \in ShownNames
         /\ CaptureLength' = [CaptureLength EXCEPT ![writer] = @ + more]
  <2>1. more \in Nat
    OBVIOUS
  <2> QED BY <1>1, <1>2, <2>1, AppendGrows, Zenon
<1> QED BY <1>1, <1>4, <1>5, <1>6, <1>7

\* What a deletion does: the data of the names in S is gone, no other.
LEMMA DeletionErases ==
    ASSUME NEW S, S \subseteq ShownNames, writer' = writer,
           ShownNames' \subseteq ShownNames, ShownNames \ S \subseteq ShownNames',
           CaptureLength' = [n \in Names |-> IF n \in S THEN 0 ELSE CaptureLength[n]]
    PROVE  Abstract!Next
<1>1. Abstract!Erase(S)
  BY DEF Abstract!Erase
<1> QED BY <1>1 DEF Abstract!Next

LEMMA DeleteRecordingErases ==
    ASSUME IndInv, NEW n \in Names, NEW at \in FileKind \cup {"none"},
           NEW ok \in BOOLEAN, DeleteRecording(n, at, ok)
    PROVE  Abstract!Next
<1> DEFINE S == IF at = "qmdl" THEN {} ELSE {n}
<1>1. /\ up /\ up' /\ writer' = writer /\ n \in NamesOf(store.entries)
      /\ store' = IF at = "none" THEN DeleteEntry(store, n) ELSE store
      /\ files' = [files EXCEPT ![n] = @ \ RemovedBefore(at)]
      /\ bytes' = IF at = "qmdl" THEN bytes ELSE [bytes EXCEPT ![n] = 0]
  BY DEF DeleteRecording
<1>2. files \in [Names -> SUBSET FileKind] /\ bytes \in [Names -> 0..MaxBytes]
  BY DEF IndInv, TypeOK
<1>3. IF at = "qmdl" THEN RemovedBefore(at) = {} ELSE "qmdl" \in RemovedBefore(at)
  BY DEF RemovedBefore, FileKind
<1>4. CaptureLength' = [m \in Names |-> IF m \in S THEN 0 ELSE CaptureLength[m]]
  <2>1. \A m \in Names : (IF "qmdl" \in files'[m] THEN bytes'[m] ELSE 0)
                       = (IF m \in S THEN 0 ELSE CaptureLength[m])
    BY <1>1, <1>2, <1>3 DEF CaptureLength
  <2> QED BY <2>1 DEF CaptureLength
<1>5. /\ NamesOf(store'.entries) \subseteq NamesOf(store.entries)
      /\ NamesOf(store.entries) \ {n} \subseteq NamesOf(store'.entries)
      /\ at = "qmdl" => store' = store
  <2>1. CASE at # "none"
    BY <1>1, <2>1
  <2>2. CASE at = "none"
    <3>1. \A m \in NamesOf(store.entries) : m # n => m \in NamesOf(store'.entries)
      BY <1>1, <2>2, DeleteEntryKeeps DEF IndInv, TypeOK
    <3>2. store.entries \in Seq(ManifestEntry)
      BY DEF IndInv, TypeOK, WellFormed, Store
    <3>3. EntryForName(store.entries, n) \in DOMAIN store.entries
      BY <1>1, <3>2, EntryForNameFinds
    <3>4. NamesOf(store'.entries) \subseteq NamesOf(store.entries)
      BY <1>1, <2>2, <3>2, <3>3, RemoveIndexAddsNothing DEF DeleteEntry
    <3> QED BY <2>2, <3>1, <3>4
  <2> QED BY <2>1, <2>2
<1>6. ShownNames = NamesOf(store.entries) /\ ShownNames' = NamesOf(store'.entries)
  BY <1>1 DEF ShownNames
<1>7. /\ S \subseteq ShownNames /\ ShownNames' \subseteq ShownNames
      /\ ShownNames \ S \subseteq ShownNames'
  <2>1. CASE at = "qmdl"
    BY <1>1, <1>5, <1>6, <2>1
  <2>2. CASE at # "qmdl"
    BY <1>1, <1>5, <1>6, <2>2
  <2> QED BY <2>1, <2>2
<1> HIDE DEF S
<1> QED BY <1>1, <1>4, <1>7, DeletionErases

LEMMA DeleteAllErases ==
    ASSUME IndInv, NEW kept \in SUBSET Names, NEW at \in FileKind,
           NEW ok \in BOOLEAN, DeleteAll(kept, at, ok)
    PROVE  Abstract!Next
<1> DEFINE gone == NamesOf(store.entries) \ kept
           S == gone \cup (IF at = "qmdl" THEN {} ELSE kept)
           es == RetainOnly(store.entries, kept)
<1>1. store' = [entries |-> es, current |-> None]
  BY DEF DeleteAll
<1>2. /\ up /\ up' /\ writer' = writer /\ kept \subseteq NamesOf(store.entries)
      /\ \A m \in Names : files'[m] = IF m \in gone THEN {}
                                      ELSE IF m \in kept THEN files[m] \ RemovedBefore(at)
                                      ELSE files[m]
      /\ \A m \in Names : bytes'[m] = IF m \in gone \/ (m \in kept /\ at # "qmdl")
                                      THEN 0 ELSE bytes[m]
  BY DEF DeleteAll
<1>3. store.entries \in Seq(ManifestEntry)
  BY DEF IndInv, TypeOK, WellFormed, Store
<1>4. /\ NamesOf(es) \subseteq NamesOf(store.entries)
      /\ \A m \in NamesOf(store.entries) : m \in kept => m \in NamesOf(es)
  BY <1>3, RetainOnlyKeeps
<1> HIDE DEF es
<1>5. IF at = "qmdl" THEN RemovedBefore(at) = {} ELSE "qmdl" \in RemovedBefore(at)
  BY DEF RemovedBefore, FileKind
<1>6. ShownNames = NamesOf(store.entries) /\ ShownNames' = NamesOf(es)
  BY <1>1, <1>2 DEF ShownNames
<1>7. /\ S \subseteq ShownNames /\ ShownNames' \subseteq ShownNames
      /\ ShownNames \ S \subseteq ShownNames'
  BY <1>2, <1>4, <1>6
<1>8. CaptureLength' = [m \in Names |-> IF m \in S THEN 0 ELSE CaptureLength[m]]
  <2> HIDE DEF gone
  <2>1. \A m \in Names : (IF "qmdl" \in files'[m] THEN bytes'[m] ELSE 0)
                       = (IF m \in S THEN 0 ELSE CaptureLength[m])
    BY <1>2, <1>5 DEF CaptureLength
  <2> HIDE DEF S
  <2> QED BY <2>1 DEF CaptureLength
<1> HIDE DEF S
<1> QED BY <1>2, <1>7, <1>8, DeletionErases

\* Recovery shows what was going to be shown.
LEMMA OpenOrRecoverUnseen ==
    ASSUME IndInv, NEW ok \in BOOLEAN, OpenOrRecover(ok)
    PROVE  [Abstract!Next]_(Abstract!promise)
<1>1. ~up /\ up' = ok /\ writer' = writer /\ files' = files /\ bytes' = bytes
  BY DEF OpenOrRecover
<1>2. CaptureLength' = CaptureLength
  BY <1>1 DEF CaptureLength
<1> DEFINE Q == {n \in Names : "qmdl" \in files[n]}
<1>3. CASE /\ manifest = "ok" /\ ok
           /\ store' = [entries |-> saved, current |-> None]
           /\ UNCHANGED <<manifest, saved>>
  <2>1. ShownNames' = ShownNames
    BY <1>1, <1>3 DEF ShownNames
  <2> QED BY <1>1, <1>2, <2>1, Unseen
<1>4. CASE /\ manifest \in {"corrupt", "missing"}
           /\ LET s == CapturesInOrder
                  es == [i \in DOMAIN s |-> RecoveredEntry(s[i])]
              IN /\ store' = IF ok THEN [entries |-> es, current |-> None]
                                   ELSE EmptyStore
                 /\ WriteManifest(es, ok)
  <2> DEFINE s == CapturesInOrder
             es == [i \in DOMAIN s |-> RecoveredEntry(s[i])]
             c == Cardinality(Q)
  <2>1. /\ store' = IF ok THEN [entries |-> es, current |-> None] ELSE EmptyStore
        /\ WriteManifest(es, ok)
    BY <1>4
  <2>2. s \in [1..c -> Q] /\ \A n \in Q : \E a \in 1..c : s[a] = n
    BY CapturesInOrderIs
  <2> HIDE DEF c, s
  <2>3. DOMAIN es = DOMAIN s /\ \A i \in DOMAIN s : es[i].name = s[i]
    BY DEF RecoveredEntry, NewManifestEntry
  <2>4. NamesOf(es) = Q
    <3> HIDE DEF es, Q
    <3> QED BY <2>2, <2>3 DEF NamesOf
  <2>5. /\ ok => store'.entries = es
        /\ ~ok => manifest' = manifest
    BY <2>1 DEF WriteManifest
  <2> HIDE DEF es
  <2>6. ShownNames' = ShownNames
    BY <1>1, <1>4, <2>4, <2>5 DEF ShownNames
  <2> QED BY <1>1, <1>2, <2>6, Unseen
<1>5. CASE /\ manifest = "nodir"
           /\ store' = EmptyStore
           /\ saved' = <<>>
           /\ manifest' = IF ok THEN "ok" ELSE "missing"
  <2>1. \A n \in Names : files[n] = {}
    BY <1>5 DEF IndInv
  <2>2. ShownNames = {}
    BY <1>1, <1>5, <2>1 DEF ShownNames
  <2>3. ShownNames' = {}
    BY <1>1, <1>5, <2>1 DEF ShownNames, EmptyStore, NamesOf
  <2> QED BY <1>1, <1>2, <2>2, <2>3, Unseen
<1> QED
  BY <1>3, <1>4, <1>5 DEF OpenOrRecover

LEMMA CrashRestarts ==
    ASSUME IndInv, IndInv', NEW readable \in BOOLEAN, Crash(readable)
    PROVE  Abstract!Next
<1>1. writer' = None /\ files' = files /\ bytes' = bytes
  BY DEF Crash
<1>2. CaptureLength' = CaptureLength
  BY <1>1 DEF CaptureLength
<1>3. /\ ShownNames' \subseteq Names
      /\ \A n \in Names : CaptureLength'[n] > 0 => n \in ShownNames'
  BY ShowsDataNext DEF ShowsData
<1>4. Abstract!Restart
  BY <1>1, <1>2, <1>3 DEF Abstract!Restart
<1> QED BY <1>4 DEF Abstract!Next

\* Every step of the store is a step of the abstract one, or is not seen.
LEMMA StepImplements ==
    ASSUME IndInv, IndInv', [Next]_vars
    PROVE  [Abstract!Next]_(Abstract!promise)
<1>1. ASSUME NEW n \in Names, NEW o \in {"qmdl", "analysis", "gps", "manifest", "late", "ok"},
             NewEntry(n, o)
      PROVE  Abstract!Next
  BY <1>1, NewEntryBegins DEF Abstract!Next
<1>2. CASE WriteContainer
  BY <1>2, WriteContainerGrows
<1>3. ASSUME NEW r \in Reasons \cup {NoReason}, NEW closed \in BOOLEAN,
             NEW ok1 \in BOOLEAN, NEW ok2 \in BOOLEAN,
             FinishCurrentEntry(r, closed, ok1, ok2)
      PROVE  Abstract!Next
  BY <1>3, FinishCurrentEntryFinishes
<1>4. ASSUME NEW n \in Names, NEW k \in Marks, NEW on \in BOOLEAN, NEW ok \in BOOLEAN,
             MarkEntry(n, k, on, ok)
      PROVE  [Abstract!Next]_(Abstract!promise)
  <2>1. SameEntries(store, store')
    BY <1>4, SetMarkKeeps DEF MarkEntry, IndInv, TypeOK
  <2>2. up /\ up' /\ UNCHANGED <<writer, files, bytes>>
    BY <1>4 DEF MarkEntry
  <2>3. ShownNames' = ShownNames /\ CaptureLength' = CaptureLength
    BY <2>1, <2>2 DEF ShownNames, CaptureLength, SameEntries
  <2> QED BY <2>2, <2>3, Unseen
<1>5. ASSUME NEW n \in Names, NEW at \in FileKind \cup {"none"}, NEW ok \in BOOLEAN,
             DeleteRecording(n, at, ok)
      PROVE  Abstract!Next
  BY <1>5, DeleteRecordingErases
<1>6. ASSUME NEW kept \in SUBSET Names, NEW at \in FileKind, NEW ok \in BOOLEAN,
             DeleteAll(kept, at, ok)
      PROVE  Abstract!Next
  BY <1>6, DeleteAllErases
<1>7. ASSUME NEW ok \in BOOLEAN, OpenOrRecover(ok)
      PROVE  [Abstract!Next]_(Abstract!promise)
  BY <1>7, OpenOrRecoverUnseen
<1>8. CASE ShutdownCloseEntry
  <2>1. store'.entries = store.entries /\ UNCHANGED <<writer, up, manifest, saved, files, bytes>>
    BY <1>8, CloseCurrentEntryKeeps DEF ShutdownCloseEntry, disk, IndInv, TypeOK
  <2>2. ShownNames' = ShownNames /\ CaptureLength' = CaptureLength
    BY <2>1 DEF ShownNames, CaptureLength
  <2> QED BY <2>1, <2>2, Unseen
<1>9. CASE AppendGps
  <2>1. UNCHANGED <<store, writer, up, bytes>> /\ up
    BY <1>9 DEF AppendGps, memory
  <2>2. \A m \in Names : "qmdl" \in files'[m] <=> "qmdl" \in files[m]
    BY <1>9 DEF AppendGps, IndInv, TypeOK
  <2>3. ShownNames' = ShownNames
    BY <2>1 DEF ShownNames
  <2>4. CaptureLength' = CaptureLength
    BY <2>1, <2>2 DEF CaptureLength
  <2> QED BY <2>1, <2>3, <2>4, Unseen
<1>10. ASSUME NEW readable \in BOOLEAN, Crash(readable)
       PROVE  Abstract!Next
  BY <1>10, CrashRestarts
<1>11. CASE UNCHANGED vars
  <2>1. ShownNames' = ShownNames /\ CaptureLength' = CaptureLength /\ writer' = writer
    BY <1>11 DEF ShownNames, CaptureLength, vars
  <2> QED BY <2>1, Unseen
<1> QED
  BY <1>1, <1>2, <1>3, <1>4, <1>5, <1>6, <1>7, <1>8, <1>9, <1>10, <1>11 DEF Next

\* The recording store, with its files, its manifest, its crashes and every
\* call that can fail, implements AbstractStore: data is only ever added to
\* the open recording or erased by a deletion, a recording that holds data is
\* always listed, and open_or_recover shows exactly what was shown before.
THEOREM StoreImplementsPromise == Spec => ImplementsPromise
<1>1. Init => Abstract!Init
  <2> SUFFICES ASSUME Init PROVE Abstract!Init
    OBVIOUS
  <2>1. ShownNames = {}
    BY DEF Init, ShownNames
  <2>2. CaptureLength = [n \in Names |-> 0]
    BY DEF Init, CaptureLength
  <2> QED BY <2>1, <2>2 DEF Abstract!Init, Init
<1>2. IndInv /\ IndInv' /\ [Next]_vars => [Abstract!Next]_(Abstract!promise)
  BY StepImplements
<1> QED
  BY Initially, Inductive, <1>1, <1>2, PTL DEF Spec, ImplementsPromise, Abstract!Spec
=============================================================================
