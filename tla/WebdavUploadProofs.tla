------------------------- MODULE WebdavUploadProofs -------------------------
(***************************************************************************)
(* Proofs about WebdavUpload for every set of recordings, every list of    *)
(* file kinds, every bound and every server.  What the worker read under   *)
(* the lock it no longer holds stays true: the recording it sends is not   *)
(* written any more, and if it goes, it does not come back.                *)
(***************************************************************************)
EXTENDS WebdavUpload, StoreOpsProofs

\* Every listed recording was started, and none that is marked is running.
MarkedInv ==
    /\ NamesOf(store.entries) \subseteq issued
    /\ \A i \in DOMAIN store.entries :
        Uploaded \in store.entries[i].marks
        => ~IsCurrentEntry(store, store.entries[i].name)

\* The recording being sent is finished, so its capture has the size it had
\* when it was opened; once its capture has been answered and nothing has
\* failed, the server has it, unless it was deleted before it was opened.
SendingInv ==
    worker.pc = "upload" =>
        /\ worker.entry \in issued
        /\ ~IsCurrentEntry(store, worker.entry)
        /\ Capture \in worker.sending => worker.bytes = capture[worker.entry]
        /\ Capture \notin worker.todo \cup worker.sending /\ ~worker.failed
           => \/ server[worker.entry] = capture[worker.entry]
              \/ Capture \notin files[worker.entry]

\* The inductive invariant.
IInv == UploadInv /\ MarkedInv /\ SendingInv

-----------------------------------------------------------------------------
\* What the provers need of the types.
LEMMA TypeFacts ==
    ASSUME TypeOK
    PROVE  /\ WellFormed(store) /\ store.entries \in Seq(ManifestEntry)
           /\ store.current \in 0..Len(store.entries)
           /\ DOMAIN store.entries = 1..Len(store.entries) /\ Len(store.entries) \in Nat
           /\ store.current # None => store.current \in DOMAIN store.entries
           /\ \A i \in DOMAIN store.entries :
                store.entries[i].name \in Names /\ store.entries[i].name \in Listed
           /\ Listed \subseteq Names
           /\ MaxBytes \in Nat
<1>1. /\ WellFormed(store) /\ store.entries \in Seq(ManifestEntry)
      /\ store.current \in 0..Len(store.entries)
      /\ DOMAIN store.entries = 1..Len(store.entries) /\ Len(store.entries) \in Nat
  BY DEF TypeOK, WellFormed, Store
<1>2. store.current # None => store.current \in DOMAIN store.entries
  BY <1>1 DEF None
<1>3. \A i \in DOMAIN store.entries : store.entries[i] \in ManifestEntry
  BY <1>1
<1>4. \A i \in DOMAIN store.entries : store.entries[i].name \in Names
  BY <1>3 DEF ManifestEntry
<1> QED BY <1>1, <1>2, <1>4, BoundsAssumption DEF Listed, NamesOf

\* A step of a fault budget stays in it.
LEMMA OutcomeType ==
    ASSUME NEW ok \in BOOLEAN, faults \in 0..MaxFaults, Outcome(ok)
    PROVE  faults' \in 0..MaxFaults
<1>1. faults' = faults \/ faults' = faults - 1
  BY DEF Outcome
<1>2. faults' \in Nat /\ faults \in Nat /\ MaxFaults \in Nat /\ faults <= MaxFaults
  BY BoundsAssumption DEF Outcome
<1> QED BY <1>1, <1>2

\* The worker record it starts over with.
LEMMA AtType ==
    ASSUME NEW pc \in {"idle", "pick", "gone"}
    PROVE  At(pc) \in Worker /\ At(pc).pc = pc
BY BoundsAssumption DEF At, Worker

\* A store that lists only entries of before, with the current one, if any,
\* the one of before, has none marked that is running.
LEMMA FewerEntries ==
    ASSUME IInv, NEW t, WellFormed(t),
           \A j \in DOMAIN t.entries : \E k \in DOMAIN store.entries :
                t.entries[j] = store.entries[k],
           t.current \in DOMAIN t.entries =>
                /\ store.current \in DOMAIN store.entries
                /\ t.entries[t.current] = store.entries[store.current]
    PROVE  /\ NamesOf(t.entries) \subseteq NamesOf(store.entries)
           /\ \A n : IsCurrentEntry(t, n) => IsCurrentEntry(store, n)
           /\ \A j \in DOMAIN t.entries :
                Uploaded \in t.entries[j].marks
                => ~IsCurrentEntry(t, t.entries[j].name)
           /\ \A j \in DOMAIN t.entries :
                Uploaded \in t.entries[j].marks /\ Capture \in files[t.entries[j].name]
                => server[t.entries[j].name] = capture[t.entries[j].name]
<1>1. NamesOf(t.entries) \subseteq NamesOf(store.entries)
  BY DEF NamesOf
<1>2. \A n : IsCurrentEntry(t, n) => IsCurrentEntry(store, n)
  BY DEF IsCurrentEntry
<1>3. \A j \in DOMAIN t.entries :
        Uploaded \in t.entries[j].marks => ~IsCurrentEntry(t, t.entries[j].name)
  BY <1>2 DEF IInv, MarkedInv
<1>4. \A j \in DOMAIN t.entries :
        Uploaded \in t.entries[j].marks /\ Capture \in files[t.entries[j].name]
        => server[t.entries[j].name] = capture[t.entries[j].name]
  BY DEF IInv, UploadInv, UploadedIsWhole
<1> QED BY <1>1, <1>2, <1>3, <1>4

\* delete_entry, half done or whole, only takes away: files of one recording,
\* and its entry.
LEMMA DeleteTakes ==
    ASSUME IInv, NEW n \in Listed, NEW upto \in 0..Len(Kinds), Delete(n, upto)
    PROVE  /\ WellFormed(store') /\ faults' \in 0..MaxFaults
           /\ files' \in [Names -> SUBSET FileKinds]
           /\ \A m \in Names : files'[m] \subseteq files[m]
           /\ \A m \in Names : m # n => files'[m] = files[m]
           /\ NamesOf(store'.entries) \subseteq NamesOf(store.entries)
           /\ \A m : IsCurrentEntry(store', m) => IsCurrentEntry(store, m)
           /\ \A j \in DOMAIN store'.entries :
                Uploaded \in store'.entries[j].marks
                => ~IsCurrentEntry(store', store'.entries[j].name)
           /\ \A j \in DOMAIN store'.entries :
                Uploaded \in store'.entries[j].marks /\ Capture \in files[store'.entries[j].name]
                => server[store'.entries[j].name] = capture[store'.entries[j].name]
<1>a. TypeOK
  BY DEF IInv, UploadInv
<1>b. WellFormed(store) /\ n \in Names /\ n \in NamesOf(store.entries)
  BY <1>a, TypeFacts DEF Listed
<1>1. faults' \in 0..MaxFaults
  <2>1. (upto = Len(Kinds)) \in BOOLEAN
    OBVIOUS
  <2> QED BY <1>a, <2>1, OutcomeType DEF Delete, TypeOK
<1>2. /\ files' \in [Names -> SUBSET FileKinds]
      /\ \A m \in Names : files'[m] \subseteq files[m]
      /\ \A m \in Names : m # n => files'[m] = files[m]
  <2>1. files' = [files EXCEPT ![n] = @ \ {Kinds[i] : i \in 1..upto}]
    BY DEF Delete
  <2>2. files \in [Names -> SUBSET FileKinds]
    BY <1>a DEF TypeOK
  <2> QED BY <1>b, <2>1, <2>2
<1>3. store' = store \/ store' = DeleteEntry(store, n)
  BY DEF Delete
<1>4. /\ WellFormed(store')
      /\ \A j \in DOMAIN store'.entries : \E k \in DOMAIN store.entries :
            store'.entries[j] = store.entries[k]
      /\ store'.current \in DOMAIN store'.entries =>
            /\ store.current \in DOMAIN store.entries
            /\ store'.entries[store'.current] = store.entries[store.current]
  <2>1. CASE store' = store
    BY <1>b, <2>1
  <2>2. CASE store' = DeleteEntry(store, n)
    BY <1>b, <2>2, DeleteEntryKeeps, DeleteEntryIs
  <2> QED BY <1>3, <2>1, <2>2
<1>5. /\ NamesOf(store'.entries) \subseteq NamesOf(store.entries)
      /\ \A m : IsCurrentEntry(store', m) => IsCurrentEntry(store, m)
      /\ \A j \in DOMAIN store'.entries :
           Uploaded \in store'.entries[j].marks
           => ~IsCurrentEntry(store', store'.entries[j].name)
      /\ \A j \in DOMAIN store'.entries :
           Uploaded \in store'.entries[j].marks /\ Capture \in files[store'.entries[j].name]
           => server[store'.entries[j].name] = capture[store'.entries[j].name]
  BY <1>4, FewerEntries
<1> QED BY <1>1, <1>2, <1>4, <1>5

-----------------------------------------------------------------------------
(***************************************************************************)
(* The rest of the daemon.                                                 *)
(***************************************************************************)
\* A new recording has a new name: nothing is known of it, and it is not the
\* one being sent.
LEMMA NewRecordingPreserves ==
    ASSUME IInv, NEW n \in Names, NewRecording(n), UNCHANGED site
    PROVE  IInv'
<1>a. TypeOK
  BY DEF IInv, UploadInv
<1>b. /\ n \notin issued /\ store' = PushEntry(store, n) /\ issued' = issued \cup {n}
      /\ files' = [files EXCEPT ![n] = FileKinds]
      /\ UNCHANGED <<capture, old, server, worker, faults, shutdown, site>>
  BY DEF NewRecording
<1>c. WellFormed(store)
  BY <1>a, TypeFacts
<1>1. /\ WellFormed(store')
      /\ NamesOf(store'.entries) = NamesOf(store.entries) \cup {n}
  BY <1>b, <1>c, PushEntryAdds
<1>2. /\ DOMAIN store'.entries = DOMAIN store.entries \cup {store'.current}
      /\ store'.entries[store'.current] = NewManifestEntry(n)
      /\ \A i \in DOMAIN store.entries : store'.entries[i] = store.entries[i]
  BY <1>b, <1>c, PushEntryIs
<1>3. /\ store'.entries[store'.current].name = n
      /\ store'.entries[store'.current].marks = {}
  BY <1>2 DEF NewManifestEntry
<1>4. \A i \in DOMAIN store.entries : store.entries[i].name \in issued
  BY DEF IInv, MarkedInv, NamesOf
<1>5. \A m : IsCurrentEntry(store', m) => m = n
  BY <1>3 DEF IsCurrentEntry
<1>6. ASSUME NEW i \in DOMAIN store'.entries, Uploaded \in store'.entries[i].marks
      PROVE  /\ i \in DOMAIN store.entries /\ store'.entries[i] = store.entries[i]
             /\ store.entries[i].name # n /\ store.entries[i].name \in Names
             /\ Uploaded \in store.entries[i].marks
  <2>1. i \in DOMAIN store.entries
    BY <1>2, <1>3, <1>6
  <2> QED BY <1>2, <1>4, <1>6, <1>a, <1>b, <2>1, TypeFacts
<1>7. files' \in [Names -> SUBSET FileKinds] /\ \A m \in Names : m # n => files'[m] = files[m]
  BY <1>a, <1>b DEF TypeOK
<1>8. TypeOK'
  BY <1>1, <1>7, <1>a, <1>b DEF TypeOK
<1>9. UploadedIsWhole'
  <2> SUFFICES ASSUME NEW i \in DOMAIN store'.entries, Uploaded \in store'.entries[i].marks,
                      Capture \in files'[store'.entries[i].name]
               PROVE  server'[store'.entries[i].name] = capture'[store'.entries[i].name]
    BY DEF UploadedIsWhole
  <2>1. /\ i \in DOMAIN store.entries /\ store'.entries[i] = store.entries[i]
        /\ store.entries[i].name # n /\ store.entries[i].name \in Names
        /\ Uploaded \in store.entries[i].marks
    BY <1>6
  <2>2. Capture \in files[store.entries[i].name]
    BY <1>7, <2>1
  <2> QED BY <1>b, <2>1, <2>2 DEF IInv, UploadInv, UploadedIsWhole
<1>10. MarkedInv'
  <2>1. NamesOf(store'.entries) \subseteq issued'
    BY <1>1, <1>b DEF IInv, MarkedInv
  <2>2. \A i \in DOMAIN store'.entries :
            Uploaded \in store'.entries[i].marks
            => ~IsCurrentEntry(store', store'.entries[i].name)
    BY <1>5, <1>6
  <2> QED BY <2>1, <2>2 DEF MarkedInv
<1>11. SendingInv'
  <2>1. worker.pc = "upload" => worker.entry # n /\ worker.entry \in Names
    BY <1>a, <1>b DEF IInv, SendingInv, TypeOK
  <2> QED BY <1>5, <1>7, <1>b, <2>1 DEF IInv, SendingInv
<1> QED BY <1>8, <1>9, <1>10, <1>11 DEF IInv, UploadInv

\* Stopping only takes the current entry away.
LEMMA StopRecordingPreserves ==
    ASSUME IInv, StopRecording, UNCHANGED site
    PROVE  IInv'
<1>1. /\ WellFormed(store') /\ store'.entries = store.entries /\ store'.current = None
  BY CloseCurrentEntryKeeps DEF StopRecording, IInv, UploadInv, TypeOK
<1>2. UNCHANGED <<issued, files, capture, old, server, worker, faults, shutdown, site>>
  BY DEF StopRecording
<1>3. \A n : ~IsCurrentEntry(store', n)
  <2>1. None \notin DOMAIN store.entries
    BY TypeFacts DEF IInv, UploadInv, None
  <2> QED BY <1>1, <2>1 DEF IsCurrentEntry
<1>4. TypeOK'
  BY <1>1, <1>2 DEF IInv, UploadInv, TypeOK
<1>5. UploadedIsWhole'
  BY <1>1, <1>2 DEF IInv, UploadInv, UploadedIsWhole
<1>6. MarkedInv' /\ SendingInv'
  BY <1>1, <1>2, <1>3 DEF IInv, MarkedInv, SendingInv
<1> QED BY <1>4, <1>5, <1>6 DEF IInv, UploadInv

\* Only the current recording grows, and it is neither marked nor being sent.
LEMMA WriteContainerPreserves ==
    ASSUME IInv, WriteContainer, UNCHANGED site
    PROVE  IInv'
<1> DEFINE n == store.entries[store.current].name
<1>a. TypeOK
  BY DEF IInv, UploadInv
<1>1. /\ UNCHANGED <<store, issued, files, server, worker, faults, shutdown, site>>
      /\ capture[n] < MaxBytes
      /\ capture' = [capture EXCEPT ![n] = capture[n] + 1]
      /\ old' = old \ {n}
  BY DEF WriteContainer
<1>2. n \in Names /\ IsCurrentEntry(store, n)
  BY <1>a, TypeFacts DEF WriteContainer, IsCurrentEntry
<1> HIDE DEF n
<1>3. capture' \in [Names -> 0..MaxBytes] /\ \A m \in Names : m # n => capture'[m] = capture[m]
  <2>1. capture[n] + 1 \in 0..MaxBytes
    BY <1>1, <1>2, <1>a, BoundsAssumption DEF TypeOK
  <2> QED BY <1>1, <1>2, <1>a, <2>1 DEF TypeOK
<1>4. TypeOK'
  BY <1>1, <1>3, <1>a DEF TypeOK
<1>5. UploadedIsWhole'
  <2>1. \A i \in DOMAIN store.entries :
            Uploaded \in store.entries[i].marks =>
                store.entries[i].name # n /\ store.entries[i].name \in Names
    BY <1>2, <1>a, TypeFacts DEF IInv, MarkedInv
  <2> QED BY <1>1, <1>3, <2>1 DEF IInv, UploadInv, UploadedIsWhole
<1>6. MarkedInv'
  BY <1>1 DEF IInv, MarkedInv
<1>7. SendingInv'
  <2>1. worker.pc = "upload" => worker.entry # n /\ worker.entry \in Names
    BY <1>2, <1>a DEF IInv, SendingInv, TypeOK
  <2> QED BY <1>1, <1>3, <2>1 DEF IInv, SendingInv
<1> QED BY <1>4, <1>5, <1>6, <1>7 DEF IInv, UploadInv

\* A step that leaves the store, the files and the server alone, and does not
\* touch the worker.
LEMMA AgeCancelPreserve ==
    ASSUME IInv, UNCHANGED <<site, store, issued, files, capture, server, worker, faults>>,
           old' \subseteq Names, shutdown' \in BOOLEAN
    PROVE  IInv'
BY DEF IInv, UploadInv, UploadedIsWhole, MarkedInv, SendingInv, TypeOK

\* A deletion by request, half done or whole, in the middle of an upload too.
LEMMA DeleteByRequestPreserves ==
    ASSUME IInv, NEW n \in Names, NEW upto \in 0..Len(Kinds),
           DeleteByRequest(n, upto), UNCHANGED site
    PROVE  IInv'
<1>a. TypeOK
  BY DEF IInv, UploadInv
<1>b. /\ n \in Listed /\ Delete(n, upto)
      /\ UNCHANGED <<issued, capture, old, server, worker, shutdown, site>>
  BY DEF DeleteByRequest
<1>1. /\ WellFormed(store') /\ faults' \in 0..MaxFaults
      /\ files' \in [Names -> SUBSET FileKinds]
      /\ \A m \in Names : files'[m] \subseteq files[m]
      /\ NamesOf(store'.entries) \subseteq NamesOf(store.entries)
      /\ \A m : IsCurrentEntry(store', m) => IsCurrentEntry(store, m)
      /\ \A j \in DOMAIN store'.entries :
           Uploaded \in store'.entries[j].marks
           => ~IsCurrentEntry(store', store'.entries[j].name)
      /\ \A j \in DOMAIN store'.entries :
           Uploaded \in store'.entries[j].marks /\ Capture \in files[store'.entries[j].name]
           => server[store'.entries[j].name] = capture[store'.entries[j].name]
  BY <1>b, DeleteTakes
<1>2. TypeOK'
  BY <1>1, <1>a, <1>b DEF TypeOK
<1>3. UploadedIsWhole'
  <2>1. \A j \in DOMAIN store'.entries : store'.entries[j].name \in Names
    <3>1. store'.entries \in Seq(ManifestEntry)
      BY <1>1 DEF WellFormed, Store
    <3>2. \A j \in DOMAIN store'.entries : store'.entries[j] \in ManifestEntry
      BY <3>1
    <3> QED BY <3>2 DEF ManifestEntry
  <2> QED BY <1>1, <1>b, <2>1 DEF UploadedIsWhole
<1>4. MarkedInv'
  BY <1>1, <1>b DEF MarkedInv, IInv
<1>5. SendingInv'
  <2>1. worker.pc = "upload" => worker.entry \in Names
    BY <1>a DEF IInv, SendingInv, TypeOK
  <2> QED BY <1>1, <1>b, <2>1 DEF IInv, SendingInv
<1> QED BY <1>2, <1>3, <1>4, <1>5 DEF IInv, UploadInv

(***************************************************************************)
(* The worker.                                                             *)
(***************************************************************************)
\* What is left to show of a step of the worker that changes no disk state.
LEMMA WorkerPreserves ==
    ASSUME IInv, UNCHANGED <<site, store, issued, files, capture, old, shutdown>>,
           worker' \in Worker, faults' \in 0..MaxFaults,
           server' \in [Names -> 0..MaxBytes],
           \A n \in Names : server'[n] = server[n] \/ server'[n] = capture[n],
           SendingInv'
    PROVE  IInv'
<1>a. TypeOK
  BY DEF IInv, UploadInv
<1>1. TypeOK'
  BY <1>a DEF TypeOK
<1>2. UploadedIsWhole'
  <2>1. \A i \in DOMAIN store.entries : store.entries[i].name \in Names
    BY <1>a, TypeFacts
  <2> QED BY <2>1 DEF IInv, UploadInv, UploadedIsWhole
<1>3. MarkedInv'
  BY DEF IInv, MarkedInv
<1> QED BY <1>1, <1>2, <1>3 DEF IInv, UploadInv

\* Steps after which the worker sends nothing.
LEMMA RestPreserves ==
    ASSUME IInv, NEW pc \in {"idle", "pick", "gone"}, worker' = At(pc),
           UNCHANGED <<site, disk, server, faults, shutdown>>
    PROVE  IInv'
<1>1. worker' \in Worker /\ worker'.pc = pc
  BY AtType
<1>2. SendingInv'
  BY <1>1 DEF SendingInv
<1>3. /\ UNCHANGED <<site, store, issued, files, capture, old, server, faults, shutdown>>
      /\ server \in [Names -> 0..MaxBytes] /\ faults \in 0..MaxFaults
  BY DEF disk, IInv, UploadInv, TypeOK
<1> QED BY <1>1, <1>2, <1>3, WorkerPreserves

\* The recording picked is listed and not the current one.
LEMMA PickPreserves ==
    ASSUME IInv, Pick, UNCHANGED site
    PROVE  IInv'
<1>a. TypeOK /\ UNCHANGED <<site, disk, server, faults, shutdown>>
  BY DEF IInv, UploadInv, Pick
<1>1. CASE worker' = At("idle")
  BY <1>1, <1>a, RestPreserves
<1>2. ASSUME NEW n \in Names, Eligible(n),
             worker' = [At("upload") EXCEPT !.entry = n, !.todo = FileKinds]
      PROVE  IInv'
  <2>1. /\ worker' = [pc |-> "upload", entry |-> n, todo |-> FileKinds, sending |-> {},
                      bytes |-> 0, failed |-> FALSE]
    BY <1>2 DEF At
  <2>2. worker' \in Worker
    BY <2>1, BoundsAssumption DEF Worker
  <2>3. n \in issued /\ ~IsCurrentEntry(store, n)
    BY <1>2 DEF Eligible, IInv, MarkedInv, Listed
  <2>4. /\ UNCHANGED <<site, store, issued, files, capture, old, server, faults, shutdown>>
        /\ server \in [Names -> 0..MaxBytes] /\ faults \in 0..MaxFaults
        /\ files \in [Names -> SUBSET FileKinds]
    BY <1>a DEF disk, TypeOK
  <2>5. SendingInv'
    <3>1. Capture \notin FileKinds => Capture \notin files[n]
      BY <2>4
    <3> QED BY <2>1, <2>3, <2>4, <3>1 DEF SendingInv
  <2> QED BY <2>2, <2>4, <2>5, WorkerPreserves
<1> QED BY <1>1, <1>2 DEF Pick

\* Opening a file of the recording, which may have gone meanwhile.
LEMMA OpenPreserves ==
    ASSUME IInv, NEW k \in FileKinds, NEW ok \in BOOLEAN, Open(k, ok), UNCHANGED site
    PROVE  IInv'
<1> DEFINE n == worker.entry
           there == n \in Listed /\ k \in files[n]
<1>a. TypeOK /\ worker \in Worker
  BY DEF IInv, UploadInv, TypeOK
<1>b. /\ UNCHANGED <<site, store, issued, files, capture, old, server, shutdown>>
      /\ worker.pc = "upload" /\ k \in worker.todo /\ Outcome(ok)
  BY DEF Open, disk
<1>c. /\ n \in issued /\ n \in Names /\ ~IsCurrentEntry(store, n)
      /\ capture[n] \in 0..MaxBytes
  BY <1>a, <1>b DEF IInv, SendingInv, TypeOK
<1>1. worker' = [worker EXCEPT
            !.todo = worker.todo \ {k},
            !.sending = IF there /\ ok THEN worker.sending \cup {k} ELSE worker.sending,
            !.bytes = IF k = Capture THEN capture[n] ELSE worker.bytes,
            !.failed = worker.failed \/ n \notin Listed \/ ~ok]
  BY DEF Open
<1>2. /\ worker'.pc = "upload" /\ worker'.entry = n
      /\ worker'.todo = worker.todo \ {k}
      /\ worker'.sending = IF there /\ ok THEN worker.sending \cup {k} ELSE worker.sending
      /\ worker'.bytes = IF k = Capture THEN capture[n] ELSE worker.bytes
      /\ worker'.failed = (worker.failed \/ n \notin Listed \/ ~ok)
  BY <1>1, <1>a, <1>b DEF Worker
<1>3. worker' \in Worker
  BY <1>1, <1>a, <1>c DEF Worker
<1>4. SendingInv'
  <2>1. Capture \in worker'.sending => worker'.bytes = capture[n]
    BY <1>2, <1>b DEF IInv, SendingInv
  <2>2. ASSUME Capture \notin worker'.todo \cup worker'.sending, ~worker'.failed
        PROVE  server[n] = capture[n] \/ Capture \notin files[n]
    <3>1. ~worker.failed /\ n \in Listed /\ ok
      BY <1>2, <2>2
    <3>2. CASE k = Capture
      BY <1>2, <2>2, <3>1, <3>2
    <3>3. CASE k # Capture
      <4>1. Capture \notin worker.todo \cup worker.sending
        BY <1>2, <2>2, <3>3
      <4> QED BY <1>b, <3>1, <4>1 DEF IInv, SendingInv
    <3> QED BY <3>2, <3>3
  <2> QED BY <1>2, <1>b, <1>c, <2>1, <2>2 DEF SendingInv
<1>5. /\ faults' \in 0..MaxFaults
      /\ server' \in [Names -> 0..MaxBytes] /\ server' = server
  BY <1>a, <1>b, OutcomeType DEF TypeOK
<1> QED BY <1>b, <1>3, <1>4, <1>5, WorkerPreserves

\* A request is answered: the server has the capture as it was opened, which
\* is the capture as it is.
LEMMA PutPreserves ==
    ASSUME IInv, NEW k \in FileKinds, NEW ok \in BOOLEAN, Put(k, ok), UNCHANGED site
    PROVE  IInv'
<1> DEFINE n == worker.entry
<1>a. TypeOK /\ worker \in Worker /\ server \in [Names -> 0..MaxBytes]
  BY DEF IInv, UploadInv, TypeOK
<1>b. /\ UNCHANGED <<site, store, issued, files, capture, old, shutdown>>
      /\ worker.pc = "upload" /\ k \in worker.sending
      /\ server' = IF ok /\ k = Capture THEN [server EXCEPT ![n] = worker.bytes] ELSE server
      /\ worker' = [worker EXCEPT !.sending = worker.sending \ {k},
                                  !.failed = worker.failed \/ ~ok]
  BY DEF Put, disk
<1>c. /\ n \in issued /\ n \in Names /\ ~IsCurrentEntry(store, n)
      /\ worker.bytes \in 0..MaxBytes
  BY <1>a, <1>b DEF IInv, SendingInv, TypeOK, Worker
<1>d. faults' \in 0..MaxFaults
  <2>1. faults' = faults \/ Outcome(ok)
    BY DEF Put
  <2> QED BY <1>a, <2>1, OutcomeType DEF TypeOK
<1>1. /\ worker'.pc = "upload" /\ worker'.entry = n /\ worker'.todo = worker.todo
      /\ worker'.sending = worker.sending \ {k}
      /\ worker'.bytes = worker.bytes
      /\ worker'.failed = (worker.failed \/ ~ok)
      /\ worker' \in Worker
  BY <1>a, <1>b DEF Worker
<1>2. /\ server' \in [Names -> 0..MaxBytes]
      /\ ok /\ k = Capture => server'[n] = worker.bytes
      /\ ~(ok /\ k = Capture) => server' = server
      /\ \A m \in Names : m # n => server'[m] = server[m]
  BY <1>a, <1>b, <1>c
<1>3. Capture \in worker.sending => worker.bytes = capture[n]
  BY <1>b DEF IInv, SendingInv
<1>4. \A m \in Names : server'[m] = server[m] \/ server'[m] = capture[m]
  BY <1>b, <1>2, <1>3
<1>5. SendingInv'
  <2>1. Capture \in worker'.sending => worker'.bytes = capture[n]
    BY <1>1, <1>3
  <2>2. ASSUME Capture \notin worker'.todo \cup worker'.sending, ~worker'.failed
        PROVE  server'[n] = capture[n] \/ Capture \notin files[n]
    <3>1. ~worker.failed /\ ok
      BY <1>1, <2>2
    <3>2. CASE k = Capture
      BY <1>b, <1>2, <1>3, <3>1, <3>2
    <3>3. CASE k # Capture
      <4>1. Capture \notin worker.todo \cup worker.sending /\ server' = server
        BY <1>1, <1>2, <2>2, <3>3
      <4> QED BY <1>b, <3>1, <4>1 DEF IInv, SendingInv
    <3> QED BY <3>2, <3>3
  <2> QED BY <1>1, <1>b, <1>c, <2>1, <2>2 DEF SendingInv
<1> QED BY <1>b, <1>d, <1>1, <1>2, <1>4, <1>5, WorkerPreserves

\* What the worker knows when all is answered and nothing has failed.
LEMMA SettledIsSent ==
    ASSUME IInv, AllAnswered, ~worker.failed
    PROVE  /\ worker.entry \in Names /\ ~IsCurrentEntry(store, worker.entry)
           /\ \/ server[worker.entry] = capture[worker.entry]
              \/ Capture \notin files[worker.entry]
BY DEF AllAnswered, IInv, SendingInv, UploadInv, TypeOK

\* The recording is deleted or marked, or has gone.
LEMMA SettlePreserves ==
    ASSUME IInv, NEW upto \in 0..Len(Kinds), Settle(upto), UNCHANGED site
    PROVE  IInv'
<1> DEFINE n == worker.entry
<1>a. TypeOK
  BY DEF IInv, UploadInv
<1>b. /\ UNCHANGED <<site, issued, capture, old, server, shutdown>>
      /\ AllAnswered /\ ~worker.failed /\ worker' = At("pick")
  BY DEF Settle
<1>c. /\ n \in Names /\ ~IsCurrentEntry(store, n)
      /\ server[n] = capture[n] \/ Capture \notin files[n]
  BY <1>b, SettledIsSent
<1>d. worker' \in Worker /\ worker'.pc = "pick"
  BY <1>b, AtType
<1>e. SendingInv'
  BY <1>d DEF SendingInv
<1>1. CASE n \notin Listed
  <2>1. UNCHANGED <<site, disk, server, faults, shutdown>>
    BY <1>1, <1>b DEF Settle, disk
  <2> QED BY <1>b, <2>1, RestPreserves
<1>2. CASE n \in Listed /\ site.deletes
  <2>1. Delete(n, upto)
    BY <1>2 DEF Settle
  <2>2. /\ WellFormed(store') /\ faults' \in 0..MaxFaults
        /\ files' \in [Names -> SUBSET FileKinds]
        /\ \A m \in Names : files'[m] \subseteq files[m]
        /\ NamesOf(store'.entries) \subseteq NamesOf(store.entries)
        /\ \A j \in DOMAIN store'.entries :
             Uploaded \in store'.entries[j].marks
             => ~IsCurrentEntry(store', store'.entries[j].name)
        /\ \A j \in DOMAIN store'.entries :
             Uploaded \in store'.entries[j].marks /\ Capture \in files[store'.entries[j].name]
             => server[store'.entries[j].name] = capture[store'.entries[j].name]
    BY <1>2, <2>1, DeleteTakes
  <2>3. TypeOK'
    BY <2>2, <1>a, <1>b, <1>d DEF TypeOK
  <2>4. UploadedIsWhole'
    <3>1. store'.entries \in Seq(ManifestEntry)
      BY <2>2 DEF WellFormed, Store
    <3>2. \A j \in DOMAIN store'.entries : store'.entries[j] \in ManifestEntry
      BY <3>1
    <3>3. \A j \in DOMAIN store'.entries : store'.entries[j].name \in Names
      BY <3>2 DEF ManifestEntry
    <3> QED BY <2>2, <1>b, <3>3 DEF UploadedIsWhole
  <2>5. MarkedInv'
    BY <2>2, <1>b DEF MarkedInv, IInv
  <2> QED BY <2>3, <2>4, <2>5, <1>e DEF IInv, UploadInv
<1>3. CASE n \in Listed /\ ~site.deletes
  <2>1. /\ store' = SetMark(store, n, Uploaded, TRUE) /\ UNCHANGED <<files, faults>>
        /\ n \in NamesOf(store.entries) /\ WellFormed(store)
    BY <1>3, <1>a DEF Settle, Listed, TypeOK
  <2>2. SameEntries(store, store')
    BY <2>1, SetMarkKeeps, MarksAssumption
  <2>3. \A j \in DOMAIN store.entries :
            store'.entries[j] = store.entries[j] \/ store.entries[j].name = n
    BY <2>1, SetMarkIs, MarksAssumption
  <2>4. /\ WellFormed(store') /\ store'.current = store.current
        /\ NamesOf(store'.entries) = NamesOf(store.entries)
        /\ DOMAIN store'.entries = DOMAIN store.entries
        /\ \A j \in DOMAIN store.entries : store'.entries[j].name = store.entries[j].name
    <3>1. /\ WellFormed(store') /\ store'.current = store.current
          /\ NamesOf(store'.entries) = NamesOf(store.entries)
          /\ Len(store'.entries) = Len(store.entries)
          /\ \A j \in DOMAIN store.entries : store'.entries[j].name = store.entries[j].name
      BY <2>2 DEF SameEntries
    <3>2. store'.entries \in Seq(ManifestEntry) /\ store.entries \in Seq(ManifestEntry)
      BY <2>1, <3>1 DEF WellFormed, Store
    <3> QED BY <3>1, <3>2
  <2>5. \A m : IsCurrentEntry(store', m) => IsCurrentEntry(store, m)
    BY <2>4 DEF IsCurrentEntry
  <2>6. TypeOK'
    BY <2>1, <2>4, <1>a, <1>b, <1>d DEF TypeOK
  <2>7. UploadedIsWhole'
    <3> SUFFICES ASSUME NEW j \in DOMAIN store'.entries, Uploaded \in store'.entries[j].marks,
                        Capture \in files'[store'.entries[j].name]
                 PROVE  server'[store'.entries[j].name] = capture'[store'.entries[j].name]
      BY DEF UploadedIsWhole
    <3>1. CASE store.entries[j].name = n
      BY <2>1, <2>4, <3>1, <1>b, <1>c
    <3>2. CASE store'.entries[j] = store.entries[j]
      BY <2>1, <2>4, <3>2, <1>b DEF IInv, UploadInv, UploadedIsWhole
    <3> QED BY <2>3, <2>4, <3>1, <3>2
  <2>8. MarkedInv'
    BY <2>3, <2>4, <2>5, <1>b, <1>c DEF IInv, MarkedInv
  <2> QED BY <2>6, <2>7, <2>8, <1>e DEF IInv, UploadInv
<1> QED BY <1>1, <1>2, <1>3

-----------------------------------------------------------------------------
LEMMA Initially == Init => IInv
<1> SUFFICES ASSUME Init PROVE IInv
  OBVIOUS
<1>1. WellFormed(store) /\ store.entries = <<>>
  BY DEF Init, WellFormed, EmptyStore, Store, None
<1>2. worker \in Worker /\ worker.pc = "idle"
  BY AtType DEF Init
<1>3. /\ files \in [Names -> SUBSET FileKinds] /\ capture \in [Names -> 0..MaxBytes]
      /\ server \in [Names -> 0..MaxBytes] /\ faults \in 0..MaxFaults
  BY BoundsAssumption DEF Init
<1>4. TypeOK
  BY <1>1, <1>2, <1>3 DEF Init, TypeOK
<1> QED BY <1>1, <1>2, <1>4
    DEF IInv, UploadInv, UploadedIsWhole, MarkedInv, SendingInv, NamesOf

LEMMA Inductive == IInv /\ [Next]_vars => IInv'
<1> SUFFICES ASSUME IInv, [Next]_vars PROVE IInv'
  OBVIOUS
<1>1. CASE UNCHANGED vars
  BY <1>1 DEF vars, IInv, UploadInv, UploadedIsWhole, MarkedInv, SendingInv, TypeOK
<1>2. CASE DaemonStep /\ UNCHANGED site
  <2>1. ASSUME NEW n \in Names, NewRecording(n) PROVE IInv'
    BY <1>2, <2>1, NewRecordingPreserves
  <2>2. ASSUME NEW n \in Names, Age(n) PROVE IInv'
    <3>1. /\ UNCHANGED <<site, store, issued, files, capture, server, worker, faults>>
          /\ old' \subseteq Names /\ shutdown' \in BOOLEAN
      BY <1>2, <2>2 DEF Age, IInv, UploadInv, TypeOK
    <3> QED BY <3>1, AgeCancelPreserve
  <2>3. ASSUME NEW n \in Names, NEW upto \in 0..Len(Kinds), DeleteByRequest(n, upto)
        PROVE  IInv'
    BY <1>2, <2>3, DeleteByRequestPreserves
  <2>4. CASE StopRecording
    BY <1>2, <2>4, StopRecordingPreserves
  <2>5. CASE WriteContainer
    BY <1>2, <2>5, WriteContainerPreserves
  <2>6. CASE Cancel
    <3>1. /\ UNCHANGED <<site, store, issued, files, capture, server, worker, faults>>
          /\ old' \subseteq Names /\ shutdown' \in BOOLEAN
      BY <1>2, <2>6 DEF Cancel, disk, IInv, UploadInv, TypeOK
    <3> QED BY <3>1, AgeCancelPreserve
  <2> QED BY <1>2, <2>1, <2>2, <2>3, <2>4, <2>5, <2>6 DEF DaemonStep
<1>3. CASE WorkerStep /\ UNCHANGED site
  <2>1. CASE Tick \/ Stop \/ GiveUp
    BY <1>3, <2>1, RestPreserves DEF Tick, Stop, GiveUp
  <2>2. CASE Pick
    BY <1>3, <2>2, PickPreserves
  <2>3. ASSUME NEW k \in FileKinds, NEW ok \in BOOLEAN, Open(k, ok) \/ Put(k, ok)
        PROVE  IInv'
    BY <1>3, <2>3, OpenPreserves, PutPreserves
  <2>4. ASSUME NEW upto \in 0..Len(Kinds), Settle(upto) PROVE IInv'
    BY <1>3, <2>4, SettlePreserves
  <2> QED BY <1>3, <2>1, <2>2, <2>3, <2>4 DEF WorkerStep
<1> QED BY <1>1, <1>2, <1>3 DEF Next

\* What mark_entry_as_uploaded has marked is on the server in full, although
\* the worker sends without the lock while recordings are made and deleted,
\* for every set of recordings, list of file kinds, server and fault.
THEOREM UploadsAreWhole == Spec => []UploadInv
<1>1. IInv => UploadInv
  BY DEF IInv
<1> QED BY Initially, Inductive, <1>1, PTL DEF Spec

\* Deleting after upload loses nothing: a capture run_webdav_upload_worker
\* removes is on the server in full.
THEOREM DeletionsLoseNothing == Spec => DeletedIsOnServer
<1>1. ASSUME IInv, [Next]_vars, worker' # worker,
             NEW n \in Names, Capture \in files[n] \ files'[n]
      PROVE  server[n] = capture[n]
  <2>1. PICK upto \in 0..Len(Kinds) : Settle(upto)
    <3>1. files' # files
      BY <1>1
    <3>2. DaemonStep => UNCHANGED worker \/ UNCHANGED files
      BY DEF DaemonStep, NewRecording, Age, DeleteByRequest, StopRecording,
             WriteContainer, Cancel
    <3>3. ASSUME Tick \/ Stop \/ Pick \/ GiveUp PROVE UNCHANGED files
      BY <3>3 DEF Tick, Stop, Pick, GiveUp, disk
    <3>4. ASSUME NEW k \in FileKinds, NEW ok \in BOOLEAN, Open(k, ok) \/ Put(k, ok)
          PROVE  UNCHANGED files
      BY <3>4 DEF Open, Put, disk
    <3> QED BY <1>1, <3>1, <3>2, <3>3, <3>4 DEF Next, WorkerStep, vars
  <2>2. /\ worker.entry \in Names
        /\ \/ server[worker.entry] = capture[worker.entry]
           \/ Capture \notin files[worker.entry]
    BY <1>1, <2>1, SettledIsSent DEF Settle
  <2>3. n = worker.entry
    <3>1. files' = files \/ (worker.entry \in Listed /\ Delete(worker.entry, upto))
      BY <2>1 DEF Settle
    <3> QED BY <1>1, <3>1, DeleteTakes
  <2> QED BY <1>1, <2>2, <2>3
<1>2. IInv /\ [Next]_vars =>
        [worker' # worker =>
            \A n \in Names : Capture \in files[n] \ files'[n]
                             => server[n] = capture[n]]_vars
  BY <1>1
<1> QED BY Initially, Inductive, <1>2, PTL DEF Spec, DeletedIsOnServer
=============================================================================
