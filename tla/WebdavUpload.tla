---------------------------- MODULE WebdavUpload ----------------------------
(***************************************************************************)
(* The upload worker (daemon/src/webdav.rs).  On every tick it uploads the *)
(* oldest finished recording that has no upload time, file by file and all *)
(* files at once, then marks or deletes it, and goes on to the next, until *)
(* none is left or an upload fails.  It holds the store's lock only to     *)
(* pick a recording, to open a file and to mark or delete, so recording    *)
(* and deletion go on meanwhile.                                           *)
(*                                                                         *)
(* Every fault that passes (a lost connection, a timeout, a file that will *)
(* not open or go away) is paid for from a budget of MaxFaults; what the   *)
(* server refuses for good (a file over its limit) is refused.  The clock  *)
(* is never set back, so recordings grow old in the order of their names.  *)
(* What a crash makes of the manifest is in RecordingStore.                *)
(***************************************************************************)
EXTENDS StoreOps

CONSTANTS
    Kinds,     \* FileKind::ALL, the capture first
    Capture,   \* FileKind::Qmdl
    MaxBytes,  \* bound: containers in one capture
    MaxFaults  \* bound: faults that pass

ASSUME KindsAssumption == Kinds \in Seq(STRING) /\ Capture = Kinds[1]
ASSUME BoundsAssumption == MaxBytes \in Nat /\ MaxFaults \in Nat

Uploaded == "uploaded"
ASSUME MarksAssumption == Uploaded \in Marks

VARIABLES
    site,      \* delete_on_upload, and the recordings the server refuses
    store,     \* the recording store
    issued,    \* names given to recordings so far
    files,     \* the files of each recording
    capture,   \* the size of each capture
    old,       \* recordings whose last message is more than min_age ago
    server,    \* how much of each capture the server holds
    worker,    \* the worker: where it is and what it uploads
    faults,    \* faults still to come
    shutdown   \* the shutdown token

disk == <<store, issued, files, capture, old>>
vars == <<site, store, issued, files, capture, old, server, worker,
          faults, shutdown>>

FileKinds == {Kinds[i] : i \in DOMAIN Kinds}
Listed == NamesOf(store.entries)

Worker ==
    [pc: {"idle", "pick", "upload", "gone"}, entry: Names \cup {None},
     todo: SUBSET FileKinds,     \* files not yet opened
     sending: SUBSET FileKinds,  \* files on their way
     bytes: 0..MaxBytes,         \* the size of the capture when opened
     failed: BOOLEAN]

TypeOK ==
    /\ site \in [deletes: BOOLEAN, refused: SUBSET Names]
    /\ WellFormed(store)
    /\ issued \subseteq Names
    /\ files \in [Names -> SUBSET FileKinds]
    /\ capture \in [Names -> 0..MaxBytes]
    /\ old \subseteq Names
    /\ server \in [Names -> 0..MaxBytes]
    /\ worker \in Worker
    /\ faults \in 0..MaxFaults
    /\ shutdown \in BOOLEAN

At(pc) == [pc |-> pc, entry |-> None, todo |-> {}, sending |-> {},
           bytes |-> 0, failed |-> FALSE]

Init ==
    /\ site \in [deletes: BOOLEAN, refused: SUBSET Names]
    /\ store = EmptyStore
    /\ issued = {}
    /\ files = [n \in Names |-> {}]
    /\ capture = [n \in Names |-> 0]
    /\ old = {}
    /\ server = [n \in Names |-> 0]
    /\ worker = At("idle")
    /\ faults = MaxFaults
    /\ shutdown = FALSE

\* A step may go wrong while there are faults left.
Outcome(ok) == faults' = (IF ok THEN faults ELSE faults - 1) /\ faults' \in Nat

-----------------------------------------------------------------------------
(***************************************************************************)
(* The rest of the daemon.                                                 *)
(***************************************************************************)
\* A new recording ends the one that runs, if one does.
NewRecording(n) ==
    /\ n \notin issued /\ \A m \in issued : m < n
    /\ store' = PushEntry(store, n)
    /\ issued' = issued \cup {n}
    /\ files' = [files EXCEPT ![n] = FileKinds]
    /\ UNCHANGED <<capture, old, server, worker, faults, shutdown>>

StopRecording ==
    /\ store.current # None
    /\ store' = CloseCurrentEntry(store)
    /\ UNCHANGED <<issued, files, capture, old>>
    /\ UNCHANGED <<server, worker, faults, shutdown>>

WriteContainer ==
    /\ store.current # None
    /\ LET n == store.entries[store.current].name
       IN /\ capture[n] < MaxBytes
          /\ capture' = [capture EXCEPT ![n] = @ + 1]
          /\ old' = old \ {n}
    /\ UNCHANGED <<store, issued, files, server, worker, faults, shutdown>>

\* min_age passes since the last message of the oldest recording not yet old.
Age(n) ==
    /\ n \in Listed \ old
    /\ \A m \in Listed \ old : n <= m
    /\ old' = old \cup {n}
    /\ UNCHANGED <<store, issued, files, capture>>
    /\ UNCHANGED <<server, worker, faults, shutdown>>

\* delete_entry stops at the first file it cannot remove; the entry goes once
\* all have gone.
Delete(n, upto) ==
    /\ files' = [files EXCEPT ![n] = @ \ {Kinds[i] : i \in 1..upto}]
    /\ store' = IF upto = Len(Kinds) THEN DeleteEntry(store, n) ELSE store
    /\ Outcome(upto = Len(Kinds))

DeleteByRequest(n, upto) ==
    /\ n \in Listed
    /\ Delete(n, upto)
    /\ UNCHANGED <<issued, capture, old, server, worker, shutdown>>

Cancel ==
    /\ ~shutdown
    /\ shutdown' = TRUE
    /\ UNCHANGED <<disk, server, worker, faults>>

-----------------------------------------------------------------------------
(***************************************************************************)
(* The worker.                                                             *)
(***************************************************************************)
\* A slip: the recording that is running counts as finished.
EligibleIncludingCurrent(n) ==
    /\ n \in Listed \cap old
    /\ Uploaded \notin store.entries[EntryForName(store.entries, n)].marks

\* What get_next_unuploaded_entry chooses from.
Eligible(n) ==
    /\ n \in Listed \cap old
    /\ ~IsCurrentEntry(store, n)
    /\ Uploaded \notin store.entries[EntryForName(store.entries, n)].marks

Tick ==
    /\ worker.pc = "idle"
    /\ worker' = At("pick")
    /\ UNCHANGED <<disk, server, faults, shutdown>>

Stop ==
    /\ worker.pc = "idle" /\ shutdown
    /\ worker' = At("gone")
    /\ UNCHANGED <<disk, server, faults, shutdown>>

Pick ==
    /\ worker.pc = "pick"
    /\ \/ /\ ~\E n \in Names : Eligible(n)
          /\ worker' = At("idle")
       \/ \E n \in Names :
            /\ Eligible(n) /\ \A m \in Names : Eligible(m) => n <= m
            /\ worker' = [At("upload") EXCEPT !.entry = n, !.todo = FileKinds]
    /\ UNCHANGED <<disk, server, faults, shutdown>>

\* The first half of try_upload_entry.  An entry that has gone, or a file that
\* does not open, is a failure; a file that is not there is none.
Open(k, ok) ==
    LET n == worker.entry
        there == n \in Listed /\ k \in files[n]
    IN /\ worker.pc = "upload" /\ k \in worker.todo
       /\ Outcome(ok) /\ (~ok => there)
       /\ worker' = [worker EXCEPT
            !.todo = @ \ {k},
            !.sending = IF there /\ ok THEN @ \cup {k} ELSE @,
            !.bytes = IF k = Capture THEN capture[n] ELSE @,
            !.failed = @ \/ n \notin Listed \/ ~ok]
       /\ UNCHANGED <<disk, server, shutdown>>

\* The other half: the request is answered, fails or is cancelled.
Put(k, ok) ==
    LET n == worker.entry
        hopeless == shutdown \/ (n \in site.refused /\ k = Capture)
    IN /\ worker.pc = "upload" /\ k \in worker.sending
       /\ IF hopeless THEN ~ok /\ UNCHANGED faults ELSE Outcome(ok)
       /\ worker' = [worker EXCEPT !.sending = @ \ {k}, !.failed = @ \/ ~ok]
       /\ server' = IF ok /\ k = Capture
                    THEN [server EXCEPT ![n] = worker.bytes] ELSE server
       /\ UNCHANGED <<disk, shutdown>>

AllAnswered == worker.pc = "upload" /\ worker.todo = {} /\ worker.sending = {}

\* A slip: the worker ends at the first failure.
GiveUpForGood ==
    /\ AllAnswered /\ worker.failed
    /\ worker' = At("gone")
    /\ UNCHANGED <<disk, server, faults, shutdown>>

GiveUp ==
    /\ AllAnswered /\ worker.failed
    /\ worker' = At("idle")
    /\ UNCHANGED <<disk, server, faults, shutdown>>

\* A slip: the answers only count for marking, not for deleting.
SettleRegardless(upto) ==
    /\ AllAnswered /\ (site.deletes \/ ~worker.failed)
    /\ worker' = At("pick")
    /\ IF worker.entry \notin Listed THEN UNCHANGED <<store, files, faults>>
       ELSE IF site.deletes THEN Delete(worker.entry, upto)
       ELSE /\ store' = SetMark(store, worker.entry, Uploaded, TRUE)
            /\ UNCHANGED <<files, faults>>
    /\ UNCHANGED <<issued, capture, old, server, shutdown>>

\* Every file is on the server: the recording is deleted or marked, if it is
\* still there.  A failure is logged and the worker goes on.
Settle(upto) ==
    /\ AllAnswered /\ ~worker.failed
    /\ worker' = At("pick")
    /\ IF worker.entry \notin Listed THEN UNCHANGED <<store, files, faults>>
       ELSE IF site.deletes THEN Delete(worker.entry, upto)
       ELSE /\ store' = SetMark(store, worker.entry, Uploaded, TRUE)
            /\ UNCHANGED <<files, faults>>
    /\ UNCHANGED <<issued, capture, old, server, shutdown>>

WorkerStep ==
    \/ Tick \/ Stop \/ Pick \/ GiveUp
    \/ \E k \in FileKinds, ok \in BOOLEAN : Open(k, ok) \/ Put(k, ok)
    \/ \E upto \in 0..Len(Kinds) : Settle(upto)

DaemonStep ==
    \/ \E n \in Names :
        \/ NewRecording(n) \/ Age(n)
        \/ \E upto \in 0..Len(Kinds) : DeleteByRequest(n, upto)
    \/ StopRecording \/ WriteContainer \/ Cancel

Next == (DaemonStep \/ WorkerStep) /\ UNCHANGED site

\* The worker is scheduled, its requests end (they have a timeout) and its
\* interval keeps ticking; select! does not starve the shutdown token.
Fairness ==
    WF_vars(WorkerStep /\ UNCHANGED site) /\ SF_vars(Stop /\ UNCHANGED site)

Spec == Init /\ [][Next]_vars /\ Fairness

-----------------------------------------------------------------------------
\* The capture of a recording marked as uploaded is on the server in full:
\* nothing is added to it after run_webdav_upload_worker has sent it, and no
\* failed upload counts as done.  (A capture that a deletion removed before it
\* failed half way is not missed by the worker: a file that is not there is no
\* failure.)
UploadedIsWhole ==
    \A i \in DOMAIN store.entries :
        LET e == store.entries[i]
        IN Uploaded \in e.marks /\ Capture \in files[e.name]
           => server[e.name] = capture[e.name]

\* The manifest and the server agree on what was uploaded.
UploadInv == TypeOK /\ UploadedIsWhole

\* With delete_on_upload the worker removes no capture the server does not hold
\* in full, whatever failed or was deleted before.
DeletedIsOnServer ==
    [][worker' # worker =>
        \A n \in Names : Capture \in files[n] \ files'[n]
                         => server[n] = capture[n]]_vars

\* The worker "uploads any closed entry that is older than min_age_secs"
\* (doc/configuration.md), unless the daemon stops or the server refuses the
\* recording itself or an older one, which get_next_unuploaded_entry prefers.
EligibleIsUploaded ==
    \A n \in Names :
        Eligible(n) ~> \/ ~Eligible(n) \/ shutdown
                       \/ \E m \in site.refused : m <= n /\ Eligible(m)

\* The worker obeys the shutdown token, in the middle of an upload too; the
\* task tracker waits for it.
ShutdownEndsWorker == shutdown ~> worker.pc = "gone"

\* run_webdav_upload_worker neither starves a recording nor outlives the
\* shutdown token.
WorkerProgress == EligibleIsUploaded /\ ShutdownEndsWorker
=============================================================================
