--------------------------- MODULE RecordingStore ---------------------------
(***************************************************************************)
(* The recording store and the directory it keeps (daemon/src/             *)
(* qmdl_store.rs): manifest.toml, and up to four files per recording.  The *)
(* actions are the store's operations as their callers use them, each run  *)
(* under the store's write lock; every call that can fail on the disk has  *)
(* a failing outcome that leaves what the earlier calls already did.       *)
(*                                                                         *)
(* The process can die between any two steps.  Dying inside an operation   *)
(* leaves the disk as a failure of the next call would, so a failing       *)
(* outcome followed by Crash covers it.                                    *)
(***************************************************************************)
EXTENDS StoreOps

CONSTANTS
    MaxBytes,     \* bound on the abstract length of a capture
    MaxEntries,   \* bound on the length of the manifest
    ClockRepeats  \* whether a new process can come up with an old name again

ASSUME BoundsAssumption == MaxBytes \in Nat /\ MaxEntries \in Nat
ASSUME ClockRepeatsAssumption == ClockRepeats \in BOOLEAN

VARIABLES
    store,     \* the RecordingStore value behind the lock
    writer,    \* the recording whose capture file the diag task has open
    issued,    \* names this process has used (ENTRY_SEQUENCE and the clock)
    up,        \* whether the daemon runs
    manifest,  \* manifest.toml: "nodir", "missing", "corrupt" or "ok"
    saved,     \* the entries in manifest.toml while it is "ok"
    files,     \* the files of each recording in the directory
    bytes      \* the length of each capture file

memory == <<store, writer, issued, up>>
disk == <<manifest, saved, files, bytes>>
vars == <<store, writer, issued, up, manifest, saved, files, bytes>>

FileKind == {"qmdl", "analysis", "gps", "meta"}

TypeOK ==
    /\ WellFormed(store)
    /\ writer \in Names \cup {None}
    /\ issued \subseteq Names
    /\ up \in BOOLEAN
    /\ manifest \in {"nodir", "missing", "corrupt", "ok"}
    /\ saved \in Seq(ManifestEntry)
    /\ files \in [Names -> SUBSET FileKind]
    /\ bytes \in [Names -> 0..MaxBytes]

Init ==
    /\ store = EmptyStore
    /\ writer = None
    /\ issued = {}
    /\ up = FALSE
    /\ manifest = "nodir"
    /\ saved = <<>>
    /\ files = [n \in Names |-> {}]
    /\ bytes = [n \in Names |-> 0]

-----------------------------------------------------------------------------
\* write_manifest of the entries es: a temporary file renamed over the old
\* one, so a failure (ok = FALSE) leaves the old manifest.
WriteManifest(es, ok) ==
    IF ok THEN manifest' = "ok" /\ saved' = es
          ELSE UNCHANGED <<manifest, saved>>

\* new_entry opening with truncation: an existing capture would be lost.
NewEntryTruncating(n, outcome) ==
    /\ up /\ writer = None /\ outcome = "ok" /\ Len(store.entries) < MaxEntries
    /\ issued' = issued \cup {n}
    /\ files' = [files EXCEPT ![n] = FileKind]
    /\ bytes' = [bytes EXCEPT ![n] = 0]
    /\ store' = PushEntry(store, n)
    /\ writer' = n
    /\ WriteManifest(store'.entries, TRUE)
    /\ UNCHANGED up

\* start_inner's use of new_entry.  A name whose capture file exists is
\* skipped (create_new), so n is one whose capture does not.  The outcomes
\* are the calls that can fail, in their order; "late" is a failure after
\* new_entry returned (the GPS record or the report's first line), which
\* leaves the new entry current with nobody writing to it.  The sidecar is
\* written on a best-effort basis and taken as written.
NewEntry(n, outcome) ==
    /\ up /\ writer = None
    /\ n \notin issued /\ "qmdl" \notin files[n]
    /\ Len(store.entries) < MaxEntries
    /\ outcome \in {"gps", "manifest", "late", "ok"} => "analysis" \notin files[n]
    /\ outcome \in {"manifest", "late", "ok"} => "gps" \notin files[n]
    /\ issued' = issued \cup {n}
    /\ files' = [files EXCEPT ![n] = @ \cup
            CASE outcome = "qmdl" -> {}
              [] outcome = "analysis" -> {"qmdl"}
              [] outcome = "gps" -> {"qmdl", "analysis"}
              [] outcome = "manifest" -> {"qmdl", "analysis", "gps"}
              [] OTHER -> FileKind]
    /\ bytes' = [bytes EXCEPT ![n] = 0]
    /\ store' = IF outcome \in {"qmdl", "analysis", "gps"}
                THEN CloseCurrentEntry(store)
                ELSE PushEntry(CloseCurrentEntry(store), n)
    /\ WriteManifest(store'.entries, outcome \in {"late", "ok"})
    /\ writer' = IF outcome = "ok" THEN n ELSE None
    /\ UNCHANGED up

\* process_container: a container is appended to the open capture and the
\* manifest is told the new length.
WriteContainer ==
    /\ up /\ writer # None /\ store.current # None
    /\ bytes[writer] < MaxBytes
    /\ bytes' = [bytes EXCEPT ![writer] = IF "qmdl" \in files[writer] THEN @ + 1 ELSE @]
    /\ store' = UpdateCurrentEntryQmdlSize(store, bytes'[writer])
    /\ WriteManifest(store'.entries, TRUE)
    /\ UNCHANGED <<writer, issued, up, files>>

\* What start_inner used to do: the next entry is opened before the old
\* capture's final size is noted, so the size lands on the new recording.
FinishCurrentEntryOnNext(r, closed, ok1, ok2) ==
    /\ up /\ writer # None /\ closed /\ Len(store.entries) < MaxEntries
    /\ \E n \in Names \ issued :
        /\ "qmdl" \notin files[n]
        /\ issued' = issued \cup {n}
        /\ files' = [files EXCEPT ![n] = FileKind]
        /\ store' = UpdateCurrentEntryQmdlSize(PushEntry(store, n), bytes[writer])
        /\ writer' = n
    /\ WriteManifest(store'.entries, TRUE)
    /\ UNCHANGED <<up, bytes>>

\* finish_current_entry: the writer is closed, which appends what it still
\* buffers (closed = FALSE: that failed, and the size is left alone), then
\* the reason is noted, each with a manifest write that can fail (ok1, ok2);
\* then no entry is current.  A container that could not be written, or noted
\* in the manifest, ends the same way.
FinishCurrentEntry(r, closed, ok1, ok2) ==
    LET sized == IF closed THEN UpdateCurrentEntryQmdlSize(store, bytes'[writer])
                           ELSE store
        noted == IF r = NoReason THEN sized ELSE SetCurrentStopReason(sized, r)
    IN /\ up /\ writer # None
       /\ \E more \in 0..1 :
            /\ bytes[writer] + more <= MaxBytes
            /\ bytes' = [bytes EXCEPT ![writer] =
                            IF "qmdl" \in files[writer] THEN @ + more ELSE @]
       /\ store' = CloseCurrentEntry(noted)
       /\ writer' = None
       /\ IF store.current # None /\ r # NoReason /\ ok2
          THEN WriteManifest(noted.entries, TRUE)
          ELSE WriteManifest(sized.entries, store.current # None /\ closed /\ ok1)
       /\ UNCHANGED <<issued, up, files>>

\* The shutdown thread closes the current entry under its own lock, while the
\* diag task still has the capture open.
ShutdownCloseEntry ==
    /\ up /\ store.current # None
    /\ store' = CloseCurrentEntry(store)
    /\ UNCHANGED <<writer, issued, up, disk>>

\* open_entry_gps_for_append creates the file when it is missing.
AppendGps ==
    /\ up /\ store.current # None
    /\ files' = [files EXCEPT ![store.entries[store.current].name] = @ \cup {"gps"}]
    /\ UNCHANGED <<memory, manifest, saved, bytes>>

\* set_entry_annotations and mark_entry_as_uploaded.
MarkEntry(n, k, on, ok) ==
    /\ up /\ n \in NamesOf(store.entries)
    /\ store' = SetMark(store, n, k, on)
    /\ WriteManifest(store'.entries, ok)
    /\ UNCHANGED <<writer, issued, up, files, bytes>>

\* The files delete_entry has removed when removing file "at" fails.
RemovedBefore(at) ==
    CASE at = "qmdl" -> {}
      [] at = "analysis" -> {"qmdl"}
      [] at = "gps" -> {"qmdl", "analysis"}
      [] at = "meta" -> {"qmdl", "analysis", "gps"}
      [] at = "none" -> FileKind

\* The order the comment in delete_entry warns about.
DeleteManifestFirst(n, at, ok) ==
    /\ up /\ n \in NamesOf(store.entries) /\ ~IsCurrentEntry(store, n)
    /\ files' = [files EXCEPT ![n] = @ \ RemovedBefore(at)]
    /\ bytes' = IF at = "qmdl" THEN bytes ELSE [bytes EXCEPT ![n] = 0]
    /\ store' = DeleteEntry(store, n)
    /\ WriteManifest(store'.entries, ok)
    /\ UNCHANGED <<writer, issued, up>>

\* delete_entry.  Its callers never pass the current entry: delete_entry of
\* DiagTask stops it first, cleanup and the uploader skip it.
DeleteRecording(n, at, ok) ==
    /\ up /\ n \in NamesOf(store.entries) /\ ~IsCurrentEntry(store, n)
    /\ files' = [files EXCEPT ![n] = @ \ RemovedBefore(at)]
    /\ bytes' = IF at = "qmdl" THEN bytes ELSE [bytes EXCEPT ![n] = 0]
    /\ IF at = "none"
       THEN /\ store' = DeleteEntry(store, n)
            /\ WriteManifest(store'.entries, ok)
       ELSE UNCHANGED <<store, manifest, saved>>
    /\ UNCHANGED <<writer, issued, up>>

\* delete_all_entries, after DiagTask stopped: the entries in kept could not
\* be removed, their files from kind "at" on.
DeleteAll(kept, at, ok) ==
    LET gone == NamesOf(store.entries) \ kept
        es == RetainOnly(store.entries, kept)
    IN /\ up /\ writer = None
       /\ kept \subseteq NamesOf(store.entries)
       /\ files' = [n \in Names |-> IF n \in gone THEN {}
                                    ELSE IF n \in kept THEN files[n] \ RemovedBefore(at)
                                    ELSE files[n]]
       /\ bytes' = [n \in Names |-> IF n \in gone \/ (n \in kept /\ at # "qmdl")
                                    THEN 0 ELSE bytes[n]]
       /\ store' = [entries |-> es, current |-> None]
       /\ WriteManifest(es, ok)
       /\ UNCHANGED <<writer, issued, up>>

-----------------------------------------------------------------------------
\* The daemon dies, or it exits; the manifest may turn out unreadable later
\* (it is renamed into place without being synced).
Crash(readable) ==
    /\ up
    /\ up' = FALSE
    /\ store' = EmptyStore
    /\ writer' = None
    /\ issued' = IF ClockRepeats THEN {} ELSE issued
    /\ manifest' = IF readable \/ manifest # "ok" THEN manifest ELSE "corrupt"
    /\ UNCHANGED <<saved, files, bytes>>

RecoveredEntry(n) ==
    [NewManifestEntry(n) EXCEPT !.size = bytes[n]]

\* The captures in the directory, in the order of their start times.
CapturesInOrder == InOrder({n \in Names : "qmdl" \in files[n]})

\* A start that creates a fresh store when there is no readable manifest.
OpenFresh(ok) ==
    /\ ~up /\ ok
    /\ up' = TRUE
    /\ store' = [entries |-> IF manifest = "ok" THEN saved ELSE <<>>, current |-> None]
    /\ WriteManifest(store'.entries, TRUE)
    /\ UNCHANGED <<writer, issued, files, bytes>>

\* open_or_recover at startup.  A store that cannot be opened ends the
\* process again, with the directory possibly created.
OpenOrRecover(ok) ==
    /\ ~up
    /\ up' = ok
    /\ \/ /\ manifest = "ok" /\ ok
          /\ store' = [entries |-> saved, current |-> None]
          /\ UNCHANGED <<manifest, saved>>
       \/ /\ manifest \in {"corrupt", "missing"}
          /\ LET s == CapturesInOrder
                 es == [i \in DOMAIN s |-> RecoveredEntry(s[i])]
             IN /\ store' = IF ok THEN [entries |-> es, current |-> None]
                                  ELSE EmptyStore
                /\ WriteManifest(es, ok)
       \/ /\ manifest = "nodir"
          /\ store' = EmptyStore
          /\ saved' = <<>>
          /\ manifest' = IF ok THEN "ok" ELSE "missing"
    /\ UNCHANGED <<writer, issued, files, bytes>>

Next ==
    \/ \E n \in Names, o \in {"qmdl", "analysis", "gps", "manifest", "late", "ok"} :
            NewEntry(n, o)
    \/ WriteContainer
    \/ \E r \in Reasons \cup {NoReason}, closed, ok1, ok2 \in BOOLEAN :
            FinishCurrentEntry(r, closed, ok1, ok2)
    \/ ShutdownCloseEntry
    \/ AppendGps
    \/ \E n \in Names, k \in Marks, on, ok \in BOOLEAN : MarkEntry(n, k, on, ok)
    \/ \E n \in Names, at \in FileKind \cup {"none"}, ok \in BOOLEAN :
            DeleteRecording(n, at, ok)
    \/ \E kept \in SUBSET Names, at \in FileKind, ok \in BOOLEAN :
            DeleteAll(kept, at, ok)
    \/ \E readable \in BOOLEAN : Crash(readable)
    \/ \E ok \in BOOLEAN : OpenOrRecover(ok)

Spec == Init /\ [][Next]_vars

-----------------------------------------------------------------------------
\* A capture the daemon still knows of, now and after a restart.
Listed(n) ==
    /\ up => n \in NamesOf(store.entries)
    /\ manifest = "ok" => n \in NamesOf(saved)
    /\ manifest # "nodir"

HasData(n) == "qmdl" \in files[n] /\ bytes[n] > 0

\* No captured data is ever "physically present but invisible to Rayhunter"
\* (open_or_recover, delete_entry): a capture with anything in it is listed by
\* the running daemon and by the manifest the next one will read, whatever
\* failed, crashed or was recovered in between.
DataVisible == \A n \in Names : HasData(n) => Listed(n)

\* The current entry is the recording being written, however many older
\* recordings were deleted from under the index (delete_entry), and an entry
\* is only current while the daemon runs.
WriterIsCurrent ==
    /\ writer # None /\ store.current # None =>
            store.entries[store.current].name = writer
    /\ writer # None => up

\* A capture is never truncated or overwritten: it grows, or its file is
\* removed (new_entry: "a name collision must return an error, never truncate
\* an existing recording").
CaptureNeverTruncated ==
    [][\A n \in Names : bytes'[n] < bytes[n] => "qmdl" \notin files'[n]]_vars

\* The inductive invariant behind the three above.  What it adds: the capture
\* being written is already listed before it holds any data (new_entry saves
\* the manifest before start_inner may write), a running daemon has a manifest
\* on disk, and a directory that does not exist holds no files.
IndInv ==
    /\ TypeOK /\ DataVisible /\ WriterIsCurrent
    /\ writer # None /\ "qmdl" \in files[writer] => Listed(writer)
    /\ up => manifest = "ok"
    /\ ~up => store = EmptyStore /\ writer = None
    /\ manifest = "nodir" => \A n \in Names : files[n] = {}

\* The size listed for the recording in progress, up to which the HTTP server
\* reads its capture, never exceeds what that capture holds (process_container;
\* start_inner: the old size must not land on the new recording).
SizeWithinCapture ==
    writer # None /\ store.current # None =>
        store.entries[store.current].size <= bytes[writer]

-----------------------------------------------------------------------------
\* What a client is shown, or will be once the daemon is back: an unreadable
\* or missing manifest is rebuilt from the captures (open_or_recover).
ShownNames ==
    IF up THEN NamesOf(store.entries)
    ELSE IF manifest = "ok" THEN NamesOf(saved)
    ELSE {n \in Names : "qmdl" \in files[n]}

\* The data a download of each recording would find.
CaptureLength == [n \in Names |-> IF "qmdl" \in files[n] THEN bytes[n] ELSE 0]

Abstract == INSTANCE AbstractStore
                WITH listed <- ShownNames, length <- CaptureLength, open <- writer

\* The store with its files, its manifest and all that can fail implements
\* the store of AbstractStore: whatever call fails and wherever the process
\* dies, data is only ever added to the open recording or erased by a
\* deletion, and recovery (open_or_recover) shows what was shown before.
ImplementsPromise == Abstract!Spec
=============================================================================
