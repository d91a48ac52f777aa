------------------------------ MODULE DiagTask ------------------------------
(***************************************************************************)
(* The task that owns the modem's diagnostic stream (daemon/src/diag.rs):  *)
(* it records containers, runs the detectors on them, and obeys the        *)
(* control messages of the web server, the button, the storage monitor and *)
(* the GPS endpoint.  Each handler runs under the store's write lock, so it *)
(* is one step here; the steps of other holders of the lock come between.  *)
(*                                                                         *)
(* A handler is a function of the world (what it may change) and of the    *)
(* environment's answers during it: how full the disk is, how many         *)
(* recordings a clean-up can remove, and which call fails.  Sizes and what *)
(* failures leave on the disk are in RecordingStore.                       *)
(***************************************************************************)
EXTENDS StoreOps

CONSTANTS
    Automatic,          \* the stop reason the daemon notes by itself
    Paths,              \* the directories recordings can go to
    MaxSeverity,        \* EventType: Informational is 0, High the maximum
    AutoDeleteClean,    \* auto_delete_clean_recordings
    UploadsConfigured,  \* whether a WebDAV server is configured
    MaxPruned           \* bound on the recordings one clean-up reaches

ASSUME AutomaticAssumption == Automatic \in Reasons \cup {NoReason}
ASSUME SeverityAssumption == MaxSeverity \in Nat /\ MaxPruned \in Nat
ASSUME SwitchesAssumption ==
    {AutoDeleteClean, UploadsConfigured} \subseteq BOOLEAN
ASSUME MarksAssumption == UploadsConfigured => "uploaded" \in Marks

VARIABLES
    store,     \* the store in use: [entries, current]
    path,      \* where it is
    shelf,     \* the manifests of the stores not in use
    task,      \* the fields of DiagTask that handlers read
    display,   \* the last DisplayState sent to the display task
    report,    \* the analysis file of each recording
    clock,     \* the last name given out: names are start times
    finished,  \* listed recordings announced to the analysis thread
    closed,    \* the recording whose entry the shutdown thread has closed
    loop,      \* the task's loop: it runs, exited when told to, or failed
    found,     \* history: the worst event reported in each listed recording
    began,     \* history: listed recordings that were written to
    pruned     \* history: what the recordings removed to make room were like

vars == <<store, path, shelf, task, display, report, clock, finished,
          closed, loop, found, began, pruned>>

Severity == 0..MaxSeverity

\* DisplayState; "Initial" is the state before the first message.
Shows(kind, level) == [kind |-> kind, level |-> level]
Paused == Shows("Paused", 0)
Recording == Shows("Recording", 0)
WarningDetected(level) == Shows("Warning", level)

Task ==
    [state: {"Recording", "Stopped"}, max_type_seen: Severity,
     low_space_warned: BOOLEAN, stopped_by_user: BOOLEAN]

\* "none": no file; "empty": created; "clean": at least the metadata line and
\* no warning; "warning": some row carries a warning.
Report == {"none", "empty", "clean", "warning"}

TypeOK ==
    /\ WellFormed(store)
    /\ path \in Paths
    /\ shelf \in [Paths -> Seq(ManifestEntry)]
    /\ task \in Task
    /\ display \in [kind: {"Initial", "Paused", "Recording", "Warning"},
                   level: Severity]
    /\ report \in [Names -> Report]
    /\ clock \in Names \cup {None}
    /\ finished \subseteq Names
    /\ closed \in Names \cup {None}
    /\ loop \in {"runs", "exited", "failed"}
    /\ found \in [Names -> Severity]
    /\ began \subseteq Names
    /\ pruned \subseteq [found: Severity, marks: SUBSET Marks]

Init ==
    /\ store = EmptyStore
    /\ path \in Paths
    /\ shelf = [p \in Paths |-> <<>>]
    /\ task = [state |-> "Stopped", max_type_seen |-> 0,
               low_space_warned |-> FALSE, stopped_by_user |-> FALSE]
    /\ display = Shows("Initial", 0)
    /\ report = [n \in Names |-> "none"]
    /\ clock = None
    /\ finished = {}
    /\ closed = None
    /\ loop = "runs"
    /\ found = [n \in Names |-> 0]
    /\ began = {}
    /\ pruned = {}

-----------------------------------------------------------------------------
\* What a handler may change.  ok is the result of the last start.
World ==
    [store |-> store, path |-> path, shelf |-> shelf, task |-> task,
     display |-> display, report |-> report, clock |-> clock,
     finished |-> finished, closed |-> closed, found |-> found,
     began |-> began, pruned |-> pruned, ok |-> TRUE]

ListedIn(w) ==
    NamesOf(w.store.entries) \cup UNION {NamesOf(w.shelf[p]) : p \in Paths}

\* The step to w.  The history of a recording ends with it.
Become(w) ==
    /\ store' = w.store
    /\ path' = w.path
    /\ shelf' = w.shelf
    /\ task' = w.task
    /\ display' = w.display
    /\ report' = w.report
    /\ clock' = w.clock
    /\ finished' = w.finished \cap ListedIn(w)
    /\ found' = [n \in Names |-> IF n \in ListedIn(w) THEN w.found[n] ELSE 0]
    /\ began' = w.began \cap ListedIn(w)
    /\ pruned' = w.pruned
    /\ closed' = w.closed
    /\ UNCHANGED loop

Current(w) == w.store.entries[w.store.current].name

(***************************************************************************)
(* cleanup.rs                                                              *)
(***************************************************************************)
\* verdict_for without the exception for labelled recordings.
VerdictIgnoringLabels(w, i) ==
    LET e == w.store.entries[i]
    IN /\ ~IsCurrentEntry(w.store, e.name)
       /\ UploadsConfigured => "uploaded" \in e.marks
       /\ w.report[e.name] = "clean"

\* verdict_for = Clean
VerdictIsClean(w, i) ==
    LET e == w.store.entries[i]
    IN /\ ~IsCurrentEntry(w.store, e.name)
       /\ UploadsConfigured => "uploaded" \in e.marks
       /\ "labelled" \notin e.marks
       /\ w.report[e.name] = "clean"

\* prune_clean_recordings, oldest first until there is room.  turns: the turns
\* in which something happens, by recording: a clean one goes, with its files,
\* or its deletion fails once the report is gone.  A deletion that fails at
\* once leaves its recording as it was, so the oldest need not be among them.
\* What happens to one recording changes no verdict on another.
PruneCleanRecordings(w, turns) ==
    LET es == w.store.entries
        reached == {i \in DOMAIN es : es[i].name \in DOMAIN turns /\ VerdictIsClean(w, i)}
        removed == {i \in reached : turns[es[i].name] = "removed"}
    IN [w EXCEPT !.store = DeleteEntries(@, removed),
                 !.report = [n \in Names |->
                    IF n \in {es[i].name : i \in reached} THEN "none" ELSE @[n]],
                 !.pruned = @ \cup {[found |-> w.found[es[i].name],
                                     marks |-> es[i].marks] : i \in removed}]

Freed(w, v) == Len(w.store.entries) - Len(v.store.entries)

(***************************************************************************)
(* diag.rs                                                                 *)
(***************************************************************************)
\* finish_current_entry, with stop_current_recording.
FinishCurrentEntry(w, reason) ==
    LET noted == IF reason = NoReason THEN w.store
                 ELSE SetCurrentStopReason(w.store, reason)
    IN [w EXCEPT !.task.state = "Stopped",
                 !.store = CloseCurrentEntry(noted),
                 !.finished = IF w.store.current = None THEN @
                              ELSE @ \cup {Current(w)}]

Stop(w, reason) == [FinishCurrentEntry(w, reason) EXCEPT !.display = Paused]

\* The fields start_inner resets before anything can fail.
ResetForStart(w) ==
    [w EXCEPT !.task.max_type_seen = 0, !.task.low_space_warned = FALSE]

\* start_inner as it was: the running recording is not finished first.
StartOverRunning(w, e) ==
    LET reset == ResetForStart(w)
    IN IF e.outcome # "ok" THEN [reset EXCEPT !.ok = FALSE]
       ELSE [reset EXCEPT !.store = PushEntry(CloseCurrentEntry(@), e.name),
                          !.report[e.name] = "clean",
                          !.clock = e.name,
                          !.began = @ \cup {e.name},
                          !.task.state = "Recording",
                          !.display = Recording, !.ok = TRUE]

\* start_inner.  e.prune: what prune_clean_recordings does if the disk is found
\* low and it may.  e.outcome: "low", the disk is still too
\* full; "none", new_entry fails before the entry exists; "entry", it or a
\* later step fails after that; "ok".
StartInner(w, e) ==
    LET reset == ResetForStart(w)
        roomy == PruneCleanRecordings(reset, e.prune)
        free == IF roomy.task.state = "Recording"
                THEN FinishCurrentEntry(roomy, NoReason) ELSE roomy
        opened == [free EXCEPT !.store = PushEntry(CloseCurrentEntry(@), e.name),
                               !.report[e.name] = "empty",
                               !.clock = e.name]
    IN CASE e.outcome = "low" -> [roomy EXCEPT !.ok = FALSE]
         [] e.outcome = "none" -> [free EXCEPT !.store = CloseCurrentEntry(@),
                                               !.ok = FALSE]
         [] e.outcome = "entry" -> [opened EXCEPT !.ok = FALSE]
         [] e.outcome = "ok" -> [opened EXCEPT !.report[e.name] = "clean",
                                               !.began = @ \cup {e.name},
                                               !.task.state = "Recording",
                                               !.display = Recording,
                                               !.ok = TRUE]

\* start: an error is shown as Paused.
Start(w, e) ==
    LET r == StartInner(w, e)
    IN IF r.ok THEN r ELSE [r EXCEPT !.display = Paused]

\* rotate without showing the carried severity again.
RotateForgetting(w, e) ==
    LET next == Start(FinishCurrentEntry(w, Automatic), e)
    IN IF next.ok THEN [next EXCEPT !.task.max_type_seen = w.task.max_type_seen]
       ELSE Stop(next, Automatic)

Rotate(w, e) ==
    LET next == Start(FinishCurrentEntry(w, Automatic), e)
        carried == w.task.max_type_seen
    IN IF ~next.ok THEN Stop(next, Automatic)
       ELSE [next EXCEPT !.task.max_type_seen = carried,
                         !.display = IF carried > 0 THEN WarningDetected(carried)
                                     ELSE @]

\* switch_store resuming whatever the user asked for.
SwitchStoreAlways(w, p, e, opens) ==
    LET was == w.task.state = "Recording"
        old == IF was THEN FinishCurrentEntry(w, Automatic) ELSE w
    IN IF p = w.path THEN Start(old, e)
       ELSE IF ~opens THEN IF was THEN Start(old, e) ELSE old
       ELSE Start([old EXCEPT
                    !.shelf = [@ EXCEPT ![w.path] = old.store.entries,
                                        ![p] = <<>>],
                    !.store = [entries |-> w.shelf[p], current |-> None],
                    !.path = p], e)

\* switch_store, to the path in use already (the card came back) or another;
\* opens: whether the store there could be opened.
SwitchStore(w, p, e, opens) ==
    LET was == w.task.state = "Recording"
        old == IF was THEN FinishCurrentEntry(w, Automatic) ELSE w
        moved == [old EXCEPT
                    !.shelf = [@ EXCEPT ![w.path] = old.store.entries,
                                        ![p] = <<>>],
                    !.store = [entries |-> w.shelf[p], current |-> None],
                    !.path = p]
        resume == was \/ ~w.task.stopped_by_user
    IN IF p = w.path THEN IF resume THEN Start(old, e) ELSE w
       ELSE IF ~opens THEN IF was THEN Start(old, e) ELSE old
       ELSE IF resume THEN Start(moved, e) ELSE moved

\* The disk check of process_container_inner.  e.check: "none", no check is
\* due yet or there is room; "warning", make room or warn, once; "critical".
CheckSpace(w, e) ==
    LET roomy == PruneCleanRecordings(w, e.prune)
    IN CASE e.check = "none" -> w
         [] e.check = "critical" -> Stop(w, Automatic)
         [] e.check = "warning" ->
                [roomy EXCEPT !.task.low_space_warned = (Freed(w, roomy) = 0)]

\* The recording the writers hold open: the current one, or the one whose entry
\* the shutdown thread closed under them.
Written(w) == IF w.store.current # None THEN Current(w) ELSE w.closed

\* The rest of process_container_inner once the container is written: max_type
\* is the worst event among the rows that reached the report.  An event whose
\* row could not be written is not reported at all, and a row for a report that
\* was deleted goes with it.
Analyse(w, max_type) ==
    LET n == Written(w)
        seen == [w EXCEPT
                    !.found[n] = IF max_type > @ THEN max_type ELSE @,
                    !.report[n] = IF max_type > 0 /\ @ # "none" THEN "warning" ELSE @]
    IN IF max_type > w.task.max_type_seen
       THEN [seen EXCEPT !.task.max_type_seen = max_type,
                         !.display = WarningDetected(max_type)]
       ELSE seen

\* process_container, for a container of user-space messages.  e.rest.end: the
\* container or its size could not be written; it was; it was, and the
\* recording is at its size or time limit.  Without a current entry the size
\* cannot be noted, and the first end follows unless the size was not known.
ProcessContainer(w, e) ==
    LET roomy == CheckSpace(w, e.space)
        done == Analyse(roomy, e.max_type)
    IN IF w.task.state # "Recording" THEN w
       ELSE IF roomy.task.state # "Recording" THEN roomy
       ELSE CASE e.rest.end = "unwritten" -> Stop(roomy, Automatic)
              [] e.rest.end = "written" -> done
              [] e.rest.end = "limit" -> Rotate(done, e.rest.start)

-----------------------------------------------------------------------------
\* Names not used for a recording yet.
FreeNames == {n \in Names : n > clock}

\* What a clean-up can do to the recordings there are, if there is one.
PruneAnswers ==
    IF AutoDeleteClean
    THEN UNION {[D -> {"removed", "unreported"}] :
                    D \in {X \in SUBSET ListedIn(World) : Cardinality(X) <= MaxPruned}}
    ELSE {<<>>}

\* The answers a start can get.  Names are used in order, as time passes.
StartAnswers ==
    [prune: PruneAnswers, outcome: {"low", "none"}, name: {None}] \cup
    [prune: PruneAnswers, outcome: {"entry", "ok"},
     name: {n \in FreeNames : \A m \in FreeNames : n <= m}]

\* The answers the handling of a container can get: to the disk check, to the
\* writes and the limits, and from the detectors.
SpaceAnswers ==
    [check: {"none", "critical"}, prune: {<<>>}] \cup
    [check: {"warning"}, prune: PruneAnswers]

EndAnswers ==
    [end: {"unwritten", "written"}, start: {<<>>}] \cup
    [end: {"limit"}, start: StartAnswers]

ContainerAnswers ==
    [space: SpaceAnswers, rest: EndAnswers, max_type: Severity]

StartRecording(e) ==
    /\ loop = "runs"
    /\ Become(Start([World EXCEPT !.task.stopped_by_user = FALSE], e))

StopRecording ==
    /\ loop = "runs"
    /\ Become(Stop([World EXCEPT !.task.stopped_by_user = TRUE], NoReason))

HandleSwitchStore(p, e, opens) ==
    /\ loop = "runs"
    /\ Become(SwitchStore(World, p, e, opens))

\* delete_entry of the store: an error before the report is removed, after
\* it, or none.
Delete(w, n, upto) ==
    [w EXCEPT !.store = IF upto = "all" THEN DeleteEntry(@, n) ELSE @,
              !.report[n] = IF upto = "nothing" THEN @ ELSE "none"]

\* DiagTask::delete_entry without the stop.
DeleteWithoutStop(n, upto) ==
    /\ loop = "runs" /\ n \in NamesOf(store.entries)
    /\ Become(Delete(World, n, upto))

\* DiagTask::delete_entry; deleting the current recording stops it first.
DeleteByRequest(n, upto) ==
    LET w == IF IsCurrentEntry(store, n) THEN Stop(World, NoReason) ELSE World
    IN /\ loop = "runs" /\ n \in NamesOf(store.entries)
       /\ Become(Delete(w, n, upto))

\* DiagTask::delete_all_entries; the ones in kept could not be removed.
DeleteAllByRequest(kept) ==
    LET w == Stop(World, NoReason)
        gone == NamesOf(w.store.entries) \ kept
    IN /\ loop = "runs" /\ kept \subseteq NamesOf(store.entries)
       /\ Become([w EXCEPT !.store.entries = RetainOnly(@, kept),
                           !.report = [n \in Names |->
                                IF n \in gone THEN "none" ELSE @[n]]])

\* A container off the air, or the demo container, which takes the same path.
HandleContainer(e) ==
    /\ loop = "runs"
    /\ Become(ProcessContainer(World, e))

\* The uploader marks a recording that is not current, or deletes it.
UploaderMarks(n) ==
    /\ UploadsConfigured /\ n \in NamesOf(store.entries)
    /\ ~IsCurrentEntry(store, n)
    /\ Become([World EXCEPT !.store = SetMark(@, n, "uploaded", TRUE)])

UploaderDeletes(n) ==
    /\ UploadsConfigured /\ n \in NamesOf(store.entries)
    /\ ~IsCurrentEntry(store, n)
    /\ Become(Delete(World, n, "all"))

\* set_entry_annotations, from the web page.
Label(n, on) ==
    /\ "labelled" \in Marks /\ n \in NamesOf(store.entries)
    /\ Become([World EXCEPT !.store = SetMark(@, n, "labelled", on)])

\* run_shutdown_thread takes the lock and closes the current entry, once, while
\* the task goes on recording until it comes to Exit.  Whoever takes the lock
\* after that finds no current entry.
ShutdownClose ==
    /\ closed = None /\ store.current # None
    /\ Become([World EXCEPT !.store = CloseCurrentEntry(@),
                            !.closed = Current(World)])

\* Exit, or every sender gone: the writers are closed and the loop ends.
Exit ==
    /\ loop = "runs"
    /\ loop' = "exited"
    /\ task' = [task EXCEPT !.state = "Stopped"]
    /\ UNCHANGED <<store, path, shelf, display, report, clock, finished, closed,
                   found, began, pruned>>

\* Reading the device failed: the loop ends with the error, and the writers
\* are dropped with the task.
DiagReadError ==
    /\ loop = "runs"
    /\ loop' = "failed"
    /\ task' = [task EXCEPT !.state = "Stopped"]
    /\ UNCHANGED <<store, path, shelf, display, report, clock, finished, closed,
                   found, began, pruned>>

Next ==
    \/ \E e \in StartAnswers : StartRecording(e)
    \/ StopRecording
    \/ \E p \in Paths, e \in StartAnswers, opens \in BOOLEAN :
            HandleSwitchStore(p, e, opens)
    \/ \E n \in Names, upto \in {"nothing", "report", "all"} :
            DeleteByRequest(n, upto)
    \/ \E kept \in SUBSET Names : DeleteAllByRequest(kept)
    \/ \E e \in ContainerAnswers : HandleContainer(e)
    \/ \E n \in Names : UploaderMarks(n) \/ UploaderDeletes(n)
    \/ \E n \in Names, on \in BOOLEAN : Label(n, on)
    \/ ShutdownClose
    \/ Exit
    \/ DiagReadError

Spec == Init /\ [][Next]_vars

-----------------------------------------------------------------------------
IsRecording == task.state = "Recording"

\* A user's stop holds until a user starts again: no switch of storage and no
\* rotation resumes recording (switch_store, StopRecording).
UserStopHolds == task.stopped_by_user => ~IsRecording

\* The display never shows a recording line over a task that runs and records
\* nothing (start: "make sure the display agrees with the outcome").
ShownRecordingIsReal ==
    loop = "runs" /\ display.kind \in {"Recording", "Warning"} => IsRecording

\* While recording, the display shows the severity the next event will be
\* compared with: no event is swallowed as "already shown" after a rotation,
\* a switch or a restart (process_container_inner, rotate).
DisplayShowsWorst ==
    IsRecording /\ display.kind # "Paused" => display.level = task.max_type_seen

\* What the display shows is what the task does and what it has found
\* (start, rotate, switch_store, process_container_inner).
DisplayIsRight == ShownRecordingIsReal /\ DisplayShowsWorst

\* A recording in progress has its entry and its report, whatever was deleted
\* or pruned meanwhile (prune_clean_recordings, delete_entry).  Only the
\* shutdown thread takes its entry away (run_shutdown_thread).
RecordingHasEntry ==
    IsRecording =>
        IF store.current # None
        THEN report[store.entries[store.current].name] \in {"clean", "warning"}
        ELSE closed # None

\* The task's state hangs together after every message it handles.
RecorderInv == TypeOK /\ RecordingHasEntry

\* Every recording that was written to and is still listed, in this store or
\* another, has been announced to the analysis thread once it is over
\* (finish_current_entry, on every way out of Recording while the task runs),
\* but for the one whose entry the shutdown thread closed.
FinishedAnnounced ==
    loop = "runs" => \A n \in began :
        \/ n \in finished \/ n = closed
        \/ IsRecording /\ IsCurrentEntry(store, n)

\* Room is only ever made from recordings in which nothing was reported, that
\* nobody labelled, and that were uploaded if uploads are set up (verdict_for).
PruneSparesFindings ==
    \A e \in pruned :
        /\ e.found = 0
        /\ "labelled" \notin e.marks
        /\ UploadsConfigured => "uploaded" \in e.marks
=============================================================================
