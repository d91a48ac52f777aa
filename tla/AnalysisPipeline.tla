-------------------------- MODULE AnalysisPipeline --------------------------
(***************************************************************************)
(* Re-analysis of recordings (daemon/src/analysis.rs): web requests queue  *)
(* names under the status lock, the analysis thread takes them off and     *)
(* rewrites their reports, and the diag task announces recordings that end *)
(* and prunes the ones whose report is clean (cleanup.rs).  The three      *)
(* share two locks, the status and the recording store, and the bounded    *)
(* channel to the thread.                                                  *)
(*                                                                         *)
(* A step is what runs between two awaits.  A send that finds room does    *)
(* not wait; one that finds none waits holding the locks its task holds.   *)
(* The store's readers in start_analysis exclude each other by the status  *)
(* lock, so the store lock has one holder here.                            *)
(***************************************************************************)
EXTENDS Naturals, Sequences, FiniteSets

CONSTANTS
    Names,         \* recording names, numbered in the order of start times
    Old,           \* the recordings listed when the daemon starts
    Clients,       \* web requests that can be in flight
    Capacity,      \* of the channel to the thread: 5 in main.rs
    MaxRequests    \* bound on the number of requests

ASSUME OldAssumption ==
    /\ Names \subseteq Nat \ {0} /\ IsFiniteSet(Names)
    /\ Old \subseteq Names /\ Old = 1..Cardinality(Old)
ASSUME CapacityAssumption == Capacity \in Nat \ {0} /\ MaxRequests \in Nat

VARIABLES
    statusLock,  \* who holds analysis_status_lock
    storeLock,   \* who holds qmdl_store_lock
    queued,      \* AnalysisStatus
    running,
    finished,
    channel,     \* the messages the thread has not received
    thread,      \* where the analysis thread is; the turns left, or the name to note
    client,      \* what each request is doing, and for which recording
    asked,       \* how many requests there were
    entries,     \* the manifest
    clock,       \* the last name given out
    live,        \* the recording in progress
    diag,        \* whether the diag task waits to announce
    report,      \* the analysis file of each recording
    clobbered,   \* whether the live recording's report was cleared under it
    suspicious,  \* history: the recordings in which the detectors find something
    pruned,      \* history: recordings removed to make room
    spoiled,     \* history: recordings whose last re-analysis failed halfway, or ran
                 \* while they were being recorded
    lost         \* history: a client hung up between queueing a name and telling the thread

locks == <<statusLock, storeLock>>
status == <<queued, running, finished>>
recordings == <<entries, clock, live, report, clobbered, suspicious, pruned, spoiled>>
vars == <<statusLock, storeLock, queued, running, finished, channel, thread,
          client, asked, entries, clock, live, diag, report, clobbered,
          suspicious, pruned, spoiled, lost>>

None == 0
Free == "free"
Thread == "thread"
Diag == "diag"
ASSUME ClientsAssumption == {Free, Thread, Diag} \cap Clients = {}

NewFilesQueued == [kind |-> "new", name |-> None]
RecordingFinished(n) == [kind |-> "finished", name |-> n]
Message == [kind: {"new"}, name: {None}] \cup [kind: {"finished"}, name: Names]

\* "empty": cleared; "clean": the metadata line and no warning; "malformed":
\* two writers were in it, and some line does not parse.
Report == {"none", "empty", "clean", "warning", "malformed"}

At(pc, arg) == [pc |-> pc, arg |-> arg]
Gone == thread.pc = "panicked"
Room == Len(channel) < Capacity

TypeOK ==
    /\ statusLock \in {Free} \cup Clients
    /\ storeLock \in {Free, Diag} \cup Clients
    /\ queued \in Seq(Names)
    /\ running \in Names \cup {None}
    /\ finished \subseteq Names
    /\ channel \in Seq(Message) /\ Len(channel) <= Capacity
    /\ thread \in [pc: {"recv", "note", "count", "dequeue", "open", "head",
                        "rows", "finish", "panicked"}, arg: Nat]
    /\ client \in [Clients -> [pc: {"idle", "store", "send"}, name: Names \cup {None}]]
    /\ asked \in 0..MaxRequests
    /\ entries \subseteq Names
    /\ clock \in Names \cup {None}
    /\ live \in entries \cup {None}
    /\ diag \in {"idle", "announce"}
    /\ report \in [Names -> Report]
    /\ clobbered \in BOOLEAN
    /\ suspicious \subseteq Names
    /\ pruned \subseteq Names /\ spoiled \subseteq Names
    /\ lost \in BOOLEAN

Init ==
    /\ statusLock = Free /\ storeLock = Free
    /\ queued = <<>> /\ running = None /\ finished = Old
    /\ channel = <<>>
    /\ thread = At("recv", 0)
    /\ client = [c \in Clients |-> [pc |-> "idle", name |-> None]]
    /\ asked = 0
    /\ entries = Old /\ live = None
    /\ clock = Cardinality(Old)
    /\ diag = "idle"
    /\ suspicious \in SUBSET Old
    /\ report = [n \in Names |-> IF n \in suspicious THEN "warning"
                                 ELSE IF n \in Old THEN "clean" ELSE "none"]
    /\ clobbered = FALSE
    /\ pruned = {} /\ spoiled = {} /\ lost = FALSE

-----------------------------------------------------------------------------
(***************************************************************************)
(* start_analysis.  The status lock first, then the store's.               *)
(***************************************************************************)
StartAnalysis(c, n) ==
    /\ client[c].pc = "idle" /\ statusLock = Free
    /\ asked < MaxRequests
    /\ asked' = asked + 1
    /\ statusLock' = c
    /\ client' = [client EXCEPT ![c] = [pc |-> "store", name |-> n]]
    /\ UNCHANGED <<lost, storeLock, status, channel, thread, recordings, diag>>

\* The request is answered: its guards are dropped.
Answer(c) ==
    /\ statusLock' = Free
    /\ storeLock' = IF storeLock = c THEN Free ELSE storeLock
    /\ client' = [client EXCEPT ![c] = [pc |-> "idle", name |-> None]]

IsQueued(n) == \E i \in DOMAIN queued : queued[i] = n

\* queue_qmdl without the look at the running analysis.
QueueQmdlAlways(n) ==
    IF IsQueued(n) THEN queued ELSE Append(queued, n)

\* queue_qmdl: queued only when it is neither waiting nor running.
QueueQmdl(n) ==
    IF IsQueued(n) \/ running = n THEN queued ELSE Append(queued, n)

\* The rest of start_analysis telling the thread only of the first name that
\* waits.
QueueTellOnce(c) ==
    LET n == client[c].name
    IN /\ client[c].pc = "store" /\ storeLock = Free
       /\ queued' = QueueQmdl(n)
       /\ Room
       /\ channel' = IF queued = <<>> /\ queued' # queued
                     THEN Append(channel, NewFilesQueued) ELSE channel
       /\ Answer(c)
       /\ UNCHANGED <<asked, lost, running, finished, thread, recordings, diag>>

\* The rest of start_analysis.
Queue(c) ==
    LET n == client[c].name
    IN /\ client[c].pc = "store" /\ storeLock = Free
       /\ queued' = QueueQmdl(n)
       /\ IF queued' = queued \/ Gone THEN Answer(c) /\ UNCHANGED channel
          ELSE IF Room
          THEN Answer(c) /\ channel' = Append(channel, NewFilesQueued)
          ELSE /\ storeLock' = c
               /\ client' = [client EXCEPT ![c].pc = "send"]
               /\ UNCHANGED <<statusLock, channel>>
       /\ UNCHANGED <<asked, lost, running, finished, thread, recordings, diag>>

\* The channel has room again, or the receiver is gone.
SendNewFilesQueued(c) ==
    /\ client[c].pc = "send" /\ (Room \/ Gone)
    /\ channel' = IF Gone THEN channel ELSE Append(channel, NewFilesQueued)
    /\ Answer(c)
    /\ UNCHANGED <<asked, lost, status, thread, recordings, diag>>

\* The client hangs up and the server drops its request, guards and all.
HangUp(c) ==
    /\ client[c].pc # "idle"
    /\ Answer(c)
    /\ lost' = (lost \/ client[c].pc = "send")
    /\ UNCHANGED <<asked, status, channel, thread, recordings, diag>>

(***************************************************************************)
(* run_analysis_thread.                                                    *)
(***************************************************************************)
Recv ==
    /\ thread.pc = "recv" /\ channel # <<>>
    /\ thread' = IF Head(channel).kind = "new" THEN At("count", 0)
                 ELSE At("note", Head(channel).name)
    /\ channel' = Tail(channel)
    /\ UNCHANGED <<asked, lost, locks, status, client, recordings, diag>>

NoteFinished ==
    /\ thread.pc = "note" /\ statusLock = Free
    /\ finished' = finished \cup {thread.arg}
    /\ thread' = At("recv", 0)
    /\ UNCHANGED <<asked, lost, locks, queued, running, channel, client, recordings,
                   diag>>

\* for _ in 0..count
Loop(count) == At(IF count = 0 THEN "recv" ELSE "dequeue", count)

QueuedLen ==
    /\ thread.pc = "count" /\ statusLock = Free
    /\ thread' = Loop(Len(queued))
    /\ UNCHANGED <<asked, lost, locks, status, channel, client, recordings, diag>>

DequeueToRunning ==
    /\ thread.pc = "dequeue" /\ statusLock = Free
    /\ queued # <<>> /\ running = None
    /\ queued' = Tail(queued)
    /\ running' = Head(queued)
    /\ thread' = At("open", thread.arg)
    /\ UNCHANGED <<asked, lost, locks, finished, channel, client, recordings, diag>>

\* perform_analysis under the store lock: the report is cleared, and only
\* then is the capture opened (readable = FALSE: that fails).
OpenAndClear(readable) ==
    LET there == running \in entries /\ report[running] # "none"
    IN /\ thread.pc = "open" /\ storeLock = Free
       /\ thread' = At(IF there /\ readable THEN "head" ELSE "finish", thread.arg)
       /\ report' = IF there THEN [report EXCEPT ![running] = "empty"] ELSE report
       /\ clobbered' = (clobbered \/ (there /\ running = live))
       /\ spoiled' = IF there /\ running = live THEN spoiled \cup {running} ELSE spoiled
       /\ UNCHANGED <<asked, lost, locks, status, channel, client, entries, clock,
                      live, suspicious, pruned, diag>>

\* What is written to a report that may be gone, or shared with the diag task.
Written(n, r) ==
    IF report[n] \in {"none", "malformed"} THEN report[n] ELSE r

\* Returning after the metadata line.
WriteMetadataOnly(ok) ==
    /\ thread.pc = "head" /\ ok
    /\ report' = [report EXCEPT ![running] = Written(running, "clean")]
    /\ thread' = At("finish", thread.arg)
    /\ UNCHANGED <<asked, lost, locks, status, channel, client, entries, clock, live,
                   clobbered, suspicious, pruned, spoiled, diag>>

\* AnalysisWriter::new writes the metadata line, with no lock held.
WriteMetadata(ok) ==
    /\ thread.pc = "head"
    /\ report' = IF ok THEN [report EXCEPT ![running] = Written(running, "clean")]
                 ELSE report
    /\ thread' = At(IF ok THEN "rows" ELSE "finish", thread.arg)
    /\ UNCHANGED <<asked, lost, locks, status, channel, client, entries, clock, live,
                   clobbered, suspicious, pruned, spoiled, diag>>

\* Rows read without an end: the end of the capture is not noticed.
WriteRowsForever(all, then) ==
    /\ thread.pc = "rows" /\ all /\ then = "finish"
    /\ report' = IF running \in suspicious
                 THEN [report EXCEPT ![running] = Written(running, "warning")]
                 ELSE report
    /\ UNCHANGED <<asked, lost, locks, status, channel, thread, client, entries, clock,
                   live, clobbered, suspicious, pruned, spoiled, diag>>

\* The rows.  The capture of the recording in progress may not yet hold what
\* the detectors saw (all = FALSE).  An error ends the analysis; one from the
\* reader panics (expect).  The panic ends this thread and the daemon goes on,
\* as in every profile but firmware, where panic = "abort" ends the daemon.
WriteRows(all, then) ==
    /\ thread.pc = "rows"
    /\ all \/ running = live \/ then # "finish"
    /\ report' = IF all /\ running \in suspicious
                 THEN [report EXCEPT ![running] = Written(running, "warning")]
                 ELSE report
    /\ thread' = At(IF then = "panicked" THEN "panicked" ELSE "finish", thread.arg)
    /\ channel' = IF then = "panicked" THEN <<>> ELSE channel
    /\ spoiled' = IF then # "finish" THEN spoiled \cup {running}
                  ELSE IF all THEN spoiled \ {running} ELSE spoiled
    /\ UNCHANGED <<asked, lost, locks, status, client, entries, clock, live,
                   clobbered, suspicious, pruned, diag>>

FinishRunningAnalysis ==
    /\ thread.pc = "finish" /\ statusLock = Free
    /\ finished' = finished \cup {running}
    /\ running' = None
    /\ thread' = Loop(thread.arg - 1)
    /\ UNCHANGED <<asked, lost, locks, queued, channel, client, recordings, diag>>

(***************************************************************************)
(* The diag task, each handler under the store's write lock.               *)
(***************************************************************************)
\* Names are start times: the next one is later.
Fresh == {n \in Names : n = clock + 1}

StartNew(n) ==
    /\ entries' = entries \cup {n}
    /\ clock' = n
    /\ live' = n
    /\ report' = [report EXCEPT ![n] = "clean"]
    /\ clobbered' = FALSE

DiagStart(n) ==
    /\ live = None /\ storeLock = Free /\ n \in Fresh
    /\ StartNew(n)
    /\ UNCHANGED <<asked, lost, locks, status, channel, thread, client, suspicious,
                   pruned, spoiled, diag>>

\* finish_current_entry up to its send.
DiagFinish ==
    /\ live # None /\ storeLock = Free
    /\ storeLock' = Diag
    /\ diag' = "announce"
    /\ UNCHANGED <<asked, lost, statusLock, status, channel, thread, client,
                   recordings>>

\* The send, and what follows it under the same lock: nothing more (stop), or
\* the next recording (rotate).
DiagAnnounce(next) ==
    /\ diag = "announce" /\ (Room \/ Gone)
    /\ channel' = IF Gone THEN channel ELSE Append(channel, RecordingFinished(live))
    /\ IF next \in Fresh THEN StartNew(next)
       ELSE live' = None /\ UNCHANGED <<entries, clock, report, clobbered>>
    /\ diag' = "idle"
    /\ storeLock' = Free
    /\ UNCHANGED <<asked, lost, statusLock, status, thread, client, suspicious,
                   pruned, spoiled>>

\* A container in which a detector finds something: its row goes where the
\* diag task's own handle on the report points.
DiagDetect ==
    /\ live # None /\ storeLock = Free
    /\ suspicious' = suspicious \cup {live}
    /\ report' = [report EXCEPT ![live] = IF clobbered THEN "malformed" ELSE "warning"]
    /\ UNCHANGED <<asked, lost, locks, status, channel, thread, client, entries,
                   clock, live, clobbered, pruned, spoiled, diag>>

Remove(n) ==
    /\ entries' = entries \ {n}
    /\ report' = [report EXCEPT ![n] = "none"]

\* verdict_for
VerdictIsClean(n) == n \in entries /\ n # live /\ report[n] = "clean"

\* prune_clean_recordings, one turn.
DiagPrune(n) ==
    /\ storeLock = Free
    /\ VerdictIsClean(n) /\ \A m \in Names : VerdictIsClean(m) => n <= m
    /\ Remove(n)
    /\ pruned' = pruned \cup {n}
    /\ UNCHANGED <<asked, lost, locks, status, channel, thread, client, clock, live,
                   clobbered, suspicious, spoiled, diag>>

\* delete_entry of the diag task; the current recording is finished first,
\* which is DiagFinish and DiagAnnounce.
DeleteByRequest(n) ==
    /\ storeLock = Free /\ n \in entries \ {live}
    /\ Remove(n)
    /\ UNCHANGED <<asked, lost, locks, status, channel, thread, client, clock, live,
                   clobbered, suspicious, pruned, spoiled, diag>>

-----------------------------------------------------------------------------
ThreadStep ==
    \/ Recv \/ NoteFinished \/ QueuedLen \/ DequeueToRunning
    \/ \E readable \in BOOLEAN : OpenAndClear(readable)
    \/ \E ok \in BOOLEAN : WriteMetadata(ok)
    \/ \E all \in BOOLEAN, then \in {"finish", "failed", "panicked"} : WriteRows(all, then)
    \/ FinishRunningAnalysis

ClientStep(c) == Queue(c) \/ SendNewFilesQueued(c)

DiagStep ==
    \/ \E n \in Names : DiagStart(n) \/ DiagPrune(n) \/ DeleteByRequest(n)
    \/ DiagFinish
    \/ \E n \in Names \cup {None} : DiagAnnounce(n)
    \/ DiagDetect

Next ==
    \/ ThreadStep
    \/ \E c \in Clients, n \in Names : StartAnalysis(c, n)
    \/ \E c \in Clients : ClientStep(c) \/ HangUp(c)
    \/ DiagStep

\* The runtime polls every task that can go on, and tokio's locks are granted
\* in the order they were asked for, so a task that waits for a lock that is
\* free again and again gets it.
Fairness ==
    /\ SF_vars(ThreadStep)
    /\ \A c \in Clients : SF_vars(ClientStep(c))
    /\ SF_vars(\E n \in Names \cup {None} : DiagAnnounce(n))

Spec == Init /\ [][Next]_vars /\ Fairness

-----------------------------------------------------------------------------
\* A recording is waiting or running at most once (queue_qmdl), whatever is
\* asked for while it runs.
AnalysedOnce ==
    /\ \A i, j \in DOMAIN queued : queued[i] = queued[j] => i = j
    /\ running # None => ~IsQueued(running)

\* dequeue_to_running never removes from an empty queue and its assertion that
\* nothing runs never fails, however requests and messages interleave.
DequeueFindsWork ==
    thread.pc = "dequeue" => Len(queued) >= thread.arg /\ running = None

\* The queue that requests, the diag task and the thread share is sound.
QueueInv == TypeOK /\ AnalysedOnce /\ DequeueFindsWork

\* No lost wake-up: while names wait, the thread is about to count them, has
\* counted them, or has a message coming that makes it.  The two exceptions are
\* a thread that panicked on a capture and a client that hung up while its
\* request waited for room in the channel.
WaitingIsCounted ==
    queued # <<>> /\ ~Gone /\ ~lost =>
        \/ thread.pc = "count"
        \/ thread.pc \in {"dequeue"} /\ thread.arg >= Len(queued)
        \/ thread.arg > Len(queued) /\ thread.pc \in {"open", "head", "rows", "finish"}
        \/ \E i \in DOMAIN channel : channel[i] = NewFilesQueued
        \/ \E c \in Clients : client[c].pc = "send"

\* A recording in which something was found is never removed to make room
\* (cleanup.rs: "Something was found. Never removed automatically.").
PruneSparesFindings == pruned \cap suspicious = {}

\* Once nothing is being done to it, the report of a recording in which
\* something was found does not call it clean, unless its last re-analysis
\* failed after the first line (perform_analysis) or was of the recording in
\* progress.
SettledReportIsTrue ==
    \A n \in (entries \cap suspicious) \ spoiled : n # running => report[n] # "clean"

\* A request or the diag task waits for room in the channel, holding locks the
\* thread may need before it makes some.
Stuck == ~Room /\ (diag = "announce" \/ \E c \in Clients : client[c].pc = "send")

\* "You can re-analyze any old recording" (doc/reanalyzing.md): a recording
\* that was queued is analysed, unless the thread panicked, a wake-up was lost
\* with a client, or someone waits for room in the channel for good.
QueuedIsAnalysed ==
    <>[]Stuck \/ \A n \in Names : IsQueued(n) ~> ~IsQueued(n) \/ Gone \/ lost
=============================================================================
