------------------------------ MODULE Shutdown ------------------------------
(***************************************************************************)
(* Ending the daemon on SIGTERM (run_shutdown_thread, daemon/src/main.rs): *)
(* the shutdown thread closes the current entry under the store's lock     *)
(* and, still holding it, tells the diag task and the analysis thread to   *)
(* exit through their bounded channels.  The diag task takes one message   *)
(* or container at a time, waits for the same lock, and holds it while it  *)
(* announces the end of a recording to the analysis thread.  A client that *)
(* asks for a re-analysis holds it, and the status lock, while it tells    *)
(* that thread.                                                            *)
(*                                                                         *)
(* A step is what runs between two awaits.  A send to a task that has      *)
(* ended fails at once, also for a sender that waits for room.  The        *)
(* analysis thread holds either lock only within a step.                   *)
(***************************************************************************)
EXTENDS Naturals, Sequences

CONSTANTS
    DiagCapacity,      \* of the channel to the diag task: 1 in main.rs
    AnalysisCapacity,  \* of the channel to the analysis thread: 5 in main.rs
    MaxMessages        \* bound on the requests of other tasks, of either kind

ASSUME ShutdownBounds ==
    /\ DiagCapacity \in Nat \ {0} /\ AnalysisCapacity \in Nat \ {0}
    /\ MaxMessages \in Nat

VARIABLES
    storeLock,   \* who holds qmdl_store_lock
    statusLock,  \* who holds analysis_status_lock
    requests,    \* messages to the diag task
    sent,        \* how many requests other tasks have made
    diag,        \* what the diag task waits for
    recording,   \* whether it has a capture open
    current,     \* whether the store has a current entry
    asker,       \* what the client of start_analysis waits for
    inbox,       \* messages to the analysis thread
    analysis,    \* what the analysis thread waits for
    queued,      \* recordings queued for re-analysis
    turns,       \* turns left of the analysis thread's loop
    shutdown     \* where the shutdown thread is

locks == <<storeLock, statusLock>>
capture == <<recording, current>>
thread == <<analysis, queued, turns>>
vars == <<locks, requests, sent, diag, capture, asker, inbox, thread, shutdown>>

Free == "free"

TypeOK ==
    /\ storeLock \in {Free, "shutdown", "diag", "asker", "reader"}
    /\ statusLock \in {Free, "asker"}
    /\ requests \in Seq({"request", "exit"}) /\ Len(requests) <= DiagCapacity
    /\ sent \in 0..MaxMessages
    /\ diag \in {"select", "request", "container", "announce", "exit", "gone"}
    /\ recording \in BOOLEAN /\ current \in BOOLEAN
    /\ asker \in {"idle", "store", "send"}
    /\ inbox \in Seq({"queued", "finished", "exit"}) /\ Len(inbox) <= AnalysisCapacity
    /\ analysis \in {"recv", "note", "count", "dequeue", "store", "finish", "gone"}
    /\ queued \in 0..MaxMessages /\ turns \in 0..MaxMessages
    /\ shutdown \in {"waits", "lock", "tellDiag", "tellAnalysis", "done"}

Init ==
    /\ storeLock = Free /\ statusLock = Free
    /\ requests = <<>> /\ sent = 0
    /\ diag = "select"
    /\ recording \in BOOLEAN /\ current = recording
    /\ asker = "idle"
    /\ inbox = <<>>
    /\ analysis = "recv" /\ queued = 0 /\ turns = 0
    /\ shutdown = "waits"

-----------------------------------------------------------------------------
\* A send to the analysis thread: once there is room, or it has ended.
Tell(message) ==
    \/ analysis = "gone" /\ UNCHANGED inbox
    \/ analysis # "gone" /\ Len(inbox) < AnalysisCapacity
       /\ inbox' = Append(inbox, message)

\* The web server, the button, the GPS endpoint and the storage monitor.  What
\* they send to a task that has ended is an error to them and nothing here.
SendRequest ==
    /\ sent < MaxMessages /\ diag # "gone" /\ Len(requests) < DiagCapacity
    /\ requests' = Append(requests, "request")
    /\ sent' = sent + 1
    /\ UNCHANGED <<locks, diag, capture, asker, inbox, thread, shutdown>>

\* Other holders of the store's lock (downloads, the uploader): they wait for
\* nothing the tasks here have and let go of it.
ReaderLocks ==
    /\ storeLock = Free
    /\ storeLock' = "reader"
    /\ UNCHANGED <<statusLock, requests, sent, diag, capture, asker, inbox, thread, shutdown>>

ReaderUnlocks ==
    /\ storeLock = "reader"
    /\ storeLock' = Free
    /\ UNCHANGED <<statusLock, requests, sent, diag, capture, asker, inbox, thread, shutdown>>

(***************************************************************************)
(* start_analysis: the status lock, the store's lock, and a send with both *)
(* held.  One client is enough: the others wait for the status lock.       *)
(***************************************************************************)
AskStart ==
    /\ asker = "idle" /\ statusLock = Free /\ sent < MaxMessages
    /\ statusLock' = "asker"
    /\ asker' = "store"
    /\ sent' = sent + 1
    /\ UNCHANGED <<storeLock, requests, diag, capture, inbox, thread, shutdown>>

AskQueue ==
    /\ asker = "store" /\ storeLock = Free
    /\ storeLock' = "asker"
    /\ asker' = "send"
    /\ queued' = queued + 1
    /\ UNCHANGED <<statusLock, requests, sent, diag, capture, inbox, analysis, turns, shutdown>>

\* The recording is queued or running already.
AskNothing ==
    /\ asker = "store" /\ storeLock = Free
    /\ statusLock' = Free
    /\ asker' = "idle"
    /\ UNCHANGED <<storeLock, requests, sent, diag, capture, inbox, thread, shutdown>>

AskSend ==
    /\ asker = "send" /\ Tell("queued")
    /\ storeLock' = Free /\ statusLock' = Free
    /\ asker' = "idle"
    /\ UNCHANGED <<requests, sent, diag, capture, thread, shutdown>>

\* The client goes away: its locks are free, what it queued stays queued.
AskHangUp ==
    /\ asker # "idle"
    /\ storeLock' = IF asker = "send" THEN Free ELSE storeLock
    /\ statusLock' = Free
    /\ asker' = "idle"
    /\ UNCHANGED <<requests, sent, diag, capture, inbox, thread, shutdown>>

(***************************************************************************)
(* run_diag_read_thread: the select, then the handler under the lock.      *)
(***************************************************************************)
SelectRequest ==
    /\ diag = "select" /\ requests # <<>>
    /\ diag' = Head(requests)
    /\ requests' = Tail(requests)
    /\ UNCHANGED <<locks, sent, capture, asker, inbox, thread, shutdown>>

SelectContainer ==
    /\ diag = "select"
    /\ diag' = "container"
    /\ UNCHANGED <<locks, requests, sent, capture, asker, inbox, thread, shutdown>>

\* Reading the device fails: the task ends, with its writers.
DiagReadError ==
    /\ diag = "select"
    /\ diag' = "gone"
    /\ recording' = FALSE
    /\ UNCHANGED <<locks, requests, sent, current, asker, inbox, thread, shutdown>>

\* A request that leaves the recording alone: a GPS position, a deletion, a
\* start that is refused.
HandleRequest ==
    /\ diag = "request" /\ storeLock = Free
    /\ diag' = "select"
    /\ UNCHANGED <<locks, requests, sent, capture, asker, inbox, thread, shutdown>>

\* A start that leaves a capture and its entry, the entry alone, or neither.
Started == recording' \in BOOLEAN /\ current' \in BOOLEAN /\ (recording' => current')

\* A start, or a switch of stores that resumes, with nothing to announce.
HandleStart ==
    /\ diag = "request" /\ storeLock = Free
    /\ ~(recording /\ current)
    /\ diag' = "select"
    /\ Started
    /\ UNCHANGED <<locks, requests, sent, asker, inbox, thread, shutdown>>

\* A stop without a current entry: there is nothing to announce.
HandleStop ==
    /\ diag = "request" /\ storeLock = Free /\ ~current
    /\ diag' = "select"
    /\ recording' = FALSE
    /\ UNCHANGED <<locks, requests, sent, current, asker, inbox, thread, shutdown>>

\* process_container: written, then noted in the manifest; without a current
\* entry that is an error, which stops the recording.
HandleContainer ==
    /\ diag = "container" /\ storeLock = Free
    /\ diag' = "select"
    /\ recording' = (recording /\ current)
    /\ UNCHANGED <<locks, requests, sent, current, asker, inbox, thread, shutdown>>

\* finish_current_entry up to its send, with the store's lock held: a stop, the
\* deletion of the current recording, a start or a switch while recording, a
\* container at a limit or that cannot be written.
FinishCurrentEntry ==
    /\ diag \in {"request", "container"} /\ storeLock = Free
    /\ current /\ (diag = "container" => recording)
    /\ storeLock' = "diag"
    /\ diag' = "announce"
    /\ recording' = FALSE
    /\ UNCHANGED <<statusLock, requests, sent, current, asker, inbox, thread, shutdown>>

\* RecordingFinished is sent; then what the handler has left to do.
Announce ==
    /\ diag = "announce" /\ Tell("finished")
    /\ diag' = "select"
    /\ storeLock' = Free
    /\ Started
    /\ UNCHANGED <<statusLock, requests, sent, asker, thread, shutdown>>

\* Exit: stop_current_recording, and the task ends.
HandleExit ==
    /\ diag = "exit" /\ storeLock = Free
    /\ diag' = "gone"
    /\ recording' = FALSE
    /\ UNCHANGED <<locks, requests, sent, current, asker, inbox, thread, shutdown>>

(***************************************************************************)
(* run_analysis_thread, as far as the locks and Exit go.                   *)
(***************************************************************************)
AnalysisRecv ==
    /\ analysis = "recv" /\ inbox # <<>>
    /\ analysis' = CASE Head(inbox) = "exit" -> "gone"
                     [] Head(inbox) = "finished" -> "note"
                     [] Head(inbox) = "queued" -> "count"
    /\ inbox' = Tail(inbox)
    /\ UNCHANGED <<locks, requests, sent, diag, capture, asker, queued, turns, shutdown>>

\* The steps under the status lock: RecordingFinished, queued_len,
\* dequeue_to_running and finish_running_analysis.
AnalysisStatus ==
    /\ statusLock = Free
    /\ \/ analysis = "note" /\ analysis' = "recv" /\ UNCHANGED <<queued, turns>>
       \/ /\ analysis = "count" /\ turns' = queued /\ UNCHANGED queued
          /\ analysis' = IF queued = 0 THEN "recv" ELSE "dequeue"
       \/ /\ analysis = "dequeue" /\ queued' = queued - 1 /\ UNCHANGED turns
          /\ analysis' = "store"
       \/ /\ analysis = "finish" /\ turns' = turns - 1 /\ UNCHANGED queued
          /\ analysis' = IF turns = 1 THEN "recv" ELSE "dequeue"
    /\ UNCHANGED <<locks, requests, sent, diag, capture, asker, inbox, shutdown>>

\* A capture that cannot be read ends the thread in a panic.
PerformAnalysis ==
    /\ analysis = "store" /\ storeLock = Free
    /\ analysis' \in {"finish", "gone"}
    /\ UNCHANGED <<locks, requests, sent, diag, capture, asker, inbox, queued, turns, shutdown>>

(***************************************************************************)
(* run_shutdown_thread.                                                    *)
(***************************************************************************)
Signal ==
    /\ shutdown = "waits"
    /\ shutdown' = "lock"
    /\ UNCHANGED <<locks, requests, sent, diag, capture, asker, inbox, thread>>

\* Returning when there is nothing to close.
CloseOrReturn ==
    /\ shutdown = "lock" /\ storeLock = Free
    /\ current' = FALSE
    /\ storeLock' = IF current THEN "shutdown" ELSE Free
    /\ shutdown' = IF current THEN "tellDiag" ELSE "done"
    /\ UNCHANGED <<statusLock, requests, sent, diag, recording, asker, inbox, thread>>

CloseCurrentEntry ==
    /\ shutdown = "lock" /\ storeLock = Free
    /\ storeLock' = "shutdown"
    /\ current' = FALSE
    /\ shutdown' = "tellDiag"
    /\ UNCHANGED <<statusLock, requests, sent, diag, recording, asker, inbox, thread>>

TellDiag ==
    /\ shutdown = "tellDiag"
    /\ \/ diag = "gone" /\ UNCHANGED requests
       \/ /\ diag # "gone" /\ Len(requests) < DiagCapacity
          /\ requests' = Append(requests, "exit")
    /\ shutdown' = "tellAnalysis"
    /\ UNCHANGED <<locks, sent, diag, capture, asker, inbox, thread>>

\* The guard of the store's lock goes with the end of the thread.
TellAnalysis ==
    /\ shutdown = "tellAnalysis" /\ Tell("exit")
    /\ shutdown' = "done"
    /\ storeLock' = Free
    /\ UNCHANGED <<statusLock, requests, sent, diag, capture, asker, thread>>

-----------------------------------------------------------------------------
DiagLocks ==
    \/ HandleRequest \/ HandleStart \/ HandleStop \/ HandleContainer
    \/ FinishCurrentEntry \/ HandleExit

Next ==
    \/ SendRequest \/ ReaderLocks \/ ReaderUnlocks
    \/ AskStart \/ AskQueue \/ AskNothing \/ AskSend \/ AskHangUp
    \/ SelectRequest \/ SelectContainer \/ DiagReadError \/ DiagLocks \/ Announce
    \/ AnalysisRecv \/ AnalysisStatus \/ PerformAnalysis
    \/ Signal \/ CloseCurrentEntry \/ TellDiag \/ TellAnalysis

\* Every task that can go on is polled; select! takes a ready branch at
\* random, so a message that stays there is received; the store's lock is
\* granted in the order it is asked for.  Nothing makes the signal come, a
\* client ask or hang up, or the device fail.
Fairness ==
    /\ WF_vars(ReaderUnlocks)
    /\ SF_vars(AskQueue \/ AskNothing) /\ WF_vars(AskSend)
    /\ SF_vars(SelectRequest) /\ SF_vars(DiagLocks) /\ WF_vars(Announce)
    /\ WF_vars(AnalysisRecv) /\ WF_vars(AnalysisStatus) /\ SF_vars(PerformAnalysis)
    /\ SF_vars(CloseCurrentEntry) /\ WF_vars(TellDiag) /\ WF_vars(TellAnalysis)

Spec == Init /\ [][Next]_vars /\ Fairness

-----------------------------------------------------------------------------
\* Whoever holds the store's lock waits for room in the full channel of the
\* analysis thread, which waits for that lock, or for the status lock of a
\* client that waits for the one or the other.
AnalysisWedged ==
    /\ Len(inbox) = AnalysisCapacity
    /\ diag = "announce" \/ asker = "send" \/ shutdown = "tellAnalysis"
    /\ \/ analysis = "store"
       \/ analysis \in {"note", "count", "dequeue", "finish"} /\ statusLock # Free

\* The shutdown thread holds the store's lock and waits for room in the full
\* channel of the diag task, which waits for that lock.
DiagWedged ==
    /\ shutdown = "tellDiag" /\ Len(requests) = DiagCapacity
    /\ diag \in {"request", "container"}

\* A signal ends the daemon: both tasks exit and the task tracker's wait is
\* over, whatever is in their channels, whoever has the locks and whichever
\* task has ended before, unless a sender and its receiver wait for each other
\* for good (run_shutdown_thread, "panicking here left the process hanging in
\* the task tracker").
SignalEndsDaemon ==
    \/ <>[](AnalysisWedged \/ DiagWedged)
    \/ shutdown = "lock" ~> diag = "gone" /\ analysis = "gone"

\* run_shutdown_thread: no channel holds more than it has room for on the way
\* down, and the way down has an end.
ShutdownCorrect == []TypeOK /\ SignalEndsDaemon
=============================================================================
