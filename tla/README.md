# A TLA+ development of the Rayhunter daemon

Rayhunter runs on a small mobile hotspot. It reads the modem's diagnostic
stream, records it, runs detectors over it, and shows on the device's display
whether it records and whether something was found. This directory models the
part of it that has to be right without anybody looking: the tasks of
`daemon/src` that share the recording store, what they promise about recordings,
reports, the display and their own termination; who owns the device and what its
screen says of that; the detectors; and the format a capture is kept in. Every
definition is translated from the source; `PROJECT.json` gives its lines.

Contents: the system and its parts; the modules and how they correspond to the
code; the runs; bounds; fairness; proofs; disagreements found; what is not
modelled; the plan.

## 1. The system

The daemon is one process on a current-thread tokio runtime: tasks interleave
only where they `await`. They share the recording store behind an `RwLock`, the
analysis status behind another, and talk through bounded channels.

| part | state it keeps | operations | talks to |
|---|---|---|---|
| recording store (`qmdl_store.rs`) | the manifest (a vector of entries), the index of the current entry; on disk `manifest.toml` and up to four files per recording | create, open, recover, new entry, size, stop reason, marks, delete one, delete all | called by everyone else under the store lock |
| diag task (`diag.rs`) | recording or stopped with the open writers, highest severity seen, low-space warning given, stopped by the user | start, stop, rotate, switch store, delete, container, exit | receives control messages (capacity 1); sends to the display, the analysis thread (5), the notification worker (10) |
| clean-up (`cleanup.rs`) | none; it reads reports | verdict, prune | called by the diag task under the store lock |
| re-analysis (`analysis.rs`) | queued, running and finished names | request, count, dequeue, analyse, finish | web requests under the status lock and then the store lock; the thread takes each in turn |
| shutdown (`main.rs`) | none | close the entry, tell the diag task, tell the analysis thread | holds the store lock throughout |
| notifications (`notifications.rs`) | one pending message, last delivery, last failure and failure count per type | drain, debounce, deliver, back off | an HTTP server |
| WebDAV upload (`webdav.rs`) | the recording being uploaded | pick, open, put, mark or delete | the store lock, briefly and repeatedly; an HTTP server |
| storage monitor (`storage.rs`) | the status: active place and state of the card | look, mount or detach, look again, decide, ask for a switch, note the answer | control message to the diag task and its answer |
| pairing (`pairing.rs`) | passphrase, trusted devices, codes, back-off; the same in a file | set up, pair by passphrase, code or account, change, rename, revoke, touch, save | web handlers; one lock for the state, one for setup |
| setup window and step-up (`pairing.rs`, `stepup.rs`, `display/mod.rs`, `key_input.rs`) | setup code and window, press request, terminal windows; what the screen is made to show | open, press, show, confirm, extend, end, lapse | web handlers, the button, tasks that wait and put things back |
| display drivers (`display/`) | the state shown | draw | receives from the diag task |
| pollers (battery, SIM, WiFi, update), buttons, GPS | little | poll, send | notifications, control messages |
| web server (`server.rs`, `tls.rs`, ...) | configuration, certificates | handlers | all of the above |
| detectors and harness (`lib/src/analysis`) | per detector: a chain, a window of failures, open transactions, priorities, distances, a clock; the packet number | analyse a message, hear of one that was skipped | called by the diag task and re-analysis |
| capture format (`lib/src/hdlc.rs`, `qmdl.rs`, `diag/`, `diag_device.rs`) | the encoder's and the reader's position | frame, take apart, write, flush, read | the device, the capture file |
| telcom-parser, radio, installers, front end | | | |

What is hard about it:

* **Failure half way.** Each operation of the store is several file-system
  calls; each may fail, and the process may die between any two (battery).
  What is left must still be listed by the next start.
* **A cached index.** The current entry is an index into a vector that other
  requests delete from.
* **Two writers of one file, and readers that judge it.** Re-analysis rewrites a
  report outside the store lock; clean-up reads reports under it and deletes.
* **Locks held across sends.** A task that waits for room in a channel holds
  locks its receiver needs (re-analysis, the end of a recording, shutdown).
* **Work that outlives its request.** A client that hangs up drops its handler
  with the locks it holds, while a file operation the handler waited for goes on
  in the thread pool; a server may have what the sender believes lost.
* **Automatic steps between the user's.** Rotation, a card that comes and goes
  and low space start and stop recordings; the user's last wish and the severity
  on the display have to survive them.
* **Time.** Debounce, retry and minimum age run on different clocks; windows on
  the screen lapse on their own; the modem sets the clock of the packets.
* **Two views of one thing.** The monitor's status and the store the diag task
  has; trusted devices in memory and in the file; the windows of two browsers and
  the one line on the screen; the live analysis and the one made of the capture.
* **Memory that must be dropped at the right moment.** A detector that forgets
  too early repeats or misses an alarm, one that forgets too late is silent.

What makes each part correct is stated as properties in its module; the list of
hazards in `PROJECT.json` ties each to the line where it would go wrong.

## 2. The modules

A step of a module is what the code does between two awaits at which another
modelled task can interfere. Data is reduced to what properties tell apart: a
name is a number in the order of start times, a capture is its length, a report
is what `cleanup.rs` makes of its lines, a severity is a number.

**StoreOps** is the manifest and the operations on it as functions of a
value `[entries, current]`: `PushEntry`, `CloseCurrentEntry`,
`UpdateCurrentEntryQmdlSize`, `SetCurrentStopReason`, `SetMark`, `DeleteEntry`,
`RetainOnly` are the in-memory halves of the methods of `RecordingStore`;
`DeleteEntries` is `delete_entry` several times under one lock, and `InOrder` puts
a set of names into the order in which `recover` sorts them.
`current = 0` stands for `None`. Three modules below use it.

**RecordingStore** adds the disk: which files each recording has, the length of
its capture, and `manifest.toml`, which may be missing, unreadable or hold the
entries last saved. One action per operation as its callers use it; its
parameters say which call fails, so that `NewEntry(n, "gps")` is `new_entry`
with the capture and the report created and the GPS file not. `Crash` ends the
process (and may leave the manifest unreadable: it is renamed into place without
being synced); `OpenOrRecover` starts it. Dying inside an operation leaves the
disk as a failure of the next call, followed by `Crash`. With `ClockRepeats` a
new process may come up with names used before.

**DiagTask** is the state machine of `diag.rs` with `cleanup.rs`. Its handlers
(`Start`, `Stop`, `Rotate`, `SwitchStore`, `ProcessContainer`) run under the
write lock from beginning to end, so each is a function of the *world* (what it
may change) and of the environment's answers during it: how full the disk is,
what a clean-up removes, which call fails, what the detectors report. An action
applies one to the present state (`Become`). Steps of other holders of the lock
(`UploaderMarks`, `UploaderDeletes`, `Label`, and `ShutdownClose`, by which the
shutdown thread closes the entry of a recording whose writers stay open) come in
between. History variables: the recording that was closed so (`closed`), the worst event reported in each recording, the recordings written
to, what pruned recordings were like.

**AnalysisPipeline** breaks `analysis.rs` up at its awaits: the request's two
lock acquisitions and its send (`StartAnalysis`, `Queue`,
`SendNewFilesQueued`), the thread's receive, count, dequeue, clear, metadata,
rows and finish, and the diag task as far as it shares locks, channel and
reports with them. A client may hang up, upon which the server drops its
request with the guards it holds. Reading a capture may fail (`ReadsFail`), and
a read error panics the thread as the code's `expect` does (in the firmware
profile, `.cargo/config.toml:63`, a panic ends the whole daemon; the model keeps
the harder case, in which the other tasks go on).

**Shutdown** has the shutdown thread, the diag task (select, then a handler that
waits for the lock), the analysis thread, a client of `start_analysis`, other
holders of the lock, both locks and both channels, with the capacities of
`main.rs`. Who sends with a lock held does so here: the diag task stays in
`Announce` with the store's lock until RecordingFinished has room, the client in
`AskSend` with both. A send to a task that has ended fails and its sender goes on;
the diag task may end on a device error, the analysis thread in a panic.

**Notifications** is the worker: `Drain` is the `try_recv` loop (a notification
that `Passes` becomes the next message of its type, and nothing in the loop changes
whether another passes, so the last one stays), `Deliver` one
attempt with its outcome (the server has the message and says so, it does not have
it, or it has it and the worker hears nothing in time: the last two are one failure
to the worker), `Skip` the back-off, `TimePasses` the clock. Ages are
counted up to the largest that a guard tells apart.

**WebdavUpload** is the worker against a store that grows, ends recordings and
deletes under it. `Open` and `Put` are the two halves of `try_upload_entry` for
one file; the files of a recording are sent concurrently. `site` holds the
configuration (delete after upload) and the captures the server refuses for
good; the runs take every combination. Faults that pass are paid from a budget.

**AbstractStore** is what RecordingStore promises: listed recordings, how much
each holds, which one is open. `RecordingStore!ImplementsPromise` maps the
detailed state to it (what is listed is the memory of a running daemon, or the
manifest and the captures the next one will find) and says that every step,
failures and crashes included, is a step of the promise or changes nothing of it.

**StorageMonitor** takes `check_removable` apart at its awaits: look (`Observe`),
`Detach` or `Mount`, `LookAgain`, `Decision`, `SendSwitch`, and `NoteAnswer` when
the diag task has answered. The card is a state of the environment: out, in,
mounted, a mount whose card is gone (`dead`), a card that came back under the
name of such a mount (`back`). The firmware mounts and unmounts it, the user
pulls it, calls fail. The diag task is reduced to which store it has and whether
its writer still reaches anything.

**Pairing** has one action per step of a request: `Begin...` checks what is
checked before the slow hash, `Hashed` ends it, then the request takes the state
lock, changes the memory and keeps the lock while it saves. A save is the three
operations of `write_atomic` on `auth.tmp` (`SaveOpened`, `SaveWritten`,
`SaveRenamed`), each of which may fail. The client may hang up at any of these
points: the handler is dropped with its locks, and the operation it waited for
stays in `late` until the thread pool gets to it (`LateOpen`, `LateWrite`,
`LateRename`), so that other saves may open, write and rename the same file before,
between and after. A file is absent, truncated, a text, or torn; a write by somebody
who opened `auth.tmp` before a rename goes into the auth file, and one over another
text may leave either text or neither. `Restart` loads what is there: a truncated file
reads as a unit without owner, as the fields' defaults have it, and with a torn one
the unit runs without a file (`unusable`). `store` says whether an operation of a
dropped save was still to come when another save opened `auth.tmp` (`raced`), until a
save has the file to itself again. `told` is what browsers were answered.

**Screen** has the setup window with its code, the press request, the fingerprint
view with the task that ends it, the claim of an owner and its save, and the
terminal's step-up windows, for two browsers and one screen. Time passes in
`Tick` for the terminal's windows, which are compared with each other, and as
lapses that may come at any moment for the rest.

**Detectors** has all fourteen detectors of `lib/src/analysis`: for each what it
remembers and a function from memory and message to new memory and what it says.
A message is a record of the fields some detector reads. **Harness** numbers the
packets, hands each to the detectors that are on, and keeps the report; packets
that hold nothing, or cannot be read, are reported to them as skipped. What
the parsers guarantee of a message is `ElementsAssumption`. The
properties compare what was said of the newest packet with the packets
themselves, over whole reports, so each is a reference definition that knows
nothing of the detector's memory.

**CaptureFormat** has the frames (`hdlc_encapsulate`, `hdlc_decapsulate` byte by
byte, with the code's CRC in MCCaptureFormat), the diag task writing containers
to the gzip stream and analysing them, and a reader that may be opened at any
time. What gzip does to the bytes is left out; how many of them the file gives
back at any moment is the state.

The `MC...` modules give constants their values. Definitions named for a slip
(`DeleteManifestFirst`, `QueueTellOnce`, ...) stand before the definition they
vary; nothing uses them but the mutants of `PROJECT.json`, which show that each
property can be broken.

## 3. The runs

Several properties are conjunctions of named parts; the parts are given here.

* **store** - `DataVisible`: a capture with data in it is listed by the running
  daemon and by the manifest the next one will read, whatever failed, crashed or
  was recovered. `WriterIsCurrent`: the index points at the recording being
  written however the vector changes. `SizeWithinCapture`: the size listed for
  it never exceeds what was written. `CaptureNeverTruncated`.
  `ImplementsPromise`: the refinement of AbstractStore. 280 thousand states.
* **diag** - `UserStopHolds`; `DisplayIsRight` (a recording line means a
  recording, and the level shown is the one new events are compared with, so none
  is swallowed); `FinishedAnnounced`; `RecorderInv` (a recording in progress keeps
  its entry and its report, unless the shutdown thread closed the entry);
  `PruneSparesFindings`. 272 thousand states up to symmetry.
* **analysis** - two clients that hang up, a channel that fills, any name asked
  for, failing reads, the diag task ending and deleting recordings. `QueueInv`
  (a recording waits or runs once; the assertion in `dequeue_to_running` and the
  removal from the queue are safe). `WaitingIsCounted` (no lost wake-up).
  `SettledReportIsTrue` (no report calls a recording with findings clean once its
  analysis is over). `QueuedIsAnalysed`.
* **shutdown** - `ShutdownCorrect`: a signal ends both tasks, whatever is in front
  of the message, whoever has the locks and whichever task has ended before, or one
  of the two standstills of section 6 is reached.
* **notifications** - `AlertsAreSpaced` (the server gets a detection a debounce
  period after the one before, or, if that one was not confirmed, after the delay of
  a retry); `DetectionIsReported` (a detection is
  delivered, or was replaced or silenced by another warning, see section 6);
  `WorkerKeepsUp` (what is noted is delivered and a full channel gets room again,
  so no sender waits for good). 159 thousand states.
* **webdav** - `UploadInv` (what is marked is on the server in full),
  `DeletedIsOnServer`, `WorkerProgress` (every eligible recording gets its turn,
  and the shutdown token ends the worker). 126 thousand states.
* **storage** - `NeverSilent`: no order of pulls, insertions, mounts, checks and
  moves leaves the device without a recording. `FollowsCard`: a card that is gone
  is given up, one that is there and has room is taken up. Both as long as the
  monitor's status names the store (section 6). 284 thousand states.
* **pairing** - `ToldIsKept`: a browser that was told it is paired stays so until
  somebody revokes it. `RevokedIsGone`: a device whose revocation was confirmed does
  not come back, restart or not. `OwnerKept`: the passphrase confirmed to the owner
  is the one in force. Each in memory always, and in the file while the store is
  `sound` (section 6). `PairingInv` with `CodeUsedOnce`: a code pairs one device. 3.4
  million states up to symmetry and a view.
* **screen** - `ScreenInv` with `SetupCodeIsTrue`: after a claim was confirmed no
  window is open and no setup code is on the screen, and the code on the screen is
  the open window's. `BannerTellsWindows`: the terminal's line stays exactly as
  long as the longest window. 2.1 million states.
* **detectors** - `IdentityRequestsTold`: an identity request followed by a
  rejection without authentication is told, at the level heuristics.md gives, and
  one that stays unanswered is noted. `FlashCatchTold`: a run of forged challenges
  is told, and once. `LocationWarnedOnce`: once per LPP transaction and again when
  its number is used anew. `DowngradeJudged`, `JumpIsOneCell`, `SilenceIsReal`:
  exactly when the broadcasts, the distances of one cell, and the timestamps say
  so. 1.4 million states.
* **capture** - `LiveIsExact`: the live analysis gets the messages that were sent,
  each once and in order, whatever bytes they and their checksums hold.
  `ReadIsGenuine`: a reader returns what the file holds and at most one error for
  a cut frame. `LiveIsReplayed`: what was analysed live before the reader was
  opened is in what it returns. 602 thousand states.

Failing: **analysis_prune**, a disagreement with the repository's own words
(section 6).

Deadlock checking is off where the system may rest: no request need ever come,
every name may have been used, a task that has exited does nothing.

## 4. Bounds

* Two recordings (`Names`) everywhere. Every property relates one recording to
  another: the deleted to the current, the pruned to the running, the queued to
  the live, the refused to the next. Removing an entry in front of the current
  one, which is what moves the index, needs two. The theorems do not depend on
  the number.
* `MaxBytes = 1`: a capture is empty or not. `MaxEntries = 2` in the store; a
  name that repeats fills both.
* `MaxSeverity = 1`: below and above the threshold at which a warning appears;
  handlers compare severities only with `>`.
* `MaxPruned = 1` recording per clean-up: more are more turns of the same loop.
  The theorems about DiagTask have clean-ups of any length.
* Stop reasons: none in the store run, one in the diag run. No property reads
  them; the proofs have any set.
* Channel to the analysis thread: 2 (5 in the code) with 3 requests, so that it
  fills early and messages still come.
* Shutdown: the real capacities 1 and 5, and 2 requests of other tasks, to the diag
  task or for a re-analysis. Recordings that reach a limit end as often as they like,
  so the channel of five fills.
* Notifications: channel 2 (10 in the code), the back-off doubles once
  (`MaxFailures`; the code counts failures without a bound and doubles at most eight
  times), detections have the longest debounce period, longer than the longest
  retry delay.
* WebDAV: two kinds of file (the worker treats all but the capture alike), two
  faults.
* Storage: one card, internal storage, a bounded number of calls that fail for no
  visible reason (two); room is ample, low or, on the card, none, which is what
  guards tell apart.
* Pairing: two requests at a time (each property is about one overtaking the
  other), two cookies, one code, one fault or restart, two dropped saves
  (`MaxLate`), passphrases `p1` and the account's. The run starts with these bounds
  partly used up, in three ways (`Starts`): codes and a fault without dropped saves,
  one dropped save with a fault, two without; with all of them at once the state
  space is out of reach. The view leaves out what nobody reads: `auth.tmp` while no
  save has it open, since the next begins by truncating it, and the auth file while it
  is `raced` and no restart is left. Screen: two browsers, two codes, two wrong codes
  (the first is counted, the second closes the window), the terminal's window 2 ticks with a
  cap of 3, so that extensions reach the cap.
* Detectors: one recording per detector with memory, with the messages it tells
  apart, up to 5 to 7 packets, and one with all detectors on; thresholds scaled
  down (3 instead of 50 messages, windows of 2, 2 cells) so that each is passed
  within a recording.
* Capture: two containers out of five, which hold both special bytes in messages
  and in checksums (the checksum of `10 65` begins with an escape, that of `10 d3`
  ends in a terminator), an unreadable message, noise, and pieces that end within
  a frame; the file cut at every byte.

## 5. Fairness

Only the modules with liveness properties state any.

* *The runtime polls every task that can go on* (weak fairness of a task's
  steps), and tokio's mutexes and `RwLock` are fair queues, so a task that waits
  for a lock which is free again and again gets it (strong fairness of the steps
  that take a lock). Nothing is assumed of a holder that waits for room in a channel
  but that it sends once there is room; the other readers of the store's lock wait for
  nothing the modelled tasks have and let go of it (weak fairness of
  `ReaderUnlocks`). The same holds for room in a channel, whose senders queue up
  (strong fairness of `SendSwitch` in StorageMonitor).
* `select!` picks a ready branch at random: a message that stays in the channel
  is received although containers keep coming (strong fairness of
  `SelectRequest`), and the shutdown token is noticed although the interval keeps
  ticking (strong fairness of `Stop` in WebdavUpload).
* HTTP requests have a timeout, so an upload or a delivery ends. That a delivery
  tried again and again succeeds in the end (`Deliver(t, "sent")`) is an
  assumption on the network, without which no such system delivers.
* Requests, signals, new recordings, hang-ups, the card and the firmware have no
  fairness.

## 6. Disagreements

Shown by a run:

* *analysis_prune*: while a recording with findings is re-analysed its report
  consists of the metadata line for a while, outside the store lock; a clean-up
  in between takes it for clean and deletes the recording (`analysis.rs:191`
  against `cleanup.rs:22`).

Excepted by name in a property that otherwise holds; each exception is exactly
the states described:

* `QueuedIsAnalysed` (`Stuck`): a request that finds the channel full waits with
  both locks held, which the thread needs before it receives again
  (`analysis.rs:351`); the diag task sends the end of a recording with the store's
  write lock held (`diag.rs:421`). Also excepted: a read error panics the
  analysis thread, and a client that hangs up while its request waits for room
  leaves a queued name without a message.
* `SignalEndsDaemon` (`DiagWedged`): with a message in the diag task's channel of one
  and the task in a handler, the shutdown thread waits for room holding the lock
  the handler waits for (`main.rs:525`).
* `SignalEndsDaemon` (`AnalysisWedged`): the channel of the analysis thread is full,
  the thread waits for a lock, and the holder waits for room: `start_analysis` with
  both locks, `finish_current_entry` (`diag.rs:419-428`) or the shutdown thread with
  the store's. A signal then ends nothing.
* `FinishedAnnounced` and `RecordingHasEntry` (`closed`): the shutdown thread closes
  the current entry while the diag task records (`main.rs:514-519`). A container that
  waits for the lock is written, its size cannot be noted, the recording is stopped,
  and `finish_current_entry` finds no entry whose end it could announce.
* `AlertsAreSpaced` (`Unanswered`): a delivery that was not confirmed within ten
  seconds counts as failed and is repeated one or two seconds later, though the
  server may have it (`notifications.rs:169-193`). doc/configuration.md:83 says
  "Alerts will be sent at most once every five minutes."
* `ToldIsKept`, `RevokedIsGone`, `OwnerKept` (`raced`): a client hangs up while its
  save waits for the thread pool; its lock is free, and the next request's save opens
  the same `auth.tmp` (`tls.rs:587`). If the older rename comes then, it publishes a
  file that was just truncated, and a restart finds a unit without owner or devices;
  if the older write comes then, a device that was revoked is back in the file, or the
  file does not parse. `tls.rs:579` says "Write a file so that it is either entirely
  there or not there at all." It needs two saves in flight at once, and the next save
  that has the file to itself repairs it.
* `DetectionIsReported`: low-space messages have the type of detections. One that
  arrives later replaces a detection that waits; its delivery silences one that
  follows (`notifications.rs:142`; doc/configuration.md:83 speaks of types).
* `ShownRecordingIsReal`: an error from the diag device ends the task without a
  word to the display, which keeps its green line while nothing records
  (`diag.rs:1157`; doc/configuration.md:10).
* `NeverSilent` and `FollowsCard` (`StatusTellsStore`): a move that has opened the
  new store and then cannot start a recording answers with an error; the monitor
  then keeps the old place in its status and, when that is where it wants to be,
  never asks again, while the store stays where it went (`diag.rs:476`,
  `storage.rs:698`). `storage.rs:88` says of the field "Where recordings are going
  right now."
* `CardTakenUp`: a card that comes back under the device name of a dead mount is
  judged unusable, and the mount is not detached.
* `SettledReportIsTrue` (`spoiled`): a re-analysis that fails after the metadata
  line leaves a report that reads as clean.

Met while modelling:

* *Recording.* A start refused for lack of space while a recording runs puts
  *Paused* on the display and the recording goes on (`DisplayShowsWorst` excepts
  that state). `switch_store` starts the next recording through `start`, so the
  device's own move to a card clears a warning which the comment on `rotate` wants
  kept "until a recording is started by hand". A row that cannot be written drops
  its finding, and the report still reads as clean. On a signal the entry is
  closed before the diag task closes the capture, so the capture's final length
  is not saved; `SizeWithinCapture` is one-sided. After a clock that went back, an
  entry whose capture could not be deleted completely and a new recording may
  share a name; `DataVisible` and `CaptureNeverTruncated` hold all the same.
* *Upload.* A recording the server refuses for good keeps every newer one from
  being uploaded; `EligibleIsUploaded` excepts those behind it.
* *Card.* A card that is unmounted and mounted again between two looks leaves a
  recording that stopped meanwhile stopped (`excused`). When the card's store
  cannot be opened, each retry, every three seconds, closes the internal recording
  and starts another. A store may be created under a mount point nothing is
  mounted on.
* *Pairing.* A save that fails in `finish_setup` leaves the setup window open with
  the unit owned in memory, until a restart. A passphrase change whose save fails
  is reported as failed and in force until then. A save that fails, or too many
  devices, uses up an add-a-device code.
* *Screen.* Confirming one browser's step-up, or closing the setup window, takes
  another browser's step-up code off the screen. A press request covers the setup
  code, which does not come back. A code shown again after a fingerprint view
  stays up to fifteen seconds longer than its window. `clear_banner` takes down a
  standing "PAIRING STORE DAMAGED" or "WEB OPEN: NO TLS". With the display
  invisible, or under an override, the terminal's line is not seen, though
  `stepup.rs:13` says the screen says so.
* *Detectors.* Where the count of an open identity request runs out on the very
  message that raises the High alarm, the informational note replaces the alarm
  (`imsi_requested.rs:309`). FlashCatch has one `reported` for both kinds of
  failure, so a Medium for re-synchronisation mutes a High for forged challenges
  in the same run (`flash_catch.rs:139`). The tracking detector does not free a
  transaction's number on an Abort, because it returns for messages without
  location details before it looks at the end (`lpp.rs:748`), while `lpp.rs:646`
  promises "Same bound and lifetime as the basic analyzer's map"; a later
  tracking request under the number is only informational. A request for a
  re-established connection breaks the chain of an identity request.
* *Capture.* A reader opened on a file that is still empty takes it for an
  uncompressed capture (`qmdl.rs:148`), and if the writer flushes meanwhile,
  returns noise (`ReadRaw`). Where a piece ends within a frame, the live analysis
  splits at the piece and the reader does not: `LiveIsReplayed` excepts captures
  with such a piece (`torn`). Nothing is synced to the flash, so it also excepts
  a loss of power.

## 7. Proofs

Each `...Proofs` module proves theorems about the specification of its component
for every value of the constants: any finite set of recordings, any set of
requests, browsers or clients, every capacity and every bound. The assumptions are
those of the modules, named there and evaluated by TLC in the runs: names are
positive numbers, bounds and periods natural numbers, switches Boolean, clients are
none of the tasks that share their locks (`ClientsAssumption`), a configured upload
has its mark (`MarksAssumption`), `2 ^ MaxFailures` is a natural number
(`PowerAssumption`: arithmetic the provers do not have), and what the parsers hand to
the detectors has the shape they give it (`ElementsAssumption`: timestamps and packets
are counted from zero, a network has a number, a priority is a u8, an LPP message that
cannot be read belongs to no transaction, the detail of one that can is decoded
according to its body). Every inductive invariant
was an invariant of the component's run before it was proved.

`StoreOpsProofs` has the lemmas about the operations on a manifest, which three of
the other modules cite: `DeleteEntry` keeps every other entry and moves the index
with its entry, `DeleteEntries` does so for any set of entries that spares the
current one, `RetainOnly` keeps exactly the kept names, sizes, reasons and marks
change no name, `InOrder` lists every member of a finite set (by counting the
members up to each).

### RecordingStoreProofs

`StoreTypeCorrect`, `StoreDataVisible`, `StoreWriterIsCurrent`,
`StoreSizeWithinCapture` (each `Spec => []...` of the property it is named for),
`StoreCaptureNeverTruncated`, and `StoreImplementsPromise`: RecordingStore
implements AbstractStore.

`DataVisible` is not inductive: `WriteContainer` puts data into a capture that
was empty, so an empty capture that is being written has to be listed already.
`IndInv` adds that (`new_entry` saves the manifest before anybody writes), that a
running daemon has a manifest on disk (so a manifest write that fails leaves the
old one, which listed everything that holds data), that a stopped one has no
entries in memory, and that a directory which does not exist holds no files. The
proof has one lemma per action. That a deletion never hides data rests on
`delete_entry` removing the capture first and the entry last; that recovery lists
every capture rests on `InOrder` leaving none out. `SizeWithinCapture` needs `IndInv`,
by which the current entry is the writer's. For `CaptureNeverTruncated` a smaller invariant is
enough, `NoFileNoBytes`: a name without a capture file has no bytes, so the zero
`new_entry` starts with takes nothing away.

The refinement has one lemma per action that names the abstract step: `new_entry`,
whatever fails in it, is a `Begin`, `WriteContainer` a `Grow`, the end of a
recording a `Finish` (or a `Grow` that finishes), deletions `Erase` what they
removed, and a `Crash` is a `Restart`, which may change only what holds no data;
that it does not change more is where `DataVisible` is needed. `OpenOrRecover` is
not seen at all: what a client is shown after a crash is already what recovery will
list.

### DiagTaskProofs

`RecordingKeepsItsEntry` (`RecorderInv`), `StopIsObeyed` (`UserStopHolds`),
`DisplayAgrees` (`DisplayIsRight`), `EveryEndIsTold` (`FinishedAnnounced`),
`FindingsAreSpared` (`PruneSparesFindings`).

A handler is a composition of functions of the world, so the invariant is one of
worlds, and there is a lemma per function instead of per action. `WorldInv` holds
between any two calls inside a handler; `Announced` and the two halves of
`DisplayOK` may fail on the way and hold again at its end (`Sound`). The
strengthening: a report reads as clean only while nothing was found
(`CleanIsClean`), which is what makes `verdict_for` right; names never lie ahead of
the clock, in this store and in those it left, and nothing was found in a recording
of the future (`NamesPassed`), so a new recording takes over nobody's report and
nobody's findings. Three relations carry the argument: `Ended` (after
`finish_current_entry`), `Lighter` (after deletions, a clean-up of any length, or a
mark: the current recording keeps its entry and its report) and `Restated` (only the
display and what the task remembers of it changed). Dropping the exception for
labels, resuming after a user's stop, or rotating without showing the carried
severity each breaks the proof in the lemma of that function. `ShutdownClose` is the
one step that takes the entry from a recording in progress: from then on the writers'
recording is `closed`, and every lemma about the rest of a handler is proved for both
(`Written`).

### AnalysisPipelineProofs

`QueueSound` (`QueueInv`), `NoLostWakeUp` (`WaitingIsCounted`), `ReportsSettleTrue`
(`SettledReportIsTrue`). The invariant says who holds which lock at which point
(`LockInv`), that the turns the thread has left never exceed the names that wait,
because only the thread takes names off (`ThreadInv`), and that a report of a
recording in which something was found reads clean only between its first line and
its rows (`ReportInv`).

### WebdavUploadProofs

`UploadsAreWhole` (`UploadInv`), `DeletionsLoseNothing` (`DeletedIsOnServer`). What
the worker read under the lock stays true without it: the recording being sent is
finished, so its capture keeps the size it was opened with, and if it is deleted its
name does not come back (`SendingInv`, `MarkedInv`).

### PairingProofs

`TrustIsKept` (`ToldIsKept`), `RevocationIsFinal` (`RevokedIsGone`),
`FirstContactOnce` (`OwnerKept`), `PairingSound` (`PairingInv`), for any number of
requests and of operations left behind by dropped ones. They follow together from
one invariant in two parts. `MemInv` is about what is behind the lock and needs nothing
of the file: the request that holds the lock is the one that saves, and what it saves
is the memory (`LockInv`); cookies and codes that occur were issued, so the next is new
(`IssuedInv`); what a request under way will tell its browser is already in memory
(`SaverInv`, `OwnerInv`); a code is live, taken by one request, or used (`CodeInv`).
`FileInv` is about the texts in `auth.tmp`, the auth file and the operations still to
come. Each text is sane whatever raced; while the store is `sound`, `SoundInv` says in
addition that the file agrees with what was told, that a save which has `auth.tmp` open
is alone with it and renames what it wrote, and that a rename left behind would publish
a text that agrees, with no other operation on it to come but an open. An open with
such an operation still to come (`SaveOpened`, `LateOpen`) is the only step that gives
`SoundInv` up; a save that had the file to itself, or a restart, establishes it again.

### ScreenAlertProofs

The two ways in which the unit reaches its owner. Of the screen: `SetupCodeTrue`
(`ScreenInv`), `BannerIsRight` (`BannerTellsWindows`). What the screen shows of setup
and what it says of the terminal touch different state, so each half has an invariant
of its own, inductive with its types. The line's is about a maximum, which exists
because a window has a bounded time left, however many browsers there are.

Of the notification worker, which shares no state with the screen: `AlertsKeepDistance`
(`AlertsAreSpaced`). The worker compares a detection with the last *confirmed* delivery of
its *type*, the property with the last time the server got a *detection*, and there may
be any number of retries between the comparison and the delivery. `WorkerInv` adds to the
types that what is delivered was asked for (`TodoNeeds`), that the outcome of the
comparison holds through the retries (`WaitingIsDue`), and that a detection the server
has without the worker knowing was tried no longer ago than the server got it
(`UnansweredIsTried`), so that the retry delay bounds the distance.

### HarnessProofs

`IdentityRequestsAlwaysTold` (`IdentityRequestsTold`), `FlashCatchAlwaysTold`
(`FlashCatchTold`), `LocationAlwaysWarnedOnce` (`LocationWarnedOnce`),
`DowngradeAlwaysJudged` (`DowngradeJudged`), `JumpIsAlwaysOneCell` (`JumpIsOneCell`),
`SilenceIsAlwaysReal` (`SilenceIsReal`): for recordings of any length, with every
combination of detectors turned on, and for every threshold, window and timeout.

The properties speak of the newest row and of all rows before it, a detector sees the
newest row and its memory, so none of them is inductive. The proof goes packet by
packet: for every detector that keeps something, an invariant says what it keeps in
terms of the report, and one lemma shows that a new row keeps the invariant and is
answered as the property asks.

| invariant | what the memory is |
|---|---|
| `ImsiInv` | the state is the open identity request, the networks are those last named, and the counter is no lower than the age of the last request unless that was noted: it may be higher, since earlier requests leave it as it is |
| `FlashInv` | the tracked failures are all those still within the window, and `reported` holds exactly when the run a next failure could continue has its warning |
| `RequestInv` | exactly the transactions that moved location information and are not over |
| `TrackingInv` | at least those of them that were warned about |
| `DowngradeInv` | the highest priorities of all broadcasts since the last SIB1 |
| `TimingInv` | the cell camped on, and for each cell a distance that was heard from it |
| `SilenceInv` | the last timestamp, and the earliest since which the clock has been steady |

The hard one is `FlashInv`: `prune` clears `reported` when no failure is recent, while
the property says of two failures at any distance whether they belong to one run.
`Chained` leaves open how long the last failure is ago, and `StillIsLinked` shows that
`reported` survives `prune` exactly when the new failure belongs to the run of an
earlier warning. In `SilenceInv`, "steady" is about neighbouring timestamps with
packets between them that have none; `SteadyGrows` adds one timestamp at the end.

### Only model-checked

Every liveness property (`QueuedIsAnalysed`, `ShutdownCorrect`, `DetectionIsReported`,
`WorkerKeepsUp`, `WorkerProgress`, `NeverSilent`, `FollowsCard`): fairness and
ENABLED are out of the prover's reach. The properties of CaptureFormat (`LiveIsExact`,
`ReadIsGenuine`, `LiveIsReplayed`): that decoding a frame gives back what was encoded is
about what recursive functions over byte strings compute, which needs induction over
data, and the provers here do not have it. They are checked against reference
definitions over bounded inputs.

## 8. Not modelled

Cell tracking and the contents of the GPS file in the diag task; the web
listeners, the restart loop and start-up order of `main.rs`; the branch of
`start_analysis` for an empty name, which no route reaches; the sends to the
display and to the notification worker as something the shutdown can wait for (the
worker always gets round to its channel, `WorkerKeepsUp`, and the display's task
waits for nothing); power that fails between a write and its way to the flash in the
pairing store; the mode without TLS and the web accounts of `web_auth.rs`; the recognition of a card in `/proc/mounts`;
the bodies of log messages and their conversion to GSMTAP, and the requests that
set the modem's log mask; certificates, mDNS and redirects; configuration and log
formats; drawing and display drivers; the scores of `radio/`, which are
arithmetic on records without concurrency; generated ASN.1 code (half of the
repository's lines), installers and the browser front end. `PROJECT.json` lists
every part with its reason.

## 9. Plan

Done: StoreOps, RecordingStore with AbstractStore, DiagTask, AnalysisPipeline,
Shutdown, Notifications, WebdavUpload, StorageMonitor, Pairing, Screen, Detectors
and Harness, CaptureFormat; the proofs of section 7.

Next, in this order:

1. *TLS identity* (`tls.rs`): key and certificate written one after the other, a
   crash in between, renewal.
2. The restart loop around Shutdown.
3. The scores of `radio/src/persistence.rs` against reference definitions.
