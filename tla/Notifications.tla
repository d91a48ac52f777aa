---------------------------- MODULE Notifications ----------------------------
(***************************************************************************)
(* The notification worker (daemon/src/notifications.rs).  Tasks put       *)
(* notifications into a bounded channel; the worker keeps one status per   *)
(* notification type, holding the one message it will send next, drops     *)
(* what comes within a debounce period of the last delivery, and retries   *)
(* failed deliveries with a growing delay.                                 *)
(*                                                                         *)
(* Notifications of several kinds share a type: the diag task reports      *)
(* detections, a disk that runs low and a recording it had to stop, all as *)
(* Warning.  Time is counted in ticks, and ages only up to MaxAge.         *)
(***************************************************************************)
EXTENDS Naturals, Sequences

CONSTANTS
    Kinds,       \* the kinds of notification the tasks send
    TypeOf,      \* NotificationType of each kind
    Debounce,    \* its debounce period in ticks, 0 for None
    Enabled,     \* enabled_notifications
    Detection,   \* the kind the detectors send
    Capacity,    \* of the channel: 10 in the code
    MaxFailures  \* the failures after which the delay grows no more: 8

ASSUME KindsAssumption ==
    /\ Detection \in Kinds
    /\ DOMAIN TypeOf = Kinds
    /\ Debounce \in [Kinds -> Nat]
ASSUME ChannelAssumption == Capacity \in Nat \ {0} /\ MaxFailures \in Nat
\* Arithmetic that the provers do not know.
ASSUME PowerAssumption == \A n \in 0..MaxFailures : 2 ^ n \in Nat

Types == {TypeOf[k] : k \in Kinds}
MaxAge ==
    IF 2 ^ MaxFailures > Debounce[Detection] THEN 2 ^ MaxFailures ELSE Debounce[Detection]
Never == MaxAge + 1        \* the age of what has not happened

VARIABLES
    channel,   \* notifications not yet received
    status,    \* NotificationStatus of each type
    worker,    \* what the worker does
    todo,      \* the types it has not looked at in this round
    reported,  \* history: ticks since the server last got a detection
    owed       \* history: a detection came with nothing of its type delivered in its
               \* period, and nothing of its type was delivered since

workerVars == <<channel, status, worker, todo, reported, owed>>

NoMessage == "none"
Ages == 0..Never

\* failed counts as far as the delay grows; the code caps it where it is used.
WorkerTypeOK ==
    /\ channel \in Seq(Kinds) /\ Len(channel) <= Capacity
    /\ status \in [Types -> [message: Kinds \cup {NoMessage}, needs: BOOLEAN,
                             sent: Ages, tried: Ages, failed: 0..MaxFailures]]
    /\ worker \in {"drain", "send", "sleep"}
    /\ todo \subseteq Types
    /\ reported \in Ages
    /\ owed \in BOOLEAN

WorkerInit ==
    /\ channel = <<>>
    /\ status = [t \in Types |-> [message |-> NoMessage, needs |-> FALSE,
                                  sent |-> Never, tried |-> Never, failed |-> 0]]
    /\ worker = "drain"
    /\ todo = {}
    /\ reported = Never
    /\ owed = FALSE

-----------------------------------------------------------------------------
\* A task sends a notification; it waits while the channel is full.
Notify(k) ==
    /\ Len(channel) < Capacity
    /\ channel' = Append(channel, k)
    /\ owed' = (owed \/ (k = Detection /\ TypeOf[k] \in Enabled
                         /\ status[TypeOf[k]].sent >= Debounce[k]))
    /\ UNCHANGED <<status, worker, todo, reported>>

\* A slip: the debounce period is counted from the last failure.
PassesByAttempt(k) ==
    TypeOf[k] \in Enabled /\ status[TypeOf[k]].tried >= Debounce[k]

\* A notification is noted unless its type is off or was delivered within the
\* debounce period.
Passes(k) == TypeOf[k] \in Enabled /\ status[TypeOf[k]].sent >= Debounce[k]

\* What a status becomes when k is noted as the next message of its type.
Note(s, k) == [s EXCEPT !.message = k, !.needs = TRUE]

\* Only the newest message in the channel is noted.
DrainNewest ==
    LET k == channel[Len(channel)]
    IN /\ worker = "drain"
       /\ channel' = <<>>
       /\ status' = IF channel = <<>> \/ ~Passes(k) THEN status
                    ELSE [status EXCEPT ![TypeOf[k]] = Note(@, k)]
       /\ worker' = "send"
       /\ todo' = {t \in Types : status'[t].needs}
       /\ UNCHANGED <<reported, owed>>

\* The try_recv loop: it does not await, so no task sends meanwhile.  Of the
\* notifications of a type that pass, the last one stays noted.
Drain ==
    LET passing(t) == {i \in DOMAIN channel : TypeOf[channel[i]] = t /\ Passes(channel[i])}
        last(t) == CHOOSE i \in passing(t) : \A j \in passing(t) : j <= i
    IN /\ worker = "drain"
       /\ channel' = <<>>
       /\ status' = [t \in Types |-> IF passing(t) = {} THEN status[t]
                                     ELSE Note(status[t], channel[last(t)])]
       /\ worker' = "send"
       /\ todo' = {t \in Types : status'[t].needs}
       /\ UNCHANGED <<reported, owed>>

\* The delay before the next attempt, doubling with every failure.
MinWaitTime(t) == 2 ^ status[t].failed

Skip(t) ==
    /\ worker = "send" /\ t \in todo
    /\ status[t].tried < MinWaitTime(t)
    /\ todo' = todo \ {t}
    /\ UNCHANGED <<channel, status, worker, reported, owed>>

\* send_notification giving up for good once the delay no longer grows.
DeliverOrGiveUp(t, outcome) ==
    /\ worker = "send" /\ t \in todo
    /\ status[t].tried >= MinWaitTime(t) /\ status[t].failed < MaxFailures
    /\ todo' = todo \ {t}
    /\ status' = [status EXCEPT ![t].failed = IF outcome = "sent" THEN 0 ELSE @ + 1,
                                ![t].needs = outcome # "sent",
                                ![t].sent = IF outcome = "sent" THEN 0 ELSE @,
                                ![t].tried = IF outcome = "sent" THEN @ ELSE 0]
    /\ UNCHANGED <<channel, worker, reported, owed>>

\* What comes of a delivery: the server has it and says so; it does not have
\* it; it may have it, but its answer is an error or comes too late.
Outcomes == {"sent", "lost", "unanswered"}

\* send_notification.  For the worker the last two outcomes are the same
\* failure, and it sends the message again.
Deliver(t, outcome) ==
    /\ worker = "send" /\ t \in todo
    /\ status[t].tried >= MinWaitTime(t)
    /\ todo' = todo \ {t}
    /\ reported' = IF outcome # "lost" /\ status[t].message = Detection THEN 0
                   ELSE reported
    /\ IF outcome = "sent"
       THEN /\ status' = [status EXCEPT ![t].sent = 0, ![t].failed = 0,
                                        ![t].needs = FALSE]
            /\ owed' = (owed /\ t # TypeOf[Detection])
       ELSE /\ status' = [status EXCEPT ![t].tried = 0,
                            ![t].failed = IF @ < MaxFailures THEN @ + 1 ELSE @]
            /\ UNCHANGED owed
    /\ UNCHANGED <<channel, worker>>

EndOfRound ==
    /\ worker = "send" /\ todo = {}
    /\ worker' = "sleep"
    /\ UNCHANGED <<channel, status, todo, reported, owed>>

Wake ==
    /\ worker = "sleep"
    /\ worker' = "drain"
    /\ UNCHANGED <<channel, status, todo, reported, owed>>

Older(age) == IF age < Never THEN age + 1 ELSE age

TimePasses ==
    /\ status' = [t \in Types |-> [status[t] EXCEPT !.sent = Older(@),
                                                    !.tried = Older(@)]]
    /\ reported' = Older(reported)
    /\ UNCHANGED <<channel, worker, todo, owed>>

WorkerStep ==
    \/ Drain \/ EndOfRound \/ Wake
    \/ \E t \in Types : Skip(t) \/ \E outcome \in Outcomes : Deliver(t, outcome)

WorkerNext == (\E k \in Kinds : Notify(k)) \/ WorkerStep \/ TimePasses

\* The worker runs, time passes, and the server accepts a delivery sooner or
\* later if it is tried again and again.
Fairness ==
    /\ WF_workerVars(WorkerStep) /\ WF_workerVars(TimePasses)
    /\ \A t \in Types : SF_workerVars(Deliver(t, "sent"))

WorkerSpec == WorkerInit /\ [][WorkerNext]_workerVars /\ Fairness

-----------------------------------------------------------------------------
\* The server gets a detection.
Alert ==
    \E t \in Types, outcome \in {"sent", "unanswered"} :
        status[t].message = Detection /\ Deliver(t, outcome)

\* The worker knows of no delivery since the server last got a detection: the
\* answer to that one did not come.
Unanswered == status[TypeOf[Detection]].sent > reported

\* The server gets a detection a debounce period after the one before, whatever
\* failed, was retried or was replaced meanwhile; or, when the one before was
\* not answered, after the delay of a retry (run_notification_worker).
AlertsAreSpaced ==
    [][Alert => \/ reported >= Debounce[Detection]
                \/ Unanswered /\ reported >= MinWaitTime(TypeOf[Detection])]_workerVars

\* What the worker has noted is delivered in the end, however often delivery
\* fails first (run_notification_worker).
PendingIsDelivered == \A t \in Types : status[t].needs ~> ~status[t].needs

\* Warnings "alert when a heuristic is triggered" (doc/configuration.md): a
\* detection that comes when nothing of its type was delivered in its period
\* is followed by a delivery of its type, of itself or of what replaced it
\* while it waited (run_notification_worker).
DetectionIsReported == owed ~> ~owed

\* A full channel is emptied, so that a task that waits to send, with the lock
\* of the store held, goes on however long the server stays away
\* (process_container_inner, send_notification's timeout).
ChannelDrains == Len(channel) = Capacity ~> channel = <<>>

\* run_notification_worker keeps up: neither what it noted nor what is in its
\* channel stays there.
WorkerKeepsUp == PendingIsDelivered /\ ChannelDrains
=============================================================================
