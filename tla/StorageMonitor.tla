--------------------------- MODULE StorageMonitor ---------------------------
(***************************************************************************)
(* Where recordings go (daemon/src/storage.rs): a task looks at the memory *)
(* card every few seconds, mounts it or detaches a dead mount, and asks    *)
(* the diag task to move the recording store when the card comes or goes.  *)
(* The diag task has its own view: a writer whose mount is gone fails, and *)
(* the move is made some time after the look it was decided on.            *)
(*                                                                         *)
(* The diag task is reduced to which store it has and whether it records   *)
(* (DiagTask has the rest).  The card, the firmware that mounts and        *)
(* unmounts it, and the calls that fail are the environment.               *)
(***************************************************************************)
EXTENDS Naturals

CONSTANT MaxFaults   \* bound on the calls that fail for no visible reason,
                     \* and on the firmware's unmounting

ASSUME FaultsAssumption == MaxFaults \in Nat

VARIABLES
    mount,          \* what /proc/mounts and /dev say of the card
    room,           \* the space left in each place
    monitor,        \* what the monitor does
    check,          \* the Check it made
    status,         \* StorageStatus: active_path and removable
    inbox,          \* the channel to the diag task, of capacity 1
    answer,         \* the diag task's response to a switch
    store,          \* qmdl_store.path
    rec,            \* DiagState, and what its writers still reach
    stoppedByUser,  \* stopped_by_user
    faults,         \* the failures so far
    excused         \* history: the last recording ended, or was refused, for
                    \* want of room, for a failed call, or because the
                    \* system mounted the card again behind the monitor

monVars == <<monitor, check, status>>
diagVars == <<store, rec, stoppedByUser>>
worldVars == <<mount, room>>
vars == <<mount, room, monitor, check, status, inbox, answer, store, rec,
          stoppedByUser, faults, excused>>

Places == {"internal", "card"}

\* "out": no card, nothing mounted; "in": a card nobody mounted; "live": a
\* mounted card; "dead": a mount whose card was pulled; "swapped": such a
\* mount, and a card is in again under another device name; "back": under the
\* name the dead mount has.
Mounts == {"out", "in", "live", "dead", "swapped", "back"}
CardIn == mount \in {"in", "live", "swapped", "back"}

RemovableState == {"Present", "Missing", "Unusable"}

\* "Live": the writers reach the disk; "Dead": their mount is gone; "Under":
\* they write to the directory the card is mounted over.
Recordings == {"Stopped", "Live", "Dead", "Under"}

\* "low": no recording may start, and one that runs is stopped; a "full" card
\* takes no write at all.
Rooms == [internal: {"ample", "low"}, card: {"ample", "low", "full"}]

TypeOK ==
    /\ mount \in Mounts
    /\ room \in Rooms
    /\ monitor \in {"sleep", "detach", "mount", "again", "decide", "wait", "gone"}
    /\ check \in [state: RemovableState, remounted: BOOLEAN]
    /\ status \in [active: Places, removable: RemovableState]
    /\ inbox \in {"none", "Start", "Stop"} \cup Places
    /\ answer \in {"none", "ok", "err"}
    /\ store \in Places
    /\ rec \in Recordings
    /\ stoppedByUser \in BOOLEAN
    /\ faults \in 0..MaxFaults
    /\ excused \in BOOLEAN

-----------------------------------------------------------------------------
\* observe: whether the card's mount is listed, takes a write, and whether a
\* device is there (the mount's own, or any card when nothing is mounted).
Observation ==
    [mounted |-> mount \notin {"out", "in"},
     writable |-> mount = "live" /\ room["card"] # "full",
     device_present |-> mount \in {"in", "live", "back"}]

\* A slip: a mount that takes no write is unusable, whatever is behind it.
JudgeByMount(o) ==
    IF o.mounted THEN IF o.writable THEN "Present" ELSE "Unusable"
    ELSE IF o.device_present THEN "Unusable" ELSE "Missing"

\* judge: the decision, before any mounting is attempted.
Judge(o) ==
    IF o.mounted /\ o.writable THEN "Present"
    ELSE IF o.device_present THEN "Unusable" ELSE "Missing"

\* A slip: only a change of place is a reason to move.
DecideByPlace(previous, c, activeIsCard) ==
    IF (c.state = "Present") = activeIsCard THEN {}
    ELSE {IF c.state = "Present" THEN "card" ELSE "internal"}

\* decide_switch: the place to move to, if any.
DecideSwitch(previous, c, activeIsCard) ==
    LET wantCard == c.state = "Present"
        returned == wantCard /\ (previous # "Present" \/ c.remounted)
    IN IF wantCard = activeIsCard /\ ~returned THEN {}
       ELSE {IF wantCard THEN "card" ELSE "internal"}

Check(state, remounted) == [state |-> state, remounted |-> remounted]

\* choose_active and the opening of the store in run_with_config: the card
\* when it is usable and its store opens, internal storage otherwise.  The
\* first StartRecording is on its way.
Init ==
    /\ mount \in {"out", "in", "live"}
    /\ room \in Rooms
    /\ \E opens \in BOOLEAN :
         LET seen == Judge(Observation) IN
         /\ store = IF seen = "Present" /\ opens THEN "card" ELSE "internal"
         /\ status = [active |-> store,
                      removable |-> IF opens THEN seen
                                    ELSE IF seen = "Present" THEN "Unusable"
                                    ELSE seen]
    /\ monitor = "sleep" /\ check = Check("Missing", FALSE)
    /\ inbox = "Start" /\ answer = "none"
    /\ rec = "Stopped" /\ stoppedByUser = FALSE
    /\ faults = 0 /\ excused = FALSE

-----------------------------------------------------------------------------
(* The card and the firmware. *)

Fault == faults < MaxFaults /\ faults' = faults + 1
NoFault == UNCHANGED faults

\* A recording on the card loses it with its mount.
LosesMount == IF rec = "Live" /\ store = "card" THEN "Dead" ELSE rec

Pull ==
    /\ CardIn
    /\ mount' = IF mount = "in" THEN "out" ELSE "dead"
    /\ rec' = IF mount = "live" THEN LosesMount ELSE rec
    /\ UNCHANGED <<room, monVars, inbox, answer, store, stoppedByUser, faults,
                   excused>>

Insert ==
    /\ \/ mount = "out" /\ mount' = "in"
       \/ mount = "dead" /\ mount' \in {"swapped", "back"}
    /\ UNCHANGED <<room, monVars, inbox, answer, diagVars, faults, excused>>

SystemMounts ==
    /\ mount = "in" /\ mount' = "live"
    /\ excused' = (excused \/ (store = "card" /\ rec # "Live"))
    /\ UNCHANGED <<room, monVars, inbox, answer, diagVars, faults>>

SystemUnmounts ==
    /\ mount = "live" /\ mount' = "in"
    /\ rec' = LosesMount
    /\ Fault
    /\ UNCHANGED <<room, monVars, inbox, answer, store, stoppedByUser, excused>>

RoomChanges ==
    /\ room' \in Rooms
    /\ UNCHANGED <<mount, monVars, inbox, answer, diagVars, faults, excused>>

-----------------------------------------------------------------------------
(* The diag task. *)

\* start in place p, with the recording running that is still open: refused
\* without room, before running is closed; nothing can be created on a dead
\* mount; without a mount the directory under it may take the files.
Start(p, running) ==
    \/ /\ room[p] = "ample" /\ NoFault
       /\ IF p = "internal" \/ mount = "live"
          THEN rec' = "Live" /\ excused' = FALSE
          ELSE /\ rec' \in IF mount \in {"in", "out"} THEN {"Under", "Stopped"}
                           ELSE {"Stopped"}
               /\ UNCHANGED excused
    \/ /\ room[p] # "ample" /\ NoFault
       /\ rec' = running /\ excused' = (excused \/ running = "Stopped")
    \/ p = "card" /\ Fault /\ rec' = "Stopped" /\ excused' = TRUE

Started == rec' # "Stopped"

HandleStart ==
    /\ inbox = "Start" /\ inbox' = "none"
    /\ stoppedByUser' = FALSE
    /\ Start(store, rec)
    /\ UNCHANGED <<worldVars, monVars, answer, store>>

HandleStop ==
    /\ inbox = "Stop" /\ inbox' = "none"
    /\ stoppedByUser' = TRUE /\ rec' = "Stopped"
    /\ UNCHANGED <<worldVars, monVars, answer, store, faults, excused>>

\* switch_store: what records is closed first.  In the store already, or moved
\* to the one opened at p, a recording is started unless the user had stopped
\* it; when the store does not open, what was recording carries on in the old
\* one.
SwitchStore(p, opens) ==
    LET was == rec # "Stopped"
        resume == was \/ ~stoppedByUser
    IN
    \/ /\ p = store \/ opens
       /\ store' = p
       /\ \/ resume /\ Start(p, "Stopped") /\ answer' = IF Started THEN "ok" ELSE "err"
          \/ ~resume /\ NoFault /\ answer' = "ok" /\ UNCHANGED <<rec, excused>>
    \/ /\ ~(p = store \/ opens)
       /\ answer' = "err" /\ store' = store
       /\ IF was THEN Start(store, "Stopped")
          ELSE NoFault /\ UNCHANGED <<rec, excused>>

\* open_or_recover: the store on a live mount opens; on a dead one it does
\* not; without a mount a fresh one may be created in the directory under it.
Opens(p) ==
    IF p = "internal" \/ mount = "live" THEN {TRUE}
    ELSE IF mount \in {"in", "out"} THEN BOOLEAN ELSE {FALSE}

HandleSwitchStore ==
    /\ inbox \in Places /\ inbox' = "none"
    /\ \E opens \in Opens(inbox) : SwitchStore(inbox, opens)
    /\ UNCHANGED <<worldVars, monVars, stoppedByUser>>

\* The store of a mounted card does not open.
HandleSwitchFault ==
    /\ inbox = "card" /\ store = "internal" /\ faults < MaxFaults
    /\ inbox' = "none" /\ answer' = "err"
    /\ rec' = IF rec # "Stopped" /\ room["internal"] = "ample"
              THEN "Live" ELSE "Stopped"
    /\ excused' = (excused \/ (rec # "Stopped" /\ rec' = "Stopped"))
    /\ faults' = faults + 1
    /\ UNCHANGED <<worldVars, monVars, store, stoppedByUser>>

\* process_container_inner: the writers fail, or space is found low.
StopsOnContainer ==
    /\ \/ rec = "Dead"
       \/ rec = "Live" /\ room[store] # "ample"
    /\ rec' = "Stopped"
    /\ excused' = (excused \/ rec = "Live")
    /\ UNCHANGED <<worldVars, monVars, inbox, answer, store, stoppedByUser,
                   faults>>

User(m) ==
    /\ inbox = "none" /\ inbox' = m
    /\ UNCHANGED <<worldVars, monVars, answer, diagVars, faults, excused>>

-----------------------------------------------------------------------------
(* The monitor: check_removable, then the decision, then the answer. *)

\* The look that starts a check; it asks for a detach, a mount, or neither.
Observe ==
    /\ monitor = "sleep"
    /\ LET o == Observation IN
       /\ check' = Check(Judge(o), FALSE)
       /\ monitor' = IF Judge(o) = "Missing" /\ o.mounted THEN "detach"
                     ELSE IF Judge(o) = "Unusable" /\ ~o.mounted THEN "mount"
                     ELSE "decide"
    /\ UNCHANGED <<worldVars, status, inbox, answer, diagVars, faults, excused>>

\* umount -l of the dead mount (or of whatever is mounted there by now).
Detach ==
    /\ monitor = "detach" /\ monitor' = "decide"
    /\ \/ /\ mount' = CASE mount = "dead" -> "out"
                        [] mount \in {"swapped", "back", "live"} -> "in"
                        [] OTHER -> mount
          /\ rec' = IF mount = "live" THEN LosesMount ELSE rec
          /\ NoFault
       \/ Fault /\ UNCHANGED <<mount, rec>>
    /\ UNCHANGED <<room, check, status, inbox, answer, store, stoppedByUser,
                   excused>>

\* mount of the device that was there; it fails when it is gone, or mounted
\* by the system since.
Mount ==
    /\ monitor = "mount"
    /\ \/ mount = "in" /\ mount' = "live" /\ monitor' = "again" /\ NoFault
       \/ /\ \/ mount # "in" /\ NoFault
             \/ mount = "in" /\ Fault
          /\ monitor' = "decide" /\ UNCHANGED mount
    /\ check' = Check("Unusable", mount' = "live" /\ mount = "in")
    /\ UNCHANGED <<room, status, inbox, answer, diagVars, excused>>

LookAgain ==
    /\ monitor = "again" /\ monitor' = "decide"
    /\ check' = Check(Judge(Observation), TRUE)
    /\ UNCHANGED <<worldVars, status, inbox, answer, diagVars, faults, excused>>

Decision == DecideSwitch(status.removable, check, status.active = "card")

StayPut ==
    /\ monitor = "decide" /\ Decision = {}
    /\ monitor' = "sleep"
    /\ status' = [status EXCEPT !.removable = check.state]
    /\ UNCHANGED <<worldVars, check, inbox, answer, diagVars, faults, excused>>

SendSwitch ==
    /\ monitor = "decide" /\ Decision # {}
    /\ inbox = "none" /\ inbox' \in Decision
    /\ monitor' = "wait"
    /\ UNCHANGED <<worldVars, check, status, answer, diagVars, faults, excused>>

\* The move was made, or not, and the status is written.
NoteAnswer ==
    /\ monitor = "wait" /\ answer # "none"
    /\ answer' = "none" /\ monitor' = "sleep"
    /\ status' = IF answer = "ok"
                 THEN [active |-> IF check.state = "Present" THEN "card"
                                  ELSE "internal",
                       removable |-> check.state]
                 ELSE [status EXCEPT !.removable = check.state]
    /\ UNCHANGED <<worldVars, check, inbox, diagVars, faults, excused>>

\* The shutdown token is cancelled.
Return ==
    /\ monitor = "sleep" /\ monitor' = "gone"
    /\ UNCHANGED <<worldVars, check, status, inbox, answer, diagVars, faults,
                   excused>>

MonitorStep ==
    \/ Observe \/ Detach \/ Mount \/ LookAgain
    \/ StayPut \/ SendSwitch \/ NoteAnswer

Handle == HandleStart \/ HandleStop \/ HandleSwitchStore

Next ==
    \/ Pull \/ Insert \/ SystemMounts \/ SystemUnmounts
    \/ RoomChanges
    \/ \E m \in {"Start", "Stop"} : User(m)
    \/ Handle \/ HandleSwitchFault \/ StopsOnContainer
    \/ MonitorStep \/ Return

\* The monitor's task and the diag task are run by the executor, and the
\* modem keeps sending containers; a sender that waits for room in the channel
\* is served in its turn (tokio's channels are fair), so a user who keeps
\* pressing does not hold the monitor off.  The card, the firmware and the
\* user need not do anything.
Spec ==
    /\ Init /\ [][Next]_vars
    /\ WF_vars(MonitorStep) /\ SF_vars(SendSwitch)
    /\ WF_vars(Handle) /\ WF_vars(StopsOnContainer)

-----------------------------------------------------------------------------
\* storage.rs:88, "Where recordings are going right now.": between two checks
\* the status names the place of the store.
StatusTellsStore == monitor = "sleep" => status.active = store

Healthy ==
    /\ \A p \in Places : room[p] = "ample"
    /\ monitor # "gone"

\* run_storage_monitor and switch_store: as long as the status is right, the
\* device is recording over and over again, whatever happens to the card,
\* unless the user stopped it or the recording was excused: no order of pulls,
\* insertions, mounts, checks and moves leaves it silent.
NeverSilent ==
    [](monitor # "gone" /\ StatusTellsStore)
        => []<>(rec = "Live" \/ stoppedByUser \/ excused)

\* A card that stays out, or whose dead mount keeps it from being used, is
\* given up for internal storage, when the status is right.
FallsBack ==
    <>[](Healthy /\ mount \in {"out", "dead", "back"} /\ StatusTellsStore)
        => <>[](store = "internal")

\* A card that stays in with room for recordings is taken up, however it came
\* back, when the status is right; except under the device name of a mount
\* nobody detached, which the monitor takes for a card that cannot be written.
CardTakenUp ==
    <>[](Healthy /\ CardIn /\ mount # "back" /\ StatusTellsStore)
        => <>[](store = "card")

\* run_storage_monitor: the recordings follow the card, both ways.
FollowsCard == []TypeOK /\ FallsBack /\ CardTakenUp
=============================================================================
