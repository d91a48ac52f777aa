------------------------------ MODULE Pairing ------------------------------
(***************************************************************************)
(* Who the unit trusts (daemon/src/pairing.rs).  The browsers it trusts    *)
(* and the owner's passphrase are kept in memory behind a lock and in one  *)
(* file.  Requests of several browsers run interleaved: they check what    *)
(* they were given, hash a passphrase on another thread, wait for the      *)
(* lock, change the memory and save it, and the save may fail, the client  *)
(* may hang up (its request is dropped where it waits) or the daemon may   *)
(* stop in the middle.                                                     *)
(*                                                                         *)
(* The runtime has one thread, so what a request does between two awaits   *)
(* is one step.  Passphrases, codes and cookies are numbers and model      *)
(* values.  The setup window, the button and the screen are in Screen:     *)
(* here a setup may bring what they ask for or not.                        *)
(*                                                                         *)
(* A save is three operations on the thread pool: open auth.tmp, write it, *)
(* rename it to the auth file.  The operation a dropped request was        *)
(* waiting for goes on without its lock.  What was written outlives the    *)
(* daemon, and the auth directory can be read.                             *)
(***************************************************************************)
EXTENDS Naturals, FiniteSets

CONSTANTS
    Clients,            \* the requests that may be under way at once
    Passphrases,        \* what people choose
    Account,            \* the password of a web account from before pairing
    None,               \* no passphrase, nobody
    MAX_CODE_ATTEMPTS, MAX_DEVICES,
    MaxCodes, MaxMinted, MaxFaults, MaxLate,  \* bounds on the state space
    Starts              \* how much of the bounds is used up at the start

ASSUME ValuesAssumption ==
    Account \notin Passphrases /\ None \notin Clients \cup Passphrases \cup {Account}
ASSUME BoundsAssumption ==
    /\ {MAX_CODE_ATTEMPTS, MAX_DEVICES} \subseteq Nat \ {0}
    /\ {MaxCodes, MaxMinted} \subseteq Nat \ {0} /\ {MaxFaults, MaxLate} \subseteq Nat

Counts == [codes: 0..MaxCodes, minted: 0..MaxMinted, faults: 0..MaxFaults,
           dropped: 0..MaxLate]
ASSUME StartsAssumption == Starts \subseteq Counts

VARIABLES
    mem,      \* state: the AuthState behind the lock
    disk,     \* the auth file
    tmp,      \* auth.tmp
    late,     \* operations of dropped requests that have yet to take effect
    store,    \* history: whether saves have met in auth.tmp (see Stores)
    writer,   \* the request that holds the lock for writing
    setupLock,\* the request that holds setup_lock
    req,      \* the requests under way
    code,     \* pair_code: the live add-a-device code, 0 if none
    backoff,  \* wrong passphrases make the next attempt wait
    count,    \* the codes, cookies, faults and dropped saves so far
    told      \* history: what browsers were told (see History)

lockVars == <<writer, setupLock>>
fileVars == <<disk, tmp, late, store>>
vars == <<mem, disk, tmp, late, store, writer, setupLock, req, code, backoff, count, told>>

Hashes == Passphrases \cup {Account, None}
Devices == 1..MaxMinted
AuthState == [setup_complete: BOOLEAN, passphrase: Hashes, devices: SUBSET Devices]
Empty == [setup_complete |-> FALSE, passphrase |-> None, devices |-> {}]

\* A file and what load makes of it: the state in its text; the default state
\* if it is not there or has been truncated; a torn one does not parse.
Contents == {f \in [kind: {"absent", "truncated", "text", "torn"}, state: AuthState] :
                f.kind # "text" => f.state = Empty}
Text(state) == [kind |-> "text", state |-> state]
NoText(kind) == [kind |-> kind, state |-> Empty]

\* A save waits for one of these operations; "write" has a text and a file open,
\* which is auth.tmp until a rename makes it the auth file, and the next rename
\* unlinks it.
Saving == {"open", "write", "rename"}
Files == {"tmp", "auth", "gone"}
Operations == [step: Saving \cup {"none"}, text: AuthState, file: Files]
Pending(r) == [step |-> r.pc, text |-> IF r.pc = "write" THEN r.text ELSE Empty,
               file |-> r.file]
NoOperation == [step |-> "none", text |-> Empty, file |-> "gone"]

\* "raced": a save opened auth.tmp while an operation of another could still
\* come; "unusable": load failed, and nothing is saved in this run.
Stores == {"sound", "raced", "unusable"}

Ops == {"setup", "passphrase", "account", "code", "change",
        "revoke", "rename", "touch"}

\* The ways to become trusted that also make the unit an owned one.
Claims == {"setup", "passphrase", "account"}

\* What the browsers know: the devices that were told they are trusted, and by
\* which code (0: another way); those whose revocation was confirmed, and those
\* a revocation got to at all; the passphrase confirmed last, unless a change
\* has begun since.
History == [devices: SUBSET [device: Devices, code: 0..MaxCodes],
            revoked: SUBSET Devices, revoking: SUBSET Devices,
            owner: Hashes]

Requests == [pc: {"idle", "lock", "hash", "ready"} \cup Saving, op: Ops \cup {"none"},
             given: Hashes, valid: BOOLEAN, num: Nat, device: Nat, text: AuthState,
             file: Files]

TypeOK ==
    /\ mem \in AuthState /\ Cardinality(mem.devices) <= MAX_DEVICES
    /\ disk \in Contents /\ tmp \in Contents
    /\ late \in [1..MaxLate -> Operations]
    /\ store \in Stores
    /\ writer \in Clients \cup {None}
    /\ setupLock \in Clients \cup {None}
    /\ req \in [Clients -> Requests]
    /\ code \in [id: 0..MaxCodes, wrong: 0..(MAX_CODE_ATTEMPTS - 1)]
    /\ backoff \in BOOLEAN
    /\ count \in Counts
    /\ told \in History

-----------------------------------------------------------------------------
NoRequest == [pc |-> "idle", op |-> "none", given |-> None, valid |-> FALSE,
              num |-> 0, device |-> 0, text |-> Empty, file |-> "gone"]
NoCode == [id |-> 0, wrong |-> 0]
NothingTold == [devices |-> {}, revoked |-> {}, revoking |-> {}, owner |-> None]

Owned(state) == state.setup_complete \/ state.devices # {}

\* load, on a unit nobody has set up.
Init ==
    /\ mem = Empty /\ disk = NoText("absent") /\ tmp = NoText("absent")
    /\ late = [n \in 1..MaxLate |-> NoOperation]
    /\ store = "sound"
    /\ writer = None /\ setupLock = None
    /\ req = [c \in Clients |-> NoRequest]
    /\ code = NoCode /\ backoff = FALSE
    /\ count \in Starts
    /\ told = NothingTold

-----------------------------------------------------------------------------
(* Requests, up to the lock.                                               *)

Ask(c, r) == req' = [req EXCEPT ![c] = r]

\* First contact, with the window's token or by a press, waits for setup_lock.
BeginSetup(c, p) ==
    /\ req[c] = NoRequest
    /\ Ask(c, [NoRequest EXCEPT !.pc = "lock", !.op = "setup", !.given = p])
    /\ UNCHANGED <<mem, fileVars, lockVars, code, backoff, count, told>>

\* complete_setup and complete_setup_by_press with the lock: refused on a unit
\* that is set up, and for a browser that does not bring the window's token or
\* an approved press request; else the passphrase is hashed.
Claim(c, right) ==
    /\ req[c].pc = "lock" /\ setupLock = None /\ writer = None
    /\ IF ~mem.setup_complete /\ right
       THEN setupLock' = c /\ Ask(c, [req[c] EXCEPT !.pc = "hash", !.valid = TRUE])
       ELSE Ask(c, NoRequest) /\ UNCHANGED setupLock
    /\ UNCHANGED <<mem, fileVars, writer, code, backoff, count, told>>

\* verify_passphrase and credentials_are_valid: not while the unit makes the
\* attempt wait; the passphrase in force is read, the comparison is made on
\* another thread.  A change of the passphrase begins the same way, p is then
\* the current one.
BeginVerify(c, op, p) ==
    /\ req[c] = NoRequest /\ ~backoff
    /\ op = "account" \/ (writer = None /\ mem.passphrase # None)
    /\ Ask(c, [NoRequest EXCEPT !.pc = "hash", !.op = op,
                 !.valid = IF op = "account" THEN p = Account ELSE p = mem.passphrase])
    /\ UNCHANGED <<mem, fileVars, lockVars, code, backoff, count, told>>

\* The hash or the comparison is done; new is the passphrase a change asks for,
\* hashed before the lock is asked for, or None if it is too short.
Hashed(c, new) ==
    /\ req[c].pc = "hash"
    /\ IF ~req[c].valid \/ (req[c].op = "change" /\ new = None) THEN Ask(c, NoRequest)
       ELSE Ask(c, [req[c] EXCEPT !.pc = "ready", !.valid = FALSE,
                      !.given = IF req[c].op = "change" THEN new ELSE @])
    /\ backoff' = IF req[c].op = "setup" THEN backoff ELSE ~req[c].valid
    /\ UNCHANGED <<mem, fileVars, lockVars, code, count, told>>

\* Time passes: a code, or the wait after wrong passphrases, ends.
Lapse ==
    /\ \/ code.id # 0 /\ code' = NoCode /\ UNCHANGED backoff
       \/ backoff /\ backoff' = FALSE /\ UNCHANGED code
    /\ UNCHANGED <<mem, fileVars, lockVars, req, count, told>>

\* mint_code: a trusted browser makes a code; the one before no longer counts.
MintCode ==
    /\ count.codes < MaxCodes
    /\ count' = [count EXCEPT !.codes = @ + 1]
    /\ code' = [id |-> count'.codes, wrong |-> 0]
    /\ UNCHANGED <<mem, fileVars, lockVars, req, backoff, told>>

\* A slip: a code is only cleared when it lapses.
TakeCodeLater(c) ==
    /\ Ask(c, [NoRequest EXCEPT !.pc = "ready", !.op = "code", !.num = code.id])
    /\ UNCHANGED code

\* A code is used up before anything is made of it.
TakeCode(c) ==
    /\ Ask(c, [NoRequest EXCEPT !.pc = "ready", !.op = "code", !.num = code.id])
    /\ code' = NoCode

\* The last wrong try burns the code.
WrongCode(pc) ==
    IF pc.wrong + 1 >= MAX_CODE_ATTEMPTS THEN NoCode ELSE [pc EXCEPT !.wrong = @ + 1]

\* pair_with_code, up to the lock.
BeginCode(c, right) ==
    /\ req[c] = NoRequest /\ code.id # 0
    /\ IF right THEN TakeCode(c) ELSE code' = WrongCode(code) /\ UNCHANGED req
    /\ UNCHANGED <<mem, fileVars, lockVars, backoff, count, told>>

\* revoke_device and rename_device; touch, once authenticate has found the
\* device and its last_seen is due.
BeginOnDevice(c, op, d) ==
    /\ req[c] = NoRequest
    /\ op = "touch" => writer = None /\ d \in mem.devices
    /\ Ask(c, [NoRequest EXCEPT !.pc = "ready", !.op = op,
                                !.num = IF op = "touch" THEN 0 ELSE d])
    /\ UNCHANGED <<mem, fileVars, lockVars, code, backoff, count, told>>

-----------------------------------------------------------------------------
(* With the lock: change the memory, then save it.                         *)

\* A slip: the state is cloned, and saved after the lock is given back.
LockForClone(c) == UNCHANGED writer

\* The guard of state.write() lives until the save is done.
LockFor(c) == writer' = c

\* A request that ends gives back what it holds.
Release(c) ==
    /\ writer' = IF writer = c THEN None ELSE writer
    /\ setupLock' = IF setupLock = c THEN None ELSE setupLock

HasLock(c, op) == req[c].pc = "ready" /\ req[c].op = op /\ writer = None

\* The memory is changed and written out as text; a cookie may be issued.
Change(c, state, cookie) ==
    /\ mem' = state
    /\ Ask(c, [req[c] EXCEPT !.pc = "open", !.given = None, !.text = state,
                             !.device = cookie])
    /\ LockFor(c)
    /\ count' = [count EXCEPT !.minted = IF cookie = 0 THEN @ ELSE cookie]
    /\ UNCHANGED <<fileVars, setupLock, code, backoff>>

Refuse(c) ==
    /\ Ask(c, NoRequest) /\ Release(c)
    /\ UNCHANGED <<mem, fileVars, code, backoff, count, told>>

\* add_device: refused when there are too many; with is the state without it.
AddDevice(c, with) ==
    LET cookie == count.minted + 1 IN
    IF Cardinality(mem.devices) < MAX_DEVICES
    THEN /\ cookie <= MaxMinted
         /\ Change(c, [with EXCEPT !.devices = @ \cup {cookie}], cookie)
         /\ UNCHANGED told
    ELSE Refuse(c)

\* A slip: what complete_setup found before the hash is relied on.
FinishSetupUnchecked(c) ==
    /\ HasLock(c, "setup")
    /\ AddDevice(c, [mem EXCEPT !.passphrase = req[c].given, !.setup_complete = TRUE])

\* finish_setup looks again, with the lock, whether the unit is owned.
FinishSetup(c) ==
    /\ HasLock(c, "setup")
    /\ IF Owned(mem) THEN Refuse(c)
       ELSE AddDevice(c, [mem EXCEPT !.passphrase = req[c].given,
                                     !.setup_complete = TRUE])

PairWithPassphrase(c) ==
    /\ HasLock(c, "passphrase")
    /\ AddDevice(c, [mem EXCEPT !.setup_complete = TRUE])

\* The account's password becomes the passphrase if there is none yet.
PairWithAccount(c) ==
    /\ HasLock(c, "account")
    /\ AddDevice(c, [mem EXCEPT !.passphrase = IF @ = None THEN Account ELSE @,
                                !.setup_complete = TRUE])

PairWithCode(c) ==
    /\ HasLock(c, "code")
    /\ AddDevice(c, mem)

ChangePassphrase(c) ==
    /\ HasLock(c, "change")
    /\ Change(c, [mem EXCEPT !.passphrase = req[c].given], 0)
    /\ told' = [told EXCEPT !.owner = None]

RevokeDevice(c) ==
    /\ HasLock(c, "revoke")
    /\ IF req[c].num \in mem.devices
       THEN /\ Change(c, [mem EXCEPT !.devices = @ \ {req[c].num}], 0)
            /\ told' = [told EXCEPT !.revoking = @ \cup {req[c].num}]
       ELSE Refuse(c)

\* A name changes, which no property tells apart.
RenameDevice(c) ==
    /\ HasLock(c, "rename")
    /\ IF req[c].num \in mem.devices
       THEN Change(c, mem, 0) /\ UNCHANGED told ELSE Refuse(c)

\* last_seen is refreshed, and the whole state saved whether or not the device
\* is still there.
Touch(c) ==
    /\ HasLock(c, "touch")
    /\ Change(c, mem, 0) /\ UNCHANGED told

-----------------------------------------------------------------------------
(* The save, with the lock.                                                *)

\* What the browser knows once it is answered.
Told(c) ==
    LET r == req[c] IN
    [told EXCEPT
       !.devices = IF r.op \in Claims \cup {"code"}
                   THEN @ \cup {[device |-> r.device, code |-> r.num]} ELSE @,
       !.revoked = IF r.op = "revoke" THEN @ \cup {r.num} ELSE @,
       !.owner = IF r.op \in Claims \cup {"change"} THEN r.text.passphrase ELSE @]

\* The request ends, and the browser is told it is done or not.
Answer(c, done) ==
    /\ Release(c)
    /\ Ask(c, NoRequest)
    /\ told' = IF done THEN Told(c) ELSE told

Under(step) == \E n \in 1..MaxLate : late[n].step = step
Quiet == \A n \in 1..MaxLate : late[n].step = "none"

\* The file is created, or the one there truncated.
Truncate == tmp' = NoText("truncated") /\ UNCHANGED disk

\* What a write from the start makes of file f: over another text it may leave
\* the end of that one, or all of it.
Overlay(f, text) ==
    IF f.kind = "truncated" THEN {Text(text)} ELSE {Text(text), f, NoText("torn")}

\* A write, by whoever has the file open; without room (~ok) it stops halfway.
Fill(o, ok) ==
    LET Result(f) == IF ok THEN Overlay(f, o.text) ELSE {f, NoText("torn")}
    IN \/ o.file = "tmp" /\ tmp' \in Result(tmp) /\ UNCHANGED disk
       \/ o.file = "auth" /\ disk' \in Result(disk) /\ UNCHANGED tmp
       \/ o.file = "gone" /\ UNCHANGED <<disk, tmp>>

\* What is open as auth.tmp is the auth file after a rename.
Moved(o) ==
    [o EXCEPT !.file = IF @ = "tmp" THEN "auth" ELSE "gone"]
Rename == tmp.kind # "absent" /\ disk' = tmp /\ tmp' = NoText("absent")

\* write_atomic, the first operation is done.
SaveOpened(c) ==
    /\ req[c].pc = "open" /\ store # "unusable"
    /\ Truncate
    /\ store' = IF Quiet THEN store ELSE "raced"
    /\ Ask(c, [req[c] EXCEPT !.pc = "write", !.file = "tmp"])
    /\ UNCHANGED <<mem, late, lockVars, code, backoff, count, told>>

\* The second, with the sync_all that waits for it.
SaveWritten(c) ==
    /\ req[c].pc = "write"
    /\ Fill(req[c], TRUE)
    /\ Ask(c, [req[c] EXCEPT !.pc = "rename", !.file = "gone"])
    /\ UNCHANGED <<mem, late, store, lockVars, code, backoff, count, told>>

\* The third: the browser is answered.  A save that had auth.tmp to itself makes
\* the file sound again.
SaveRenamed(c) ==
    /\ req[c].pc = "rename"
    /\ Rename
    /\ store' = IF Quiet /\ tmp = Text(req[c].text) THEN "sound" ELSE store
    /\ late' = [n \in 1..MaxLate |-> Moved(late[n])]
    /\ Release(c)
    /\ req' = [d \in Clients |-> IF d = c THEN NoRequest ELSE Moved(req[d])]
    /\ told' = Told(c)
    /\ UNCHANGED <<mem, code, backoff, count>>

\* The file was renamed by another: the browser is told the save failed.
SaveFindsNoFile(c) ==
    /\ req[c].pc = "rename" /\ tmp.kind = "absent"
    /\ Answer(c, FALSE)
    /\ UNCHANGED <<mem, fileVars, code, backoff, count>>

\* A store without a path: nothing is written, and all is well.
SaveNowhere(c) ==
    /\ req[c].pc = "open" /\ store = "unusable"
    /\ Answer(c, TRUE)
    /\ UNCHANGED <<mem, fileVars, code, backoff, count>>

\* An operation fails and has no effect, or half of it.
Failing(o, step) ==
    /\ count.faults < MaxFaults
    /\ count' = [count EXCEPT !.faults = @ + 1]
    /\ IF step = "write" THEN Fill(o, FALSE) ELSE UNCHANGED <<disk, tmp>>

\* A slip: a failed save is logged and the browser told all is well.
SaveFailsQuietly(c) ==
    /\ req[c].pc \in Saving /\ store # "unusable"
    /\ Failing(req[c], req[c].pc)
    /\ Answer(c, TRUE)
    /\ UNCHANGED <<mem, late, store, code, backoff>>

\* write_atomic fails: the browser is told so, the memory stays changed.
SaveFails(c) ==
    /\ req[c].pc \in Saving /\ store # "unusable"
    /\ Failing(req[c], req[c].pc)
    /\ Answer(c, FALSE)
    /\ UNCHANGED <<mem, late, store, code, backoff>>

-----------------------------------------------------------------------------
(* Requests that are dropped, and the daemon.                              *)

\* The client hangs up and its request is dropped where it waits; the operation
\* it waits for stays with the thread pool.
HangUp(c) ==
    /\ req[c].pc # "idle"
    /\ IF req[c].pc \in Saving
       THEN /\ store # "unusable" /\ count.dropped < MaxLate
            /\ count' = [count EXCEPT !.dropped = @ + 1]
            /\ late' = [late EXCEPT ![count'.dropped] = Pending(req[c])]
       ELSE UNCHANGED <<late, count>>
    /\ Answer(c, FALSE)
    /\ UNCHANGED <<mem, disk, tmp, store, code, backoff>>

\* Such an operation takes effect.
LateOpen(n) ==
    /\ late[n].step = "open"
    /\ Truncate
    /\ store' = IF Under("rename") THEN "raced" ELSE store
    /\ late' = [late EXCEPT ![n] = NoOperation]
    /\ UNCHANGED <<mem, req, lockVars, code, backoff, count, told>>

LateWrite(n) ==
    /\ late[n].step = "write"
    /\ Fill(late[n], TRUE)
    /\ late' = [late EXCEPT ![n] = NoOperation]
    /\ UNCHANGED <<mem, store, req, lockVars, code, backoff, count, told>>

LateRename(n) ==
    /\ late[n].step = "rename"
    /\ \/ /\ Rename
          /\ late' = [m \in 1..MaxLate |->
                        IF m = n THEN NoOperation ELSE Moved(late[m])]
          /\ req' = [c \in Clients |-> Moved(req[c])]
       \/ /\ tmp.kind = "absent"
          /\ late' = [late EXCEPT ![n] = NoOperation]
          /\ UNCHANGED <<disk, tmp, req>>
    /\ UNCHANGED <<mem, store, lockVars, code, backoff, count, told>>

\* Or fails.
LateFails(n) ==
    /\ late[n].step # "none"
    /\ Failing(late[n], late[n].step)
    /\ late' = [late EXCEPT ![n] = NoOperation]
    /\ UNCHANGED <<mem, store, req, lockVars, code, backoff, told>>

\* The daemon stops, in the middle of a save or not, and starts again with what
\* load finds; a file that does not parse is left alone, and the daemon runs
\* without one.  What was told counts from here if saves had met in auth.tmp.
Restart ==
    /\ count.faults < MaxFaults
    /\ mem' = disk.state
    /\ store' = IF disk.kind = "torn" THEN "unusable" ELSE "sound"
    /\ told' = IF store = "sound" THEN told ELSE NothingTold
    /\ late' = [n \in 1..MaxLate |-> NoOperation]
    /\ writer' = None /\ setupLock' = None
    /\ req' = [c \in Clients |-> NoRequest]
    /\ count' = [count EXCEPT !.faults = @ + 1]
    /\ code' = NoCode /\ backoff' = FALSE
    /\ UNCHANGED <<disk, tmp>>

Begin(c) ==
    \/ \E p \in Passphrases : BeginSetup(c, p)
    \/ \E op \in {"passphrase", "account", "change"}, p \in Passphrases \cup {Account} :
          BeginVerify(c, op, p)
    \/ \E right \in BOOLEAN : BeginCode(c, right)
    \/ \E op \in {"revoke", "rename", "touch"}, d \in 1..count.minted :
          BeginOnDevice(c, op, d)

Next ==
    \/ MintCode \/ Lapse \/ Restart
    \/ \E c \in Clients :
          \/ Begin(c)
          \/ \E right \in BOOLEAN : Claim(c, right)
          \/ \E new \in Passphrases \cup {None} : Hashed(c, new)
          \/ FinishSetup(c) \/ PairWithPassphrase(c) \/ PairWithAccount(c)
          \/ PairWithCode(c) \/ ChangePassphrase(c) \/ RevokeDevice(c)
          \/ RenameDevice(c) \/ Touch(c)
          \/ SaveOpened(c) \/ SaveWritten(c) \/ SaveRenamed(c)
          \/ SaveFindsNoFile(c) \/ SaveNowhere(c) \/ SaveFails(c) \/ HangUp(c)
    \/ \E n \in 1..MaxLate :
          LateOpen(n) \/ LateWrite(n) \/ LateRename(n) \/ LateFails(n)

Spec == Init /\ [][Next]_vars

-----------------------------------------------------------------------------
\* A browser that was told it is trusted stays so until somebody revokes it:
\* whatever other requests save, fail to save or leave half done, and across
\* restarts.  In memory always, in the file unless an operation of a dropped
\* save was still to come when another save opened auth.tmp (write_atomic).
ToldIsKept ==
    \A t \in told.devices : t.device \notin told.revoking =>
        /\ t.device \in mem.devices
        /\ store = "sound" => t.device \in disk.state.devices

\* "Forget a device. Its cookie stops working at once" (revoke_device): and it
\* never works again, since no later save brings it back, unless saves met in
\* auth.tmp as above.
RevokedIsGone ==
    /\ told.revoked \cap mem.devices = {}
    /\ store = "sound" => told.revoked \cap disk.state.devices = {}

\* "first contact must happen exactly once" (finish_setup): the passphrase the
\* unit confirmed to its owner is the one in force until a change_passphrase,
\* and the one in the file unless saves met in auth.tmp as above; no setup that
\* was under way replaces it.
OwnerKept ==
    told.owner # None =>
        /\ told.owner = mem.passphrase
        /\ store = "sound" => told.owner = disk.state.passphrase

\* "single use" (mint_code): a code lets one browser in.
CodeUsedOnce ==
    \A s, t \in told.devices : s.code = t.code /\ s.code # 0 => s.device = t.device

\* The state of the pairing store, with its codes, is sound.
PairingInv == TypeOK /\ CodeUsedOnce
=============================================================================
