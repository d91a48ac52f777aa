--------------------------- MODULE PairingProofs ---------------------------
(***************************************************************************)
(* Proofs about Pairing for any number of requests under way, of saves     *)
(* dropped in the middle, any set of passphrases and every bound.          *)
(*                                                                         *)
(* The four properties are not inductive.  They follow from an invariant   *)
(* in two halves.  MemInv: the request that holds the lock is the one that *)
(* saves, and what it saves is the memory; the numbers of devices and      *)
(* codes that occur were issued; a code is in one place, live, taken by    *)
(* one request or used; the memory agrees with what browsers were told.    *)
(* FileInv: whatever is in a file or on its way to one was once the        *)
(* memory; and while no two saves have met in auth.tmp, the auth file      *)
(* agrees with what browsers were told, and so does what a pending rename  *)
(* would make of it.                                                       *)
(***************************************************************************)
EXTENDS Pairing, FiniteSetTheorems, TLAPS

\* A state that the memory may have had: its devices were issued a cookie, they
\* are not too many, and with a passphrase it is set up.
Sane(state) ==
    /\ state.devices \subseteq 1..count.minted
    /\ Cardinality(state.devices) <= MAX_DEVICES
    /\ state.passphrase # None => state.setup_complete

\* A state that is what browsers were told.
Agrees(state) ==
    /\ \A t \in told.devices : t.device \notin told.revoking => t.device \in state.devices
    /\ told.revoked \cap state.devices = {}
    /\ told.owner # None => told.owner = state.passphrase /\ state.setup_complete

MemType ==
    /\ mem \in AuthState
    /\ writer \in Clients \cup {None}
    /\ setupLock \in Clients \cup {None}
    /\ req \in [Clients -> Requests]
    /\ code \in [id: 0..MaxCodes, wrong: 0..(MAX_CODE_ATTEMPTS - 1)]
    /\ backoff \in BOOLEAN
    /\ count \in Counts
    /\ told \in History

\* Who holds the lock is saving, and saves the memory as it is.
LockInv ==
    \A c \in Clients :
        /\ (writer = c) <=> (req[c].pc \in Saving)
        /\ req[c].pc \in Saving => req[c].text = mem

\* Every device that occurs had its cookie issued, so the next one is new.
IssuedInv ==
    /\ told.revoking \cup told.revoked \subseteq 1..count.minted
    /\ \A t \in told.devices : t.device \in 1..count.minted

\* A request that saves a new device has it in memory, and nobody revoked it; one
\* that saves a revocation has it out of memory.
SaverInv ==
    \A c \in Clients :
        req[c].pc \in Saving =>
            /\ req[c].op \in Claims \cup {"code"} =>
                  req[c].device \in mem.devices \ told.revoking
            /\ req[c].op = "revoke" =>
                  req[c].num \in (1..count.minted) \ mem.devices

\* A unit whose passphrase somebody is changing is set up, and so is one that
\* somebody has claimed.
OwnerInv ==
    \A c \in Clients :
        /\ req[c].op = "change" => mem.setup_complete
        /\ req[c].pc \in Saving /\ req[c].op \in Claims => mem.setup_complete

\* A code is live, or taken by one request, or used, or lost.
CodeInv ==
    /\ code.id <= count.codes
    /\ \A t \in told.devices : t.code <= count.codes /\ (t.code # 0 => t.code # code.id)
    /\ \A c \in Clients :
          /\ req[c].op \in Claims => req[c].num = 0
          /\ req[c].op = "code" =>
                /\ req[c].num \in 1..count.codes /\ req[c].num # code.id
                /\ \A t \in told.devices : t.code # req[c].num
                /\ \A d \in Clients :
                      req[d].op = "code" /\ req[d].num = req[c].num => d = c

MemInv ==
    /\ MemType /\ LockInv /\ IssuedInv /\ SaverInv /\ OwnerInv /\ CodeInv /\ CodeUsedOnce
    /\ Sane(mem) /\ Agrees(mem)

FileType ==
    /\ disk \in Contents /\ tmp \in Contents
    /\ late \in [1..MaxLate -> Operations]
    /\ store \in Stores

\* While no two saves have met in auth.tmp: the auth file agrees; the save that has
\* auth.tmp open is alone with it, and renames what it wrote; a late write is to
\* auth.tmp; what a late rename would rename agrees, and no other is to come.
SoundInv ==
    /\ Agrees(disk.state)
    /\ \A c \in Clients :
          /\ req[c].pc \in {"write", "rename"} => Quiet
          /\ req[c].pc = "write" => req[c].file = "tmp" /\ tmp.kind = "truncated"
          /\ req[c].pc = "rename" => tmp = Text(req[c].text)
    /\ \A n \in 1..MaxLate :
          /\ late[n].step = "write" => late[n].file = "tmp"
          /\ late[n].step = "rename" =>
                /\ Agrees(tmp.state)
                /\ \A m \in 1..MaxLate : late[m].step \in {"write", "rename"} => m = n

FileInv ==
    /\ FileType
    /\ Sane(disk.state) /\ Sane(tmp.state)
    /\ \A n \in 1..MaxLate : Sane(late[n].text)
    /\ store = "sound" => SoundInv

\* The inductive invariant.
IInv == MemInv /\ FileInv

-----------------------------------------------------------------------------
\* A request asked for replaces the one of its client and no other.
LEMMA AskEffect ==
    ASSUME req \in [Clients -> Requests], NEW c \in Clients, NEW r \in Requests, Ask(c, r)
    PROVE  /\ req' \in [Clients -> Requests]
           /\ req'[c] = r
           /\ \A x \in Clients : x # c => req'[x] = req[x]
  BY DEF Ask

\* A client without a request has a well-formed one.
LEMMA NoRequestTyped ==
    /\ NoRequest \in Requests
    /\ NoRequest.pc = "idle" /\ NoRequest.op = "none" /\ NoRequest.given = None
    /\ NoRequest.num = 0 /\ NoRequest.file = "gone" /\ Empty \in AuthState
  BY DEF NoRequest, Requests, Empty, AuthState, Hashes, Files

\* The set of devices of a unit is finite.
LEMMA DevicesFinite ==
    ASSUME NEW S \in SUBSET Devices
    PROVE  IsFiniteSet(S) /\ Cardinality(S) \in Nat
<1>1. IsFiniteSet(Devices)
  BY FS_Interval, BoundsAssumption DEF Devices
<1>2. IsFiniteSet(S)
  BY <1>1, FS_Subset
<1> QED BY <1>2, FS_CardinalityType

\* A request that has not opened auth.tmp, or is as it was, leaves the files alone;
\* so does what browsers are told while a change is made or undone.
LEMMA FilesAlone ==
    ASSUME FileInv, UNCHANGED fileVars,
           count.minted \in Nat, count'.minted \in Nat, count'.minted >= count.minted,
           \A c \in Clients : req'[c].pc \in {"write", "rename"} => req'[c] = req[c],
           \/ store # "sound"
           \/ /\ told'.devices = told.devices /\ told'.revoked = told.revoked
              /\ told.revoking \subseteq told'.revoking
              /\ told'.owner \in {None, told.owner}
    PROVE  FileInv'
<1>1. FileType'
  BY DEF FileInv, FileType, fileVars
<1>2. Sane(disk.state)' /\ Sane(tmp.state)' /\ \A n \in 1..MaxLate : Sane(late[n].text)'
  BY DEF FileInv, fileVars, Sane
<1>3. ASSUME store' = "sound"
      PROVE  SoundInv'
  <2>1. SoundInv /\ UNCHANGED <<disk, tmp, late>>
    BY <1>3 DEF FileInv, fileVars
  <2>2. /\ told'.devices = told.devices /\ told'.revoked = told.revoked
        /\ told.revoking \subseteq told'.revoking
        /\ told'.owner \in {None, told.owner}
    BY <1>3 DEF fileVars
  <2>3. Agrees(disk.state) => Agrees(disk.state)'
    BY <2>1, <2>2 DEF Agrees
  <2>4. Agrees(tmp.state) => Agrees(tmp.state)'
    BY <2>1, <2>2 DEF Agrees
  <2>5. Quiet => Quiet'
    BY <2>1 DEF Quiet
  <2> QED BY <2>1, <2>3, <2>4, <2>5 DEF SoundInv
<1> QED BY <1>1, <1>2, <1>3 DEF FileInv

\* Steps of the thread pool: the requests stay as they are but for the operation a
\* save is at and the file it has open.
LEMMA SavingOn ==
    ASSUME MemInv, req' \in [Clients -> Requests], count' \in Counts,
           \A c \in Clients :
              /\ req'[c].pc \in Saving <=> req[c].pc \in Saving
              /\ req'[c].op = req[c].op /\ req'[c].num = req[c].num
              /\ req'[c].device = req[c].device /\ req'[c].text = req[c].text,
           UNCHANGED <<mem, writer, setupLock, code, backoff, told>>,
           count'.codes = count.codes /\ count'.minted = count.minted
    PROVE  MemInv'
<1>1. MemType' /\ LockInv' /\ IssuedInv' /\ OwnerInv' /\ CodeInv' /\ CodeUsedOnce'
  BY DEF MemInv, MemType, LockInv, IssuedInv, OwnerInv, CodeInv, CodeUsedOnce
<1>2. SaverInv'
  BY DEF MemInv, SaverInv
<1>3. Sane(mem)' /\ Agrees(mem)'
  BY DEF MemInv, Sane, Agrees
<1> QED BY <1>1, <1>2, <1>3 DEF MemInv

\* What happens up to the lock: one request advances, without the lock, and takes
\* at most the live code.  The codes stay apart and nothing else is touched.
LEMMA AskStep ==
    ASSUME IInv, NEW c \in Clients, NEW r \in Requests, Ask(c, r),
           r.pc \notin Saving, req[c].pc \notin Saving,
           UNCHANGED <<mem, fileVars, writer, count, told>>,
           setupLock' \in Clients \cup {None},
           backoff' \in BOOLEAN,
           code' \in [id: 0..MaxCodes, wrong: 0..(MAX_CODE_ATTEMPTS - 1)],
           code'.id \in {0, code.id},
           r.op = "change" => mem.setup_complete,
           r.op \in Claims => r.num = 0,
           r.op = "code" => \/ req[c].op = "code" /\ r.num = req[c].num
                            \/ code.id # 0 /\ r.num = code.id /\ code'.id = 0
    PROVE  IInv'
<1>1. /\ req' \in [Clients -> Requests]
      /\ req'[c] = r
      /\ \A x \in Clients : x # c => req'[x] = req[x]
  BY AskEffect DEF IInv, MemInv, MemType
<1>2. MemType'
  BY <1>1 DEF IInv, MemInv, MemType
<1>3. LockInv' /\ SaverInv'
  BY <1>1 DEF IInv, MemInv, LockInv, SaverInv
<1>4. IssuedInv' /\ CodeUsedOnce' /\ Sane(mem)' /\ Agrees(mem)'
  BY DEF IInv, MemInv, IssuedInv, CodeUsedOnce, Sane, Agrees
<1>5. OwnerInv'
  BY <1>1 DEF IInv, MemInv, OwnerInv
<1>6. CodeInv'
  <2>1. code.id \in Nat /\ count.codes \in Nat
    BY DEF IInv, MemInv, MemType, Counts
  <2>2. code'.id <= count'.codes
    BY <2>1 DEF IInv, MemInv, CodeInv
  <2>3. \A t \in told'.devices :
            t.code <= count'.codes /\ (t.code # 0 => t.code # code'.id)
    BY DEF IInv, MemInv, CodeInv
  <2>4. ASSUME NEW x \in Clients
        PROVE  req'[x].op \in Claims => req'[x].num = 0
    BY <1>1 DEF IInv, MemInv, CodeInv
  <2>5. ASSUME NEW x \in Clients, req'[x].op = "code"
        PROVE  /\ req'[x].num \in 1..count'.codes /\ req'[x].num # code'.id
               /\ \A t \in told'.devices : t.code # req'[x].num
    <3>1. CASE x = c
      BY <1>1, <2>1, <2>5, <3>1 DEF IInv, MemInv, CodeInv
    <3>2. CASE x # c
      BY <1>1, <2>1, <2>5, <3>2 DEF IInv, MemInv, CodeInv
    <3> QED BY <3>1, <3>2
  <2>6. ASSUME NEW x \in Clients, NEW y \in Clients, req'[x].op = "code",
               req'[y].op = "code", req'[y].num = req'[x].num
        PROVE  y = x
    BY <1>1, <2>1, <2>6 DEF IInv, MemInv, CodeInv
  <2> QED BY <2>2, <2>3, <2>4, <2>5, <2>6 DEF CodeInv
<1>7. FileInv'
  <2>1. count.minted \in Nat
    BY DEF IInv, MemInv, MemType, Counts
  <2> QED BY <1>1, <2>1, FilesAlone DEF IInv, Saving
<1> QED
  BY <1>2, <1>3, <1>4, <1>5, <1>6, <1>7 DEF IInv, MemInv

\* With the lock: the memory is replaced by a state that has the old devices and
\* perhaps a new one, or all but one that is then being revoked, and by one whose
\* passphrase is the old one unless nobody's is at stake.
LEMMA ChangeStep ==
    ASSUME IInv, NEW c \in Clients, NEW state \in AuthState, NEW cookie \in Nat,
           HasLock(c, req[c].op), Change(c, state, cookie),
           cookie = 0 \/ (cookie = count.minted + 1 /\ cookie \in Devices),
           Cardinality(state.devices) <= MAX_DEVICES,
           state.devices \subseteq mem.devices \cup (IF cookie = 0 THEN {} ELSE {cookie}),
           told' \in History,
           told'.devices = told.devices /\ told'.revoked = told.revoked,
           told.revoking \subseteq told'.revoking,
           told'.revoking \subseteq told.revoking \cup mem.devices,
           mem.devices \subseteq state.devices \cup told'.revoking,
           told'.owner \in {None, told.owner},
           told'.owner # None => state.passphrase = mem.passphrase,
           mem.setup_complete => state.setup_complete,
           state.passphrase # None => state.setup_complete,
           req[c].op \in Claims => state.setup_complete,
           req[c].op \in Claims \cup {"code"} =>
               cookie \in state.devices /\ cookie # 0 /\ told'.revoking = told.revoking,
           req[c].op = "revoke" => req[c].num \in mem.devices \ state.devices
    PROVE  IInv'
<1> DEFINE r == [req[c] EXCEPT !.pc = "open", !.given = None, !.text = state,
                               !.device = cookie]
<1>1. /\ r \in Requests /\ r.pc = "open" /\ r.text = state /\ r.device = cookie
      /\ r.op = req[c].op /\ r.num = req[c].num
  <2>1. req[c] \in Requests
    BY DEF IInv, MemInv, MemType
  <2> QED BY <2>1 DEF Requests, Hashes, Saving
<1>2. /\ req' \in [Clients -> Requests]
      /\ req'[c] = r
      /\ \A x \in Clients : x # c => req'[x] = req[x]
  <2> HIDE DEF r
  <2>1. Ask(c, r)
    BY DEF Change, r
  <2> QED BY <1>1, <2>1, AskEffect DEF IInv, MemInv, MemType
<1> HIDE DEF r
<1>3. /\ mem' = state /\ writer' = c /\ writer = None
      /\ UNCHANGED <<fileVars, setupLock, code, backoff>>
  BY DEF Change, LockFor, HasLock
<1>4. /\ count.minted \in Nat /\ count'.minted \in Nat
      /\ count'.codes = count.codes /\ count'.minted >= count.minted
      /\ cookie = 0 => count'.minted = count.minted
      /\ cookie # 0 => count'.minted = cookie /\ cookie = count.minted + 1
      /\ count' \in Counts
  BY BoundsAssumption DEF IInv, MemInv, MemType, Counts, Change, Devices
<1>5. MemType'
  BY <1>2, <1>3, <1>4 DEF IInv, MemInv, MemType
<1>6. LockInv'
  <2>1. \A x \in Clients : req[x].pc \notin Saving
    BY <1>3, ValuesAssumption DEF IInv, MemInv, LockInv
  <2> QED BY <1>1, <1>2, <1>3, <2>1 DEF LockInv, Saving
<1>7. IssuedInv' /\ Sane(mem)'
  <2>1. /\ mem.devices \subseteq 1..count'.minted
        /\ told.revoking \subseteq 1..count'.minted
        /\ told.revoked \subseteq 1..count'.minted
        /\ \A t \in told.devices : t.device \in 1..count'.minted
    BY <1>4 DEF IInv, MemInv, IssuedInv, Sane
  <2>2. state.devices \subseteq 1..count'.minted
    BY <2>1, <1>4
  <2> QED BY <1>3, <2>1, <2>2 DEF IssuedInv, Sane
<1>8. SaverInv'
  <2>1. \A x \in Clients : x # c => req'[x].pc \notin Saving
    BY <1>2, <1>3, ValuesAssumption DEF IInv, MemInv, LockInv
  <2>2. req[c].op \in Claims \cup {"code"} => cookie \notin told.revoking
    BY <1>4 DEF IInv, MemInv, IssuedInv
  <2>3. req[c].op = "revoke" => req[c].num \in 1..count'.minted
    BY <1>4 DEF IInv, MemInv, Sane
  <2> QED BY <1>1, <1>2, <1>3, <2>1, <2>2, <2>3 DEF SaverInv
<1>9. OwnerInv'
  BY <1>1, <1>2, <1>3 DEF IInv, MemInv, OwnerInv, Saving
<1>10. CodeInv'
  <2>1. \A x \in Clients : req'[x].op = req[x].op /\ req'[x].num = req[x].num
    BY <1>1, <1>2
  <2> QED BY <1>3, <1>4, <2>1 DEF IInv, MemInv, CodeInv
<1>11. CodeUsedOnce'
  BY DEF IInv, MemInv, CodeUsedOnce
<1>12. Agrees(mem)'
  <2>1. \A t \in told'.devices : t.device \notin told'.revoking => t.device \in mem'.devices
    BY <1>3 DEF IInv, MemInv, Agrees
  <2>2. told'.revoked \cap mem'.devices = {}
    BY <1>3, <1>4 DEF IInv, MemInv, Agrees, IssuedInv
  <2>3. told'.owner # None => told'.owner = mem'.passphrase /\ mem'.setup_complete
    BY <1>3 DEF IInv, MemInv, Agrees
  <2> QED BY <2>1, <2>2, <2>3 DEF Agrees
<1>13. FileInv'
  <2>1. \A x \in Clients : req'[x].pc \in {"write", "rename"} => req'[x] = req[x]
    BY <1>1, <1>2
  <2> QED BY <1>3, <1>4, <2>1, FilesAlone DEF IInv
<1> QED
  BY <1>5, <1>6, <1>7, <1>8, <1>9, <1>10, <1>11, <1>12, <1>13 DEF IInv, MemInv

\* The end of a request, whichever way it ends: if it was saving its browser may be
\* told.  A rename changes which file the others have open.
LEMMA EndMem ==
    ASSUME MemInv, NEW c \in Clients, Release(c),
           req' \in [Clients -> Requests], req'[c] = NoRequest,
           \A x \in Clients : x # c =>
              /\ req'[x].pc = req[x].pc /\ req'[x].op = req[x].op
              /\ req'[x].num = req[x].num /\ req'[x].device = req[x].device
              /\ req'[x].text = req[x].text,
           UNCHANGED <<mem, code, backoff>>,
           told' = told \/ (req[c].pc \in Saving /\ told' = Told(c)),
           count' \in Counts, count'.codes = count.codes, count'.minted = count.minted
    PROVE  MemInv'
<1>1. NoRequest.pc \notin Saving /\ NoRequest.op \notin Ops
  BY NoRequestTyped DEF Saving, Ops
<1>3. LockInv'
  <2>1. \A x \in Clients : (writer' = x) <=> (writer = x /\ x # c)
    BY ValuesAssumption DEF Release
  <2> QED BY <1>1, <2>1 DEF MemInv, LockInv
<1>4. /\ told' \in History /\ told'.revoking = told.revoking
      /\ \/ told'.owner = told.owner
         \/ told'.owner = mem.passphrase /\ mem.setup_complete
      /\ \/ told'.revoked = told.revoked
         \/ /\ told'.revoked = told.revoked \cup {req[c].num}
            /\ req[c].num \in (1..count.minted) \ mem.devices
      /\ \/ told'.devices = told.devices
         \/ /\ told'.devices =
                  told.devices \cup {[device |-> req[c].device, code |-> req[c].num]}
            /\ req[c].device \in mem.devices
            /\ req[c].num = 0 \/ req[c].op = "code"
  <2>1. CASE told' = told
    BY <2>1 DEF MemInv, MemType
  <2>2. CASE req[c].pc \in Saving /\ told' = Told(c)
    <3>1. req[c].text = mem
      BY <2>2 DEF MemInv, LockInv
    <3>2. /\ told \in History /\ req[c] \in Requests /\ mem \in AuthState
          /\ count \in Counts
      BY DEF MemInv, MemType
    <3>3. /\ mem.passphrase \in Hashes /\ mem.devices \subseteq Devices
          /\ 1..count.minted \subseteq Devices /\ 0..count.codes \subseteq 0..MaxCodes
      BY <3>2, BoundsAssumption DEF AuthState, Devices, Counts
    <3>4. /\ req[c].op \in Claims \cup {"code"} => req[c].device \in mem.devices
          /\ req[c].op = "revoke" => req[c].num \in (1..count.minted) \ mem.devices
      BY <2>2 DEF MemInv, SaverInv
    <3>5. /\ req[c].op \in Claims => req[c].num = 0
          /\ req[c].op = "code" => req[c].num \in 1..count.codes
      BY DEF MemInv, CodeInv
    <3>6. req[c].op \in Claims \cup {"change"} => mem.setup_complete
      BY <2>2 DEF MemInv, OwnerInv
    <3>7. /\ told'.revoking = told.revoking
          /\ told'.owner = IF req[c].op \in Claims \cup {"change"}
                           THEN mem.passphrase ELSE told.owner
          /\ told'.revoked = IF req[c].op = "revoke"
                             THEN told.revoked \cup {req[c].num} ELSE told.revoked
          /\ told'.devices =
                IF req[c].op \in Claims \cup {"code"}
                THEN told.devices \cup {[device |-> req[c].device, code |-> req[c].num]}
                ELSE told.devices
          /\ told' = [devices |-> told'.devices, revoked |-> told'.revoked,
                      revoking |-> told'.revoking, owner |-> told'.owner]
      BY <2>2, <3>1, <3>2 DEF Told, History
    <3>8. /\ req[c].op \in Claims \cup {"code"} =>
                [device |-> req[c].device, code |-> req[c].num]
                    \in [device: Devices, code: 0..MaxCodes]
      BY <3>2, <3>3, <3>4, <3>5, BoundsAssumption DEF Counts
    <3>9. /\ told'.devices \in SUBSET [device: Devices, code: 0..MaxCodes]
          /\ told'.revoked \in SUBSET Devices /\ told'.revoking \in SUBSET Devices
          /\ told'.owner \in Hashes
      BY <3>2, <3>3, <3>4, <3>7, <3>8 DEF History
    <3>10. told' \in History
      BY <3>7, <3>9 DEF History
    <3> QED BY <3>1, <3>4, <3>5, <3>6, <3>7, <3>10
  <2> QED BY <2>1, <2>2
<1>5. MemType'
  <2>1. writer' \in Clients \cup {None} /\ setupLock' \in Clients \cup {None}
    BY DEF MemInv, MemType, Release
  <2> QED BY <1>4, <2>1 DEF MemInv, MemType
<1>6. IssuedInv' /\ Sane(mem)'
  <2>1. mem.devices \subseteq 1..count.minted
    BY DEF MemInv, Sane
  <2> QED BY <1>4, <2>1 DEF MemInv, IssuedInv, Sane
<1>7. SaverInv' /\ OwnerInv'
  BY <1>1, <1>4, NoRequestTyped DEF MemInv, SaverInv, OwnerInv, Claims
<1>8. CodeInv' /\ CodeUsedOnce'
  <2>1. CASE told'.devices = told.devices
    BY <1>1, <2>1, NoRequestTyped DEF MemInv, CodeInv, CodeUsedOnce, Claims
  <2>2. CASE /\ told'.devices =
                  told.devices \cup {[device |-> req[c].device, code |-> req[c].num]}
             /\ req[c].num = 0 \/ req[c].op = "code"
    <3>1. CodeUsedOnce'
      BY <2>2 DEF MemInv, CodeInv, CodeUsedOnce
    <3>2. \A t \in told'.devices :
             t \in told.devices \/ t.code = req[c].num
      BY <2>2
    <3>3. count.codes \in Nat
      BY DEF MemInv, MemType, Counts
    <3>4. /\ code'.id <= count'.codes
          /\ \A t \in told'.devices :
                 t.code <= count'.codes /\ (t.code # 0 => t.code # code'.id)
      BY <2>2, <3>2, <3>3 DEF MemInv, CodeInv
    <3>5. ASSUME NEW x \in Clients, x # c, req[x].op = "code", NEW t \in told'.devices
          PROVE  t.code # req[x].num
      BY <2>2, <3>2, <3>3, <3>5 DEF MemInv, CodeInv
    <3> QED BY <1>1, <3>1, <3>4, <3>5, NoRequestTyped DEF MemInv, CodeInv, Claims
  <2> QED BY <1>4, <2>1, <2>2
<1>9. Agrees(mem)'
  BY <1>4 DEF MemInv, Agrees
<1> QED
  BY <1>3, <1>5, <1>6, <1>7, <1>8, <1>9 DEF MemInv

\* A request that ends without a trace in the files.
LEMMA EndStep ==
    ASSUME IInv, NEW c \in Clients, Ask(c, NoRequest), Release(c),
           UNCHANGED <<mem, fileVars, code, backoff, count>>,
           told' = told \/ (req[c].pc \in Saving /\ store # "sound" /\ told' = Told(c))
    PROVE  IInv'
<1>1. /\ req' \in [Clients -> Requests]
      /\ req'[c] = NoRequest
      /\ \A x \in Clients : x # c => req'[x] = req[x]
  BY AskEffect, NoRequestTyped DEF IInv, MemInv, MemType
<1>2. MemInv'
  <2>1. count \in Counts
    BY DEF IInv, MemInv, MemType
  <2> QED BY <1>1, <2>1, EndMem DEF IInv
<1>3. FileInv'
  <2>1. count.minted \in Nat
    BY DEF IInv, MemInv, MemType, Counts
  <2>2. \A x \in Clients : req'[x].pc \in {"write", "rename"} => req'[x] = req[x]
    BY <1>1, NoRequestTyped
  <2> QED BY <2>1, <2>2, FilesAlone DEF IInv
<1> QED BY <1>2, <1>3 DEF IInv

-----------------------------------------------------------------------------
(* Each action.                                                            *)

\* A request that is refused, with the lock, ends.
LEMMA RefuseKeeps ==
    ASSUME IInv, NEW c \in Clients, Refuse(c)
    PROVE  IInv'
  BY EndStep DEF Refuse

\* add_device, for a state that differs from the memory in the passphrase only
\* where nobody's is at stake.
LEMMA AddDeviceKeeps ==
    ASSUME IInv, NEW c \in Clients, NEW with \in AuthState,
           HasLock(c, req[c].op), req[c].op \in Claims \cup {"code"}, AddDevice(c, with),
           with.devices = mem.devices,
           told.owner # None => with.passphrase = mem.passphrase,
           mem.setup_complete => with.setup_complete,
           with.passphrase # None => with.setup_complete,
           req[c].op \in Claims => with.setup_complete
    PROVE  IInv'
<1> DEFINE cookie == count.minted + 1
           state == [with EXCEPT !.devices = @ \cup {cookie}]
<1>1. CASE Cardinality(mem.devices) < MAX_DEVICES
  <2>1. /\ cookie <= MaxMinted /\ Change(c, state, cookie) /\ UNCHANGED told
    BY <1>1 DEF AddDevice
  <2>2. /\ count.minted \in Nat /\ mem.devices \subseteq Devices
        /\ mem.devices \subseteq 1..count.minted /\ told \in History
    BY DEF IInv, MemInv, MemType, Counts, AuthState, Sane
  <2>3. /\ cookie \in Devices /\ cookie # 0 /\ cookie \in Nat
        /\ cookie \notin mem.devices
    BY <2>1, <2>2, BoundsAssumption DEF Devices
  <2>4. /\ state \in AuthState /\ state.devices = mem.devices \cup {cookie}
        /\ state.passphrase = with.passphrase
        /\ state.setup_complete = with.setup_complete
    BY <2>2, <2>3 DEF AuthState
  <2>5. Cardinality(state.devices) <= MAX_DEVICES
    <3> HIDE DEF cookie, state
    <3>1. IsFiniteSet(mem.devices) /\ Cardinality(mem.devices) \in Nat
      BY <2>2, DevicesFinite
    <3>2. Cardinality(mem.devices \cup {cookie}) = Cardinality(mem.devices) + 1
      BY <2>3, <3>1, FS_AddElement
    <3> QED BY <1>1, <2>4, <3>1, <3>2, BoundsAssumption
  <2>6. req[c].op # "revoke"
    BY DEF Claims
  <2>7. /\ cookie = 0 \/ (cookie = count.minted + 1 /\ cookie \in Devices)
        /\ state.devices \subseteq mem.devices \cup (IF cookie = 0 THEN {} ELSE {cookie})
        /\ mem.devices \subseteq state.devices \cup told'.revoking
        /\ cookie \in state.devices
    BY <2>3, <2>4
  <2> HIDE DEF cookie, state
  <2> QED BY <2>1, <2>2, <2>3, <2>4, <2>5, <2>6, <2>7, ChangeStep
<1>2. CASE ~(Cardinality(mem.devices) < MAX_DEVICES)
  BY <1>2, RefuseKeeps DEF AddDevice
<1> QED BY <1>1, <1>2

\* finish_setup does not replace the passphrase of an owner who was told: the
\* unit is set up then, and it looks again with the lock.
LEMMA FinishSetupKeeps ==
    ASSUME IInv, NEW c \in Clients, FinishSetup(c)
    PROVE  IInv'
<1>1. CASE Owned(mem)
  BY <1>1, RefuseKeeps DEF FinishSetup
<1>2. CASE ~Owned(mem)
  <2> DEFINE with == [mem EXCEPT !.passphrase = req[c].given, !.setup_complete = TRUE]
  <2>1. mem \in AuthState /\ req[c].given \in Hashes
    BY DEF IInv, MemInv, MemType, Requests
  <2>2. /\ with \in AuthState /\ with.devices = mem.devices /\ with.setup_complete
    BY <2>1 DEF AuthState
  <2>3. told.owner = None
    BY <1>2 DEF IInv, MemInv, Agrees, Owned
  <2>4. /\ HasLock(c, req[c].op) /\ req[c].op \in Claims \cup {"code"}
        /\ AddDevice(c, with)
    BY <1>2 DEF FinishSetup, HasLock, Claims
  <2> HIDE DEF with
  <2> QED BY <2>2, <2>3, <2>4, AddDeviceKeeps
<1> QED BY <1>1, <1>2

\* The other three ways to add a browser keep the passphrase there is.
LEMMA PairKeeps ==
    ASSUME IInv, NEW c \in Clients,
           PairWithPassphrase(c) \/ PairWithAccount(c) \/ PairWithCode(c)
    PROVE  IInv'
<1>1. mem \in AuthState /\ Account \in Hashes /\ mem.passphrase \in Hashes
  BY DEF IInv, MemInv, MemType, AuthState, Hashes
<1>2. CASE PairWithPassphrase(c)
  <2> DEFINE with == [mem EXCEPT !.setup_complete = TRUE]
  <2>1. /\ with \in AuthState /\ with.devices = mem.devices /\ with.setup_complete
        /\ with.passphrase = mem.passphrase
    BY <1>1 DEF AuthState
  <2>2. /\ HasLock(c, req[c].op) /\ req[c].op \in Claims \cup {"code"}
        /\ AddDevice(c, with)
    BY <1>2 DEF PairWithPassphrase, HasLock, Claims
  <2> HIDE DEF with
  <2> QED BY <2>1, <2>2, AddDeviceKeeps
<1>3. CASE PairWithAccount(c)
  <2> DEFINE with == [mem EXCEPT !.passphrase = IF @ = None THEN Account ELSE @,
                                 !.setup_complete = TRUE]
  <2>1. /\ with \in AuthState /\ with.devices = mem.devices /\ with.setup_complete
        /\ mem.passphrase # None => with.passphrase = mem.passphrase
    BY <1>1 DEF AuthState
  <2>2. told.owner # None => mem.passphrase # None
    BY DEF IInv, MemInv, Agrees
  <2>3. /\ HasLock(c, req[c].op) /\ req[c].op \in Claims \cup {"code"}
        /\ AddDevice(c, with)
    BY <1>3 DEF PairWithAccount, HasLock, Claims
  <2> HIDE DEF with
  <2> QED BY <2>1, <2>2, <2>3, AddDeviceKeeps
<1>4. CASE PairWithCode(c)
  <2>1. HasLock(c, req[c].op) /\ req[c].op = "code" /\ AddDevice(c, mem)
        /\ req[c].op \notin Claims
    BY <1>4 DEF PairWithCode, HasLock, Claims
  <2>2. mem.passphrase # None => mem.setup_complete
    BY DEF IInv, MemInv, Sane
  <2> QED BY <1>1, <2>1, <2>2, AddDeviceKeeps
<1> QED BY <1>2, <1>3, <1>4

\* change_passphrase forgets what the owner was told, until it is saved.
LEMMA ChangePassphraseKeeps ==
    ASSUME IInv, NEW c \in Clients, ChangePassphrase(c)
    PROVE  IInv'
<1> DEFINE state == [mem EXCEPT !.passphrase = req[c].given]
<1>1. /\ mem \in AuthState /\ req[c].given \in Hashes /\ told \in History
      /\ Cardinality(mem.devices) <= MAX_DEVICES
  BY DEF IInv, MemInv, MemType, Requests, Sane
<1>2. /\ state \in AuthState /\ state.devices = mem.devices
      /\ state.setup_complete = mem.setup_complete
  BY <1>1 DEF AuthState
<1>3. /\ HasLock(c, req[c].op) /\ req[c].op = "change" /\ Change(c, state, 0)
      /\ told' = [told EXCEPT !.owner = None]
  BY DEF ChangePassphrase, HasLock, Ops
<1>4. mem.setup_complete
  BY <1>3 DEF IInv, MemInv, OwnerInv
<1>5. /\ told' \in History /\ told'.devices = told.devices
      /\ told'.revoked = told.revoked /\ told'.revoking = told.revoking
      /\ told'.owner = None
  BY <1>1, <1>3 DEF History, Hashes
<1>6. req[c].op \notin Claims \cup {"code", "revoke"}
  BY <1>3 DEF Claims
<1> HIDE DEF state
<1> QED
  BY <1>1, <1>2, <1>3, <1>4, <1>5, <1>6, ChangeStep

\* revoke_device takes one device out of the memory.
LEMMA RevokeDeviceKeeps ==
    ASSUME IInv, NEW c \in Clients, RevokeDevice(c)
    PROVE  IInv'
<1>1. CASE req[c].num \notin mem.devices
  BY <1>1, RefuseKeeps DEF RevokeDevice
<1>2. CASE req[c].num \in mem.devices
  <2> DEFINE d == req[c].num
             state == [mem EXCEPT !.devices = @ \ {d}]
  <2>1. /\ mem \in AuthState /\ told \in History
        /\ Cardinality(mem.devices) <= MAX_DEVICES
        /\ mem.devices \subseteq Devices /\ d \in Devices
    BY <1>2 DEF IInv, MemInv, MemType, AuthState, Sane
  <2>2. /\ state \in AuthState /\ state.devices = mem.devices \ {d}
        /\ state.setup_complete = mem.setup_complete
        /\ state.passphrase = mem.passphrase
    BY <2>1 DEF AuthState
  <2>3. Cardinality(state.devices) <= MAX_DEVICES
    <3>1. IsFiniteSet(mem.devices) /\ Cardinality(mem.devices) \in Nat
      BY <2>1, DevicesFinite
    <3>2. Cardinality(mem.devices \ {d}) = Cardinality(mem.devices) - 1
      BY <1>2, <3>1, FS_RemoveElement
    <3>3. Cardinality(mem.devices \ {d}) \in Nat
      BY <2>1, DevicesFinite
    <3> QED BY <2>1, <2>2, <3>1, <3>2, <3>3, BoundsAssumption
  <2>4. /\ HasLock(c, req[c].op) /\ req[c].op = "revoke" /\ Change(c, state, 0)
        /\ told' = [told EXCEPT !.revoking = @ \cup {d}]
    BY <1>2 DEF RevokeDevice, HasLock, Ops
  <2>5. /\ told' \in History /\ told'.devices = told.devices
        /\ told'.revoked = told.revoked /\ told'.revoking = told.revoking \cup {d}
        /\ told'.owner = told.owner
    BY <2>1, <2>4 DEF History
  <2>6. mem.passphrase # None => mem.setup_complete
    BY DEF IInv, MemInv, Sane
  <2>7. req[c].op \notin Claims \cup {"code"}
    BY <2>4 DEF Claims
  <2>8. /\ told'.revoking \subseteq told.revoking \cup mem.devices
        /\ mem.devices \subseteq state.devices \cup told'.revoking
        /\ d \in mem.devices \ state.devices
    BY <1>2, <2>2, <2>5
  <2> HIDE DEF state
  <2> QED
    BY <2>2, <2>3, <2>4, <2>5, <2>6, <2>7, <2>8, ChangeStep
<1> QED BY <1>1, <1>2

\* rename_device and touch save the memory as it is.
LEMMA SameMemoryKeeps ==
    ASSUME IInv, NEW c \in Clients, RenameDevice(c) \/ Touch(c)
    PROVE  IInv'
<1>1. CASE Refuse(c)
  BY <1>1, RefuseKeeps
<1>2. CASE /\ HasLock(c, "rename") \/ HasLock(c, "touch")
           /\ Change(c, mem, 0) /\ UNCHANGED told
  <2>1. HasLock(c, req[c].op) /\ req[c].op \notin Claims \cup {"code", "revoke"}
    BY <1>2 DEF HasLock, Ops, Claims
  <2>2. /\ mem \in AuthState /\ Cardinality(mem.devices) <= MAX_DEVICES
        /\ told \in History
    BY DEF IInv, MemInv, MemType, Sane
  <2>3. mem.passphrase # None => mem.setup_complete
    BY DEF IInv, MemInv, Sane
  <2> QED BY <1>2, <2>1, <2>2, <2>3, ChangeStep
<1> QED BY <1>1, <1>2 DEF RenameDevice, Touch, HasLock

\* The requests up to the lock.
LEMMA BeginKeeps ==
    ASSUME IInv, NEW c \in Clients, Begin(c)
    PROVE  IInv'
<1>1. /\ setupLock \in Clients \cup {None} /\ backoff \in BOOLEAN
      /\ code \in [id: 0..MaxCodes, wrong: 0..(MAX_CODE_ATTEMPTS - 1)]
      /\ count.minted \in Nat /\ mem \in AuthState
  BY DEF IInv, MemInv, MemType, Counts
<1>2. ASSUME NEW p \in Passphrases, BeginSetup(c, p)
      PROVE  IInv'
  <2> DEFINE r == [NoRequest EXCEPT !.pc = "lock", !.op = "setup", !.given = p]
  <2>1. r \in Requests /\ r.pc = "lock" /\ r.op = "setup" /\ r.num = 0
    BY NoRequestTyped DEF NoRequest, Requests, Ops, Hashes, Saving
  <2>2. Ask(c, r) /\ req[c] = NoRequest
    BY <1>2 DEF BeginSetup
  <2> HIDE DEF r
  <2> QED BY <1>1, <1>2, <2>1, <2>2, NoRequestTyped, AskStep DEF BeginSetup, lockVars, Saving
<1>3. ASSUME NEW op \in {"passphrase", "account", "change"},
             NEW p \in Passphrases \cup {Account}, BeginVerify(c, op, p)
      PROVE  IInv'
  <2> DEFINE v == IF op = "account" THEN p = Account ELSE p = mem.passphrase
             r == [NoRequest EXCEPT !.pc = "hash", !.op = op, !.valid = v]
  <2>1. v \in BOOLEAN
    OBVIOUS
  <2>2. /\ r \in Requests /\ r.pc = "hash" /\ r.num = 0 /\ r.op = op
    <3> HIDE DEF v
    <3> QED BY <2>1, NoRequestTyped DEF NoRequest, Requests, Ops, Hashes, Saving
  <2>3. Ask(c, r) /\ req[c] = NoRequest
    BY <1>3 DEF BeginVerify
  <2>4. op = "change" => mem.setup_complete
    BY <1>3 DEF BeginVerify, IInv, MemInv, Sane
  <2> HIDE DEF r
  <2> QED BY <1>1, <1>3, <2>2, <2>3, <2>4, NoRequestTyped, AskStep
         DEF BeginVerify, lockVars, Saving
<1>4. ASSUME NEW right \in BOOLEAN, BeginCode(c, right)
      PROVE  IInv'
  <2>1. req[c] = NoRequest /\ code.id # 0
    BY <1>4 DEF BeginCode
  <2>2. CASE right
    <3> DEFINE r == [NoRequest EXCEPT !.pc = "ready", !.op = "code", !.num = code.id]
    <3>1. r \in Requests /\ r.pc = "ready" /\ r.num = code.id /\ r.op = "code"
      <4>1. code.id \in Nat
        BY <1>1
      <4> QED BY <4>1, NoRequestTyped DEF NoRequest, Requests, Ops, Hashes, Saving
    <3>2. Ask(c, r) /\ code' = NoCode
      BY <1>4, <2>2 DEF BeginCode, TakeCode
    <3>3. code' \in [id: 0..MaxCodes, wrong: 0..(MAX_CODE_ATTEMPTS - 1)] /\ code'.id = 0
      BY <3>2, BoundsAssumption DEF NoCode
    <3> HIDE DEF r
    <3> QED
      BY <1>1, <1>4, <2>1, <3>1, <3>2, <3>3, NoRequestTyped, AskStep
      DEF BeginCode, lockVars, Claims, Saving
  <2>3. CASE ~right
    <3>1. code' = WrongCode(code) /\ UNCHANGED req
      BY <1>4, <2>3 DEF BeginCode
    <3>2. code' \in [id: 0..MaxCodes, wrong: 0..(MAX_CODE_ATTEMPTS - 1)]
          /\ code'.id \in {0, code.id}
      BY <1>1, <3>1, BoundsAssumption DEF WrongCode, NoCode
    <3>3. Ask(c, NoRequest)
      BY <2>1, <3>1 DEF Ask, IInv, MemInv, MemType
    <3> QED
      BY <1>1, <1>4, <2>1, <3>2, <3>3, NoRequestTyped, AskStep
      DEF BeginCode, lockVars, Claims, Saving
  <2> QED BY <2>2, <2>3
<1>5. ASSUME NEW op \in {"revoke", "rename", "touch"}, NEW d \in 1..count.minted,
             BeginOnDevice(c, op, d)
      PROVE  IInv'
  <2> DEFINE n == IF op = "touch" THEN 0 ELSE d
             r == [NoRequest EXCEPT !.pc = "ready", !.op = op, !.num = n]
  <2>1. n \in Nat
    BY <1>1
  <2>2. r \in Requests /\ r.pc = "ready" /\ r.op \in {"revoke", "rename", "touch"}
    <3> HIDE DEF n
    <3> QED BY <2>1, NoRequestTyped DEF NoRequest, Requests, Ops, Hashes, Saving
  <2>3. Ask(c, r) /\ req[c] = NoRequest
    BY <1>5 DEF BeginOnDevice
  <2> HIDE DEF r
  <2> QED BY <1>1, <1>5, <2>2, <2>3, NoRequestTyped, AskStep
         DEF BeginOnDevice, lockVars, Claims, Saving
<1> QED BY <1>2, <1>3, <1>4, <1>5 DEF Begin

\* A claim that gets setup_lock, and a passphrase that was hashed or compared.
LEMMA ClaimHashedKeeps ==
    ASSUME IInv, NEW c \in Clients,
           \/ \E right \in BOOLEAN : Claim(c, right)
           \/ \E new \in Passphrases \cup {None} : Hashed(c, new)
    PROVE  IInv'
<1>1. /\ setupLock \in Clients \cup {None} /\ backoff \in BOOLEAN
      /\ code \in [id: 0..MaxCodes, wrong: 0..(MAX_CODE_ATTEMPTS - 1)]
      /\ req[c] \in Requests
  BY DEF IInv, MemInv, MemType
<1>2. /\ req[c].op = "change" => mem.setup_complete
      /\ req[c].op \in Claims => req[c].num = 0
  BY DEF IInv, MemInv, OwnerInv, CodeInv
<1>3. ASSUME NEW right \in BOOLEAN, Claim(c, right)
      PROVE  IInv'
  <2> DEFINE r == [req[c] EXCEPT !.pc = "hash", !.valid = TRUE]
  <2>1. /\ r \in Requests /\ r.pc = "hash" /\ r.op = req[c].op /\ r.num = req[c].num
    BY <1>1 DEF Requests
  <2>2. Ask(c, r) \/ Ask(c, NoRequest)
    BY <1>3 DEF Claim
  <2>3. req[c].pc \notin Saving /\ setupLock' \in Clients \cup {None}
    BY <1>1, <1>3 DEF Claim, Saving
  <2> HIDE DEF r
  <2> QED BY <1>1, <1>2, <1>3, <2>1, <2>2, <2>3, NoRequestTyped, AskStep
         DEF Claim, Claims, Saving
<1>4. ASSUME NEW new \in Passphrases \cup {None}, Hashed(c, new)
      PROVE  IInv'
  <2> DEFINE g == IF req[c].op = "change" THEN new ELSE req[c].given
             r == [req[c] EXCEPT !.pc = "ready", !.valid = FALSE, !.given = g]
  <2>1. g \in Hashes
    BY <1>1 DEF Requests, Hashes
  <2>2. /\ r \in Requests /\ r.pc = "ready" /\ r.op = req[c].op /\ r.num = req[c].num
    <3> HIDE DEF g
    <3> QED BY <1>1, <2>1 DEF Requests
  <2>3. Ask(c, r) \/ Ask(c, NoRequest)
    BY <1>4 DEF Hashed
  <2>4. req[c].pc \notin Saving /\ backoff' \in BOOLEAN
    BY <1>1, <1>4 DEF Hashed, Requests, Saving
  <2> HIDE DEF r
  <2> QED
    BY <1>1, <1>2, <1>4, <2>2, <2>3, <2>4, NoRequestTyped, AskStep
    DEF Hashed, Claims, lockVars, Saving
<1> QED BY <1>3, <1>4

-----------------------------------------------------------------------------
(* The files.                                                              *)

\* What a file may hold, and the state load finds in it.
LEMMA ContentsTyped ==
    /\ \A kind \in {"absent", "truncated", "torn"} :
          NoText(kind) \in Contents /\ NoText(kind).kind = kind /\ NoText(kind).state = Empty
    /\ \A state \in AuthState :
          Text(state) \in Contents /\ Text(state).kind = "text" /\ Text(state).state = state
    /\ \A f \in Contents : f.state \in AuthState
  BY NoRequestTyped DEF NoText, Text, Contents

\* The default state is one the memory may have had.
LEMMA EmptySane == Sane(Empty) /\ Empty.devices = {} /\ Empty.passphrase = None
  BY FS_EmptySet, BoundsAssumption DEF Sane, Empty

\* One request at a time is saving, and saves the memory.
LEMMA OneSaver ==
    ASSUME MemInv, NEW c \in Clients, req[c].pc \in Saving
    PROVE  /\ \A x \in Clients : x # c => req[x].pc \notin Saving
           /\ req[c].text = mem /\ mem \in AuthState /\ Sane(mem) /\ Agrees(mem)
           /\ req[c] \in Requests
  BY DEF MemInv, MemType, LockInv

\* A write puts nothing in a file but a text that is sane, and touches the file it
\* has open alone.
LEMMA FillEffect ==
    ASSUME FileInv, NEW o, o.text \in AuthState, Sane(o.text), NEW ok \in BOOLEAN,
           Fill(o, ok), count'.minted = count.minted
    PROVE  /\ disk' \in Contents /\ tmp' \in Contents
           /\ Sane(disk.state)' /\ Sane(tmp.state)'
           /\ o.file = "tmp" => disk' = disk
           /\ o.file = "tmp" /\ ok /\ tmp.kind = "truncated" => tmp' = Text(o.text)
<1>1. /\ disk \in Contents /\ tmp \in Contents /\ Sane(disk.state) /\ Sane(tmp.state)
  BY DEF FileInv, FileType
<1>2. /\ Text(o.text) \in Contents /\ Text(o.text).state = o.text
      /\ NoText("torn") \in Contents /\ NoText("torn").state = Empty
  BY ContentsTyped
<1>3. /\ disk' \in {disk, Text(o.text), NoText("torn")}
      /\ tmp' \in {tmp, Text(o.text), NoText("torn")}
  BY DEF Fill, Overlay
<1>4. /\ Sane(disk'.state) /\ Sane(tmp'.state)
  BY <1>1, <1>2, <1>3, EmptySane
<1>5. Sane(disk.state)' /\ Sane(tmp.state)'
  BY <1>4 DEF Sane
<1>6. o.file = "tmp" => disk' = disk
  BY DEF Fill
<1>7. ASSUME o.file = "tmp", ok, tmp.kind = "truncated"
      PROVE  tmp' = Text(o.text)
  BY <1>7 DEF Fill, Overlay
<1> QED BY <1>1, <1>2, <1>3, <1>5, <1>6, <1>7

\* auth.tmp is opened by a request that has the lock.
LEMMA SaveOpenedKeeps ==
    ASSUME IInv, NEW c \in Clients, SaveOpened(c)
    PROVE  IInv'
<1> DEFINE r == [req[c] EXCEPT !.pc = "write", !.file = "tmp"]
<1>1. req[c].pc = "open" /\ req[c].pc \in Saving /\ Ask(c, r)
  BY DEF SaveOpened, Saving
<1>2. /\ \A x \in Clients : x # c => req[x].pc \notin Saving
      /\ req[c] \in Requests
  BY <1>1, OneSaver DEF IInv
<1>3. /\ r \in Requests /\ r.pc = "write" /\ r.file = "tmp" /\ r.op = req[c].op
      /\ r.num = req[c].num /\ r.device = req[c].device /\ r.text = req[c].text
  BY <1>2 DEF Requests, Saving, Files
<1> HIDE DEF r
<1>4. /\ req' \in [Clients -> Requests]
      /\ req'[c] = r
      /\ \A x \in Clients : x # c => req'[x] = req[x]
  BY <1>1, <1>3, AskEffect DEF IInv, MemInv, MemType
<1>5. MemInv'
  <2>1. count \in Counts /\ UNCHANGED <<mem, writer, setupLock, code, backoff, told, count>>
    BY DEF IInv, MemInv, MemType, SaveOpened, lockVars
  <2> QED BY <1>1, <1>3, <1>4, <2>1, SavingOn DEF IInv, Saving
<1>6. /\ tmp' = NoText("truncated") /\ UNCHANGED <<disk, late, told, count>>
      /\ store' = IF Quiet THEN store ELSE "raced"
  BY DEF SaveOpened, Truncate
<1>7. FileType' /\ Sane(disk.state)' /\ Sane(tmp.state)'
        /\ \A n \in 1..MaxLate : Sane(late[n].text)'
  <2>1. tmp' \in Contents /\ tmp'.state = Empty
    BY <1>6, ContentsTyped
  <2>2. Sane(tmp.state)'
    BY <1>6, <2>1, EmptySane DEF Sane
  <2> QED BY <1>6, <2>1, <2>2 DEF IInv, FileInv, FileType, Stores, Sane
<1>8. ASSUME store' = "sound"
      PROVE  SoundInv'
  <2>1. Quiet /\ store = "sound" /\ SoundInv
    BY <1>6, <1>8 DEF IInv, FileInv
  <2>2. Quiet' /\ Agrees(disk.state)'
    BY <1>6, <2>1 DEF Quiet, SoundInv, Agrees
  <2>3. tmp'.kind = "truncated"
    BY <1>6, ContentsTyped
  <2>4. \A x \in Clients : x # c => req'[x].pc \notin Saving
    BY <1>2, <1>4
  <2> QED BY <1>3, <1>4, <2>2, <2>3, <2>4 DEF SoundInv, Quiet, Saving
<1> QED BY <1>5, <1>7, <1>8 DEF IInv, FileInv

\* And written.
LEMMA SaveWrittenKeeps ==
    ASSUME IInv, NEW c \in Clients, SaveWritten(c)
    PROVE  IInv'
<1> DEFINE r == [req[c] EXCEPT !.pc = "rename", !.file = "gone"]
<1>1. req[c].pc = "write" /\ req[c].pc \in Saving /\ Ask(c, r)
  BY DEF SaveWritten, Saving
<1>2. /\ \A x \in Clients : x # c => req[x].pc \notin Saving
      /\ req[c] \in Requests /\ req[c].text \in AuthState /\ Sane(req[c].text)
  BY <1>1, OneSaver DEF IInv
<1>3. /\ r \in Requests /\ r.pc = "rename" /\ r.op = req[c].op
      /\ r.num = req[c].num /\ r.device = req[c].device /\ r.text = req[c].text
  BY <1>2 DEF Requests, Saving, Files
<1> HIDE DEF r
<1>4. /\ req' \in [Clients -> Requests]
      /\ req'[c] = r
      /\ \A x \in Clients : x # c => req'[x] = req[x]
  BY <1>1, <1>3, AskEffect DEF IInv, MemInv, MemType
<1>5. MemInv'
  <2>1. count \in Counts /\ UNCHANGED <<mem, writer, setupLock, code, backoff, told, count>>
    BY DEF IInv, MemInv, MemType, SaveWritten, lockVars
  <2> QED BY <1>1, <1>3, <1>4, <2>1, SavingOn DEF IInv, Saving
<1>6. UNCHANGED <<late, store, told, count>> /\ Fill(req[c], TRUE)
  BY DEF SaveWritten
<1>7. /\ disk' \in Contents /\ tmp' \in Contents /\ Sane(disk.state)' /\ Sane(tmp.state)'
      /\ req[c].file = "tmp" => disk' = disk
      /\ req[c].file = "tmp" /\ tmp.kind = "truncated" => tmp' = Text(req[c].text)
  BY <1>2, <1>6, FillEffect DEF IInv
<1>8. FileType' /\ \A n \in 1..MaxLate : Sane(late[n].text)'
  BY <1>6, <1>7 DEF IInv, FileInv, FileType, Sane
<1>9. ASSUME store' = "sound"
      PROVE  SoundInv'
  <2>1. SoundInv /\ Quiet /\ disk' = disk /\ tmp' = Text(req[c].text)
    BY <1>1, <1>6, <1>7, <1>9 DEF IInv, FileInv, SoundInv
  <2>2. Quiet' /\ Agrees(disk.state)'
    BY <1>6, <2>1 DEF Quiet, SoundInv, Agrees
  <2>3. \A x \in Clients : x # c => req'[x].pc \notin Saving
    BY <1>2, <1>4
  <2> QED BY <1>3, <1>4, <2>1, <2>2, <2>3 DEF SoundInv, Quiet, Saving
<1> QED BY <1>5, <1>7, <1>8, <1>9 DEF IInv, FileInv

\* A request or an operation differs in the file it has open alone once a rename is
\* made.
LEMMA MovedTyped ==
    /\ \A r \in Requests :
          /\ Moved(r) \in Requests /\ Moved(r).pc = r.pc /\ Moved(r).op = r.op
          /\ Moved(r).num = r.num /\ Moved(r).device = r.device /\ Moved(r).text = r.text
    /\ \A o \in Operations :
          Moved(o) \in Operations /\ Moved(o).step = o.step /\ Moved(o).text = o.text
  BY DEF Moved, Requests, Operations, Files

\* auth.tmp is renamed and the browser is told.
LEMMA SaveRenamedKeeps ==
    ASSUME IInv, NEW c \in Clients, SaveRenamed(c)
    PROVE  IInv'
<1>1. req[c].pc = "rename" /\ req[c].pc \in Saving
  BY DEF SaveRenamed, Saving
<1>2. /\ \A x \in Clients : x # c => req[x].pc \notin Saving
      /\ req[c].text = mem /\ mem \in AuthState
  BY <1>1, OneSaver DEF IInv
<1>3. /\ req \in [Clients -> Requests] /\ count \in Counts
      /\ late \in [1..MaxLate -> Operations]
  BY DEF IInv, MemInv, MemType, FileInv, FileType
<1>4. /\ req' \in [Clients -> Requests] /\ req'[c] = NoRequest
      /\ \A x \in Clients : x # c =>
            /\ req'[x].pc = req[x].pc /\ req'[x].op = req[x].op
            /\ req'[x].num = req[x].num /\ req'[x].device = req[x].device
            /\ req'[x].text = req[x].text
  <2>1. req' = [d \in Clients |-> IF d = c THEN NoRequest ELSE Moved(req[d])]
    BY DEF SaveRenamed
  <2> QED BY <1>3, <2>1, MovedTyped, NoRequestTyped
<1>5. /\ UNCHANGED <<mem, code, backoff, count>> /\ Release(c) /\ told' = Told(c)
      /\ disk' = tmp /\ tmp' = NoText("absent")
      /\ store' = IF Quiet /\ tmp = Text(req[c].text) THEN "sound" ELSE store
  BY DEF SaveRenamed, Rename
<1>6. MemInv'
  BY <1>1, <1>3, <1>4, <1>5, EndMem DEF IInv
<1>7. /\ late' \in [1..MaxLate -> Operations]
      /\ \A n \in 1..MaxLate : late'[n].step = late[n].step /\ late'[n].text = late[n].text
  <2>1. late' = [n \in 1..MaxLate |-> Moved(late[n])]
    BY DEF SaveRenamed
  <2> QED BY <1>3, <2>1, MovedTyped
<1>8. FileType' /\ Sane(disk.state)' /\ Sane(tmp.state)'
        /\ \A n \in 1..MaxLate : Sane(late[n].text)'
  <2>1. tmp' \in Contents /\ tmp'.state = Empty
    BY <1>5, ContentsTyped
  <2>2. Sane(tmp.state)'
    BY <1>5, <2>1, EmptySane DEF Sane
  <2>3. FileType'
    BY <1>5, <1>7, <2>1 DEF IInv, FileInv, FileType, Stores
  <2> QED BY <1>5, <1>7, <2>2, <2>3 DEF IInv, FileInv, Sane
<1>9. ASSUME store' = "sound"
      PROVE  SoundInv'
  <2>1. Quiet /\ tmp = Text(mem)
    BY <1>1, <1>2, <1>5, <1>9 DEF IInv, FileInv, SoundInv
  <2>2. disk'.state = mem'
    BY <1>2, <1>5, <2>1, ContentsTyped
  <2>3. Agrees(disk.state)'
    BY <1>6, <2>2 DEF MemInv, Agrees
  <2>4. \A n \in 1..MaxLate : late'[n].step = "none"
    BY <1>7, <2>1 DEF Quiet
  <2>5. \A x \in Clients : req'[x].pc \notin {"write", "rename"}
    BY <1>2, <1>4, NoRequestTyped DEF Saving
  <2> QED BY <2>3, <2>4, <2>5 DEF SoundInv
<1> QED BY <1>6, <1>8, <1>9 DEF IInv, FileInv

\* A save that fails leaves half a text in auth.tmp at most.
LEMMA SaveFailsKeeps ==
    ASSUME IInv, NEW c \in Clients, SaveFails(c)
    PROVE  IInv'
<1>1. req[c].pc \in Saving
  BY DEF SaveFails
<1>2. /\ \A x \in Clients : x # c => req[x].pc \notin Saving
      /\ req[c].text \in AuthState /\ Sane(req[c].text)
  BY <1>1, OneSaver DEF IInv
<1>3. /\ req' \in [Clients -> Requests]
      /\ req'[c] = NoRequest
      /\ \A x \in Clients : x # c => req'[x] = req[x]
  BY AskEffect, NoRequestTyped DEF IInv, MemInv, MemType, SaveFails, Answer
<1>4. /\ count' \in Counts /\ count'.codes = count.codes /\ count'.minted = count.minted
  BY BoundsAssumption DEF IInv, MemInv, MemType, Counts, SaveFails, Failing
<1>5. MemInv'
  BY <1>3, <1>4, EndMem DEF IInv, SaveFails, Answer
<1>6. /\ disk' \in Contents /\ tmp' \in Contents /\ Sane(disk.state)' /\ Sane(tmp.state)'
      /\ \/ req[c].pc # "write" /\ UNCHANGED <<disk, tmp>>
         \/ req[c].pc = "write" /\ (req[c].file = "tmp" => disk' = disk)
  <2>1. CASE req[c].pc = "write"
    <3>1. Fill(req[c], FALSE)
      BY <2>1 DEF SaveFails, Failing
    <3> QED BY <1>2, <1>4, <2>1, <3>1, FillEffect DEF IInv
  <2>2. CASE req[c].pc # "write"
    <3>1. UNCHANGED <<disk, tmp>>
      BY <2>2 DEF SaveFails, Failing
    <3> QED BY <1>4, <2>2, <3>1 DEF IInv, FileInv, FileType, Sane
  <2> QED BY <2>1, <2>2
<1>7. UNCHANGED <<late, store, told>>
  BY DEF SaveFails, Answer
<1>8. FileType' /\ \A n \in 1..MaxLate : Sane(late[n].text)'
  BY <1>4, <1>6, <1>7 DEF IInv, FileInv, FileType, Sane
<1>9. ASSUME store' = "sound"
      PROVE  SoundInv'
  <2>1. SoundInv
    BY <1>7, <1>9 DEF IInv, FileInv
  <2>2. disk' = disk
    BY <1>6, <2>1 DEF SoundInv
  <2>3. Agrees(disk.state)'
    BY <1>7, <2>1, <2>2 DEF SoundInv, Agrees
  <2>4. \A x \in Clients : req'[x].pc \notin {"write", "rename"}
    BY <1>2, <1>3, NoRequestTyped DEF Saving
  <2>5. ASSUME NEW n \in 1..MaxLate, late[n].step = "rename"
        PROVE  tmp' = tmp
    BY <1>6, <2>1, <2>5 DEF SoundInv, Quiet
  <2>6. ASSUME NEW n \in 1..MaxLate, late[n].step = "rename"
        PROVE  Agrees(tmp.state)'
    BY <1>7, <2>1, <2>5, <2>6 DEF SoundInv, Agrees
  <2> QED BY <1>7, <2>1, <2>3, <2>4, <2>6 DEF SoundInv
<1> QED BY <1>5, <1>6, <1>8, <1>9 DEF IInv, FileInv

\* What a request that is dropped leaves to the thread pool.
LEMMA PendingTyped ==
    ASSUME NEW r \in Requests, r.pc \in Saving, Sane(r.text)
    PROVE  /\ Pending(r) \in Operations /\ Pending(r).step = r.pc
           /\ Pending(r).file = r.file /\ Sane(Pending(r).text)
<1>1. /\ Pending(r) \in Operations /\ Pending(r).step = r.pc /\ Pending(r).file = r.file
      /\ Pending(r).text \in {r.text, Empty}
  BY NoRequestTyped DEF Pending, Operations, Requests
<1> QED BY <1>1, EmptySane

\* A request that is dropped gives the lock back; if it was saving, one of its
\* operations is still to come.
LEMMA HangUpKeeps ==
    ASSUME IInv, NEW c \in Clients, HangUp(c)
    PROVE  IInv'
<1>1. CASE req[c].pc \notin Saving
  BY <1>1, EndStep DEF HangUp, Answer, fileVars
<1>2. CASE req[c].pc \in Saving
  <2> DEFINE k == count'.dropped
  <2>1. /\ \A x \in Clients : x # c => req[x].pc \notin Saving
        /\ req[c].text = mem /\ mem \in AuthState /\ Sane(mem) /\ Agrees(mem)
        /\ req[c] \in Requests
    BY <1>2, OneSaver DEF IInv
  <2>2. /\ req' \in [Clients -> Requests]
        /\ req'[c] = NoRequest
        /\ \A x \in Clients : x # c => req'[x] = req[x]
    BY AskEffect, NoRequestTyped DEF IInv, MemInv, MemType, HangUp, Answer
  <2>3. /\ count' \in Counts /\ count'.codes = count.codes /\ count'.minted = count.minted
        /\ k \in 1..MaxLate
    BY <1>2, BoundsAssumption DEF IInv, MemInv, MemType, Counts, HangUp
  <2>4. MemInv'
    BY <2>2, <2>3, EndMem DEF IInv, HangUp, Answer
  <2>5. /\ Pending(req[c]) \in Operations /\ Pending(req[c]).step = req[c].pc
        /\ Pending(req[c]).file = req[c].file /\ Sane(Pending(req[c]).text)
    BY <1>2, <2>1, PendingTyped
  <2>6. /\ late' \in [1..MaxLate -> Operations] /\ late'[k] = Pending(req[c])
        /\ \A n \in 1..MaxLate : n # k => late'[n] = late[n]
    <3>1. late' = [late EXCEPT ![k] = Pending(req[c])]
      BY <1>2 DEF HangUp
    <3>2. late \in [1..MaxLate -> Operations]
      BY DEF IInv, FileInv, FileType
    <3> HIDE DEF k
    <3> QED BY <2>3, <2>5, <3>1, <3>2
  <2> HIDE DEF k
  <2>7. UNCHANGED <<disk, tmp, store, told>>
    BY DEF HangUp, Answer
  <2>8. FileType' /\ Sane(disk.state)' /\ Sane(tmp.state)'
          /\ \A n \in 1..MaxLate : Sane(late[n].text)'
    <3>1. \A n \in 1..MaxLate : Sane(late'[n].text)
      BY <2>5, <2>6 DEF IInv, FileInv
    <3> QED BY <2>3, <2>6, <2>7, <3>1 DEF IInv, FileInv, FileType, Sane
  <2>9. ASSUME store' = "sound"
        PROVE  SoundInv'
    <3>1. SoundInv
      BY <2>7, <2>9 DEF IInv, FileInv
    <3>2. Agrees(disk.state)' /\ (Agrees(tmp.state) => Agrees(tmp.state)')
      BY <2>7, <3>1 DEF SoundInv, Agrees
    <3>3. \A x \in Clients : req'[x].pc \notin {"write", "rename"}
      BY <2>1, <2>2, NoRequestTyped DEF Saving
    <3>4. CASE req[c].pc = "open"
      BY <2>5, <2>6, <3>1, <3>2, <3>3, <3>4 DEF SoundInv
    <3>5. CASE req[c].pc # "open"
      <4>1. /\ \A n \in 1..MaxLate : late[n].step = "none"
            /\ req[c].pc = "write" => req[c].file = "tmp"
            /\ req[c].pc = "rename" => tmp = Text(mem)
        BY <1>2, <2>1, <3>1, <3>5 DEF SoundInv, Saving, Quiet
      <4>2. req[c].pc = "rename" => Agrees(tmp.state)
        BY <2>1, <4>1, ContentsTyped
      <4>3. \A n \in 1..MaxLate : late'[n].step # "none" => n = k
        BY <2>6, <4>1
      <4> QED BY <2>5, <2>6, <3>2, <3>3, <4>1, <4>2, <4>3 DEF SoundInv
    <3> QED BY <3>4, <3>5
  <2> QED BY <2>4, <2>8, <2>9 DEF IInv, FileInv
<1> QED BY <1>1, <1>2

\* With one operation fewer to come the rest is as it was.
LEMMA LateDone ==
    ASSUME FileInv, NEW n \in 1..MaxLate, late' = [late EXCEPT ![n] = NoOperation]
    PROVE  /\ late' \in [1..MaxLate -> Operations]
           /\ late'[n].step = "none"
           /\ \A m \in 1..MaxLate : m # n => late'[m] = late[m]
           /\ \A m \in 1..MaxLate : Sane(late'[m].text)
<1>1. /\ NoOperation \in Operations /\ NoOperation.step = "none"
      /\ NoOperation.text = Empty
  BY NoRequestTyped DEF NoOperation, Operations, Files
<1> QED BY <1>1, EmptySane DEF FileInv, FileType

\* An operation of a dropped save takes effect or fails: the memory knows nothing
\* of it.
LEMMA LateMem ==
    ASSUME IInv, NEW n \in 1..MaxLate,
           LateOpen(n) \/ LateWrite(n) \/ LateRename(n) \/ LateFails(n)
    PROVE  /\ MemInv' /\ count'.minted = count.minted /\ UNCHANGED told
           /\ \A c \in Clients : req'[c].pc = req[c].pc
<1>1. req \in [Clients -> Requests] /\ count \in Counts
  BY DEF IInv, MemInv, MemType
<1>2. /\ req' \in [Clients -> Requests]
      /\ \A c \in Clients :
            /\ req'[c].pc = req[c].pc /\ req'[c].op = req[c].op
            /\ req'[c].num = req[c].num /\ req'[c].device = req[c].device
            /\ req'[c].text = req[c].text
  <2>1. req' = req \/ req' = [c \in Clients |-> Moved(req[c])]
    BY DEF LateOpen, LateWrite, LateRename, LateFails
  <2> QED BY <1>1, <2>1, MovedTyped
<1>3. /\ count' \in Counts /\ count'.codes = count.codes /\ count'.minted = count.minted
  <2>1. \/ UNCHANGED count
        \/ count.faults < MaxFaults /\ count' = [count EXCEPT !.faults = @ + 1]
    BY DEF LateOpen, LateWrite, LateRename, LateFails, Failing
  <2> QED BY <1>1, <2>1, BoundsAssumption DEF Counts
<1>4. UNCHANGED <<mem, writer, setupLock, code, backoff, told>>
  BY DEF LateOpen, LateWrite, LateRename, LateFails, lockVars
<1> QED BY <1>2, <1>3, <1>4, SavingOn DEF IInv

\* While no two saves have met, nobody has auth.tmp open when such an operation is
\* to come.
LEMMA LateAlone ==
    ASSUME IInv, store = "sound", NEW n \in 1..MaxLate, late[n].step # "none"
    PROVE  SoundInv /\ \A c \in Clients : req[c].pc \notin {"write", "rename"}
  BY DEF IInv, FileInv, SoundInv, Quiet

\* A late truncation.
LEMMA LateOpenKeeps ==
    ASSUME IInv, NEW n \in 1..MaxLate, LateOpen(n)
    PROVE  IInv'
<1>1. /\ MemInv' /\ count'.minted = count.minted /\ UNCHANGED told
      /\ \A c \in Clients : req'[c].pc = req[c].pc
  BY LateMem
<1>2. /\ late' \in [1..MaxLate -> Operations] /\ late'[n].step = "none"
      /\ \A m \in 1..MaxLate : m # n => late'[m] = late[m]
      /\ \A m \in 1..MaxLate : Sane(late'[m].text)
  BY LateDone DEF LateOpen, IInv
<1>3. /\ late[n].step = "open" /\ tmp' = NoText("truncated") /\ disk' = disk
      /\ store' = IF Under("rename") THEN "raced" ELSE store
  BY DEF LateOpen, Truncate
<1>4. FileType' /\ Sane(disk.state)' /\ Sane(tmp.state)'
        /\ \A m \in 1..MaxLate : Sane(late[m].text)'
  <2>1. tmp' \in Contents /\ tmp'.state = Empty
    BY <1>3, ContentsTyped
  <2>2. Sane(tmp.state)'
    BY <1>1, <2>1, EmptySane DEF Sane
  <2> QED BY <1>1, <1>2, <1>3, <2>1, <2>2 DEF IInv, FileInv, FileType, Stores, Sane
<1>5. ASSUME store' = "sound"
      PROVE  SoundInv'
  <2>1. store = "sound" /\ ~Under("rename")
    BY <1>3, <1>5
  <2>2. SoundInv /\ \A c \in Clients : req'[c].pc \notin {"write", "rename"}
    BY <1>1, <1>3, <2>1, LateAlone
  <2>3. Agrees(disk.state)'
    BY <1>1, <1>3, <2>2 DEF SoundInv, Agrees
  <2>4. \A m \in 1..MaxLate : late'[m].step # "rename"
    BY <1>2, <2>1 DEF Under
  <2> QED BY <1>2, <2>2, <2>3, <2>4 DEF SoundInv
<1> QED BY <1>1, <1>4, <1>5 DEF IInv, FileInv

\* A late write, done or failed, and any other operation that fails.
LEMMA LateWriteKeeps ==
    ASSUME IInv, NEW n \in 1..MaxLate, LateWrite(n) \/ LateFails(n)
    PROVE  IInv'
<1>1. /\ MemInv' /\ count'.minted = count.minted /\ UNCHANGED told
      /\ \A c \in Clients : req'[c].pc = req[c].pc
  BY LateMem
<1>2. /\ late' \in [1..MaxLate -> Operations] /\ late'[n].step = "none"
      /\ \A m \in 1..MaxLate : m # n => late'[m] = late[m]
      /\ \A m \in 1..MaxLate : Sane(late'[m].text)
  BY LateDone DEF LateWrite, LateFails, IInv
<1>3. late[n].step # "none" /\ store' = store
  BY DEF LateWrite, LateFails
<1>4. /\ disk' \in Contents /\ tmp' \in Contents /\ Sane(disk.state)' /\ Sane(tmp.state)'
      /\ \/ late[n].step # "write" /\ UNCHANGED <<disk, tmp>>
         \/ late[n].step = "write" /\ (late[n].file = "tmp" => disk' = disk)
  <2>1. CASE late[n].step = "write"
    <3>1. Fill(late[n], TRUE) \/ Fill(late[n], FALSE)
      BY <2>1 DEF LateWrite, LateFails, Failing
    <3>2. late[n].text \in AuthState /\ Sane(late[n].text)
      BY DEF IInv, FileInv, FileType, Operations
    <3> QED BY <1>1, <2>1, <3>1, <3>2, FillEffect DEF IInv
  <2>2. CASE late[n].step # "write"
    <3>1. UNCHANGED <<disk, tmp>>
      BY <2>2 DEF LateWrite, LateFails, Failing
    <3> QED BY <1>1, <2>2, <3>1 DEF IInv, FileInv, FileType, Sane
  <2> QED BY <2>1, <2>2
<1>5. FileType' /\ \A m \in 1..MaxLate : Sane(late[m].text)'
  BY <1>1, <1>2, <1>3, <1>4 DEF IInv, FileInv, FileType, Sane
<1>6. ASSUME store' = "sound"
      PROVE  SoundInv'
  <2>1. SoundInv /\ \A c \in Clients : req'[c].pc \notin {"write", "rename"}
    BY <1>1, <1>3, <1>6, LateAlone
  <2>2. disk' = disk
    BY <1>4, <2>1 DEF SoundInv
  <2>3. Agrees(disk.state)'
    BY <1>1, <2>1, <2>2 DEF SoundInv, Agrees
  <2>4. ASSUME NEW m \in 1..MaxLate, late'[m].step = "rename"
        PROVE  /\ late[m].step = "rename" /\ Agrees(tmp.state)'
               /\ \A i \in 1..MaxLate : late'[i].step \in {"write", "rename"} => i = m
    <3>1. m # n /\ late[m].step = "rename"
      BY <1>2, <2>4
    <3>2. late[n].step # "write" /\ tmp' = tmp
      BY <1>4, <2>1, <3>1 DEF SoundInv
    <3>3. Agrees(tmp.state)'
      BY <1>1, <2>1, <3>1, <3>2 DEF SoundInv, Agrees
    <3> QED BY <1>2, <2>1, <3>1, <3>3 DEF SoundInv
  <2>5. \A m \in 1..MaxLate : late'[m].step = "write" => late'[m].file = "tmp"
    BY <1>2, <2>1 DEF SoundInv
  <2> QED BY <2>1, <2>3, <2>4, <2>5 DEF SoundInv
<1> QED BY <1>1, <1>4, <1>5, <1>6 DEF IInv, FileInv

\* A late rename.
LEMMA LateRenameKeeps ==
    ASSUME IInv, NEW n \in 1..MaxLate, LateRename(n)
    PROVE  IInv'
<1>1. /\ MemInv' /\ count'.minted = count.minted /\ UNCHANGED told
      /\ \A c \in Clients : req'[c].pc = req[c].pc
  BY LateMem
<1>2. late[n].step = "rename" /\ store' = store
  BY DEF LateRename
<1>3. CASE /\ tmp.kind = "absent" /\ late' = [late EXCEPT ![n] = NoOperation]
           /\ UNCHANGED <<disk, tmp, req>>
  <2>1. /\ late' \in [1..MaxLate -> Operations] /\ late'[n].step = "none"
        /\ \A m \in 1..MaxLate : m # n => late'[m] = late[m]
        /\ \A m \in 1..MaxLate : Sane(late'[m].text)
    BY <1>3, LateDone DEF IInv
  <2>2. FileType' /\ Sane(disk.state)' /\ Sane(tmp.state)'
          /\ \A m \in 1..MaxLate : Sane(late[m].text)'
    BY <1>1, <1>2, <1>3, <2>1 DEF IInv, FileInv, FileType, Sane
  <2>3. ASSUME store' = "sound"
        PROVE  SoundInv'
    <3>1. SoundInv /\ \A c \in Clients : req'[c].pc \notin {"write", "rename"}
      BY <1>1, <1>2, <2>3, LateAlone
    <3>2. Agrees(disk.state)'
      BY <1>1, <1>3, <3>1 DEF SoundInv, Agrees
    <3>3. \A m \in 1..MaxLate : late'[m].step \notin {"write", "rename"}
      BY <1>2, <2>1, <3>1 DEF SoundInv
    <3> QED BY <3>1, <3>2, <3>3 DEF SoundInv
  <2> QED BY <1>1, <2>2, <2>3 DEF IInv, FileInv
<1>4. CASE /\ Rename
           /\ late' = [m \in 1..MaxLate |-> IF m = n THEN NoOperation ELSE Moved(late[m])]
  <2>1. /\ NoOperation \in Operations /\ NoOperation.step = "none"
        /\ NoOperation.text = Empty /\ late \in [1..MaxLate -> Operations]
    BY NoRequestTyped DEF NoOperation, Operations, Files, IInv, FileInv, FileType
  <2>2. /\ late' \in [1..MaxLate -> Operations] /\ late'[n].step = "none"
        /\ \A m \in 1..MaxLate : m # n => late'[m].step = late[m].step
        /\ \A m \in 1..MaxLate : late'[m].text \in {Empty, late[m].text}
    BY <1>4, <2>1, MovedTyped
  <2>3. disk' = tmp /\ tmp' = NoText("absent") /\ tmp' \in Contents /\ tmp'.state = Empty
    BY <1>4, ContentsTyped DEF Rename
  <2>4. FileType' /\ Sane(disk.state)' /\ Sane(tmp.state)'
          /\ \A m \in 1..MaxLate : Sane(late[m].text)'
    <3>1. Sane(tmp.state)'
      BY <1>1, <2>3, EmptySane DEF Sane
    <3>2. \A m \in 1..MaxLate : Sane(late'[m].text)
      BY <2>2, EmptySane DEF IInv, FileInv
    <3> QED BY <1>1, <1>2, <2>2, <2>3, <3>1, <3>2 DEF IInv, FileInv, FileType, Sane
  <2>5. ASSUME store' = "sound"
        PROVE  SoundInv'
    <3>1. SoundInv /\ \A c \in Clients : req'[c].pc \notin {"write", "rename"}
      BY <1>1, <1>2, <2>5, LateAlone
    <3>2. Agrees(tmp.state)
      BY <1>2, <3>1 DEF SoundInv
    <3>3. Agrees(disk.state)'
      BY <1>1, <2>3, <3>2 DEF Agrees
    <3>4. \A m \in 1..MaxLate : late'[m].step \notin {"write", "rename"}
      BY <1>2, <2>2, <3>1 DEF SoundInv
    <3> QED BY <3>1, <3>3, <3>4 DEF SoundInv
  <2> QED BY <1>1, <2>4, <2>5 DEF IInv, FileInv
<1> QED BY <1>3, <1>4 DEF LateRename

-----------------------------------------------------------------------------
\* A code is minted or lapses.
LEMMA CodeStepKeeps ==
    ASSUME IInv, MintCode \/ Lapse
    PROVE  IInv'
<1>1. /\ code \in [id: 0..MaxCodes, wrong: 0..(MAX_CODE_ATTEMPTS - 1)]
      /\ count \in Counts /\ backoff \in BOOLEAN
  BY DEF IInv, MemInv, MemType
<1>2. UNCHANGED <<mem, fileVars, lockVars, req, told>>
  BY DEF MintCode, Lapse
<1>3. /\ count' \in Counts /\ count'.minted = count.minted
      /\ code' \in [id: 0..MaxCodes, wrong: 0..(MAX_CODE_ATTEMPTS - 1)]
      /\ backoff' \in BOOLEAN
      /\ count'.codes >= count.codes
      /\ code'.id \in {0, code.id} \/ (code'.id = count'.codes /\ count'.codes > count.codes)
  <2>1. CASE MintCode
    BY <1>1, <2>1, BoundsAssumption DEF MintCode, Counts
  <2>2. CASE Lapse
    <3>1. count.codes \in Nat /\ UNCHANGED count
      BY <1>1, <2>2 DEF Lapse, Counts
    <3>2. \/ code' = NoCode /\ UNCHANGED backoff
          \/ backoff' = FALSE /\ UNCHANGED code
      BY <2>2 DEF Lapse
    <3>3. NoCode \in [id: 0..MaxCodes, wrong: 0..(MAX_CODE_ATTEMPTS - 1)] /\ NoCode.id = 0
      BY BoundsAssumption DEF NoCode
    <3>4. backoff' \in BOOLEAN
      BY <1>1, <3>2
    <3>5. /\ code' \in [id: 0..MaxCodes, wrong: 0..(MAX_CODE_ATTEMPTS - 1)]
          /\ code'.id \in {0, code.id}
      BY <1>1, <3>2, <3>3
    <3> QED BY <1>1, <3>1, <3>4, <3>5
  <2> QED BY <2>1, <2>2
<1>4. MemType'
  BY <1>2, <1>3 DEF IInv, MemInv, MemType, lockVars
<1>5. /\ LockInv' /\ IssuedInv' /\ SaverInv' /\ OwnerInv' /\ CodeUsedOnce'
      /\ Sane(mem)' /\ Agrees(mem)'
  BY <1>2, <1>3 DEF IInv, MemInv, lockVars, LockInv, IssuedInv, SaverInv, OwnerInv,
                    CodeUsedOnce, Sane, Agrees
<1>6. CodeInv'
  <2>1. \A t \in told.devices : t.code \in Nat
    BY DEF IInv, MemInv, MemType, History
  <2>2. \A c \in Clients : req[c].num \in Nat
    BY DEF IInv, MemInv, MemType, Requests
  <2> QED BY <1>1, <1>2, <1>3, <2>1, <2>2 DEF IInv, MemInv, CodeInv, Counts
<1>7. FileInv'
  BY <1>1, <1>2, <1>3, FilesAlone DEF IInv, Counts
<1> QED BY <1>4, <1>5, <1>6, <1>7 DEF IInv, MemInv

\* The daemon stops, in the middle of a save or not, and reads the file.
LEMMA RestartKeeps ==
    ASSUME IInv, Restart
    PROVE  IInv'
<1>1. /\ req' \in [Clients -> Requests]
      /\ \A c \in Clients : req'[c] = NoRequest
  BY NoRequestTyped DEF Restart
<1>2. /\ writer' = None /\ setupLock' = None /\ code' = NoCode /\ backoff' = FALSE
      /\ mem' = disk.state /\ UNCHANGED <<disk, tmp>> /\ store' \in {"unusable", "sound"}
      /\ told' = IF store = "sound" THEN told ELSE NothingTold
  BY DEF Restart
<1>3. /\ count' \in Counts /\ count'.codes = count.codes /\ count'.minted = count.minted
      /\ count.codes \in Nat /\ count.minted \in Nat
  BY BoundsAssumption DEF Restart, IInv, MemInv, MemType, Counts
<1>4. /\ code' \in [id: 0..MaxCodes, wrong: 0..(MAX_CODE_ATTEMPTS - 1)] /\ code'.id = 0
  BY <1>2, BoundsAssumption DEF NoCode
<1>5. /\ NothingTold \in History /\ NothingTold.devices = {} /\ NothingTold.revoked = {}
      /\ NothingTold.revoking = {} /\ NothingTold.owner = None
  BY DEF NothingTold, History, Hashes
<1>6. MemType'
  <2>1. disk.state \in AuthState
    BY ContentsTyped DEF IInv, FileInv, FileType
  <2>2. told' \in History
    BY <1>2, <1>5 DEF IInv, MemInv, MemType
  <2> QED BY <1>1, <1>2, <1>3, <1>4, <2>1, <2>2 DEF MemType
<1>7. LockInv' /\ SaverInv' /\ OwnerInv'
  BY <1>1, <1>2, NoRequestTyped, ValuesAssumption
  DEF LockInv, SaverInv, OwnerInv, Saving
<1>8. IssuedInv' /\ CodeUsedOnce'
  BY <1>2, <1>3, <1>5 DEF IInv, MemInv, IssuedInv, CodeUsedOnce
<1>9. CodeInv'
  <2>1. \A t \in told'.devices : t \in told.devices
    BY <1>2, <1>5
  <2> QED BY <1>1, <1>3, <1>4, <2>1, NoRequestTyped DEF IInv, MemInv, CodeInv, Claims
<1>10. Sane(mem)' /\ Sane(disk.state)' /\ Sane(tmp.state)'
  BY <1>2, <1>3 DEF IInv, FileInv, Sane
<1>11. Agrees(mem)' /\ Agrees(disk.state)'
  <2>1. CASE store = "sound"
    BY <1>2, <2>1 DEF IInv, FileInv, SoundInv, Agrees
  <2>2. CASE store # "sound"
    BY <1>2, <1>5, <2>2 DEF Agrees
  <2> QED BY <2>1, <2>2
<1>12. /\ late' \in [1..MaxLate -> Operations]
       /\ \A n \in 1..MaxLate : late'[n].step = "none" /\ late'[n].text = Empty
  <2>1. late' = [n \in 1..MaxLate |-> NoOperation]
    BY DEF Restart
  <2> QED BY <2>1, NoRequestTyped DEF NoOperation, Operations, Files
<1>13. FileInv'
  <2>1. FileType'
    BY <1>2, <1>12 DEF IInv, FileInv, FileType, Stores
  <2>2. \A n \in 1..MaxLate : Sane(late[n].text)'
    BY <1>3, <1>12, EmptySane DEF Sane
  <2>3. SoundInv'
    BY <1>1, <1>11, <1>12, NoRequestTyped DEF SoundInv
  <2> QED BY <1>10, <2>1, <2>2, <2>3 DEF FileInv
<1> QED BY <1>6, <1>7, <1>8, <1>9, <1>10, <1>11, <1>13 DEF IInv, MemInv

-----------------------------------------------------------------------------
\* The invariant holds on a unit nobody has set up.
LEMMA InitIInv == Init => IInv
<1> SUFFICES ASSUME Init PROVE IInv
  OBVIOUS
<1>1. /\ req \in [Clients -> Requests]
      /\ \A c \in Clients : req[c] = NoRequest
  BY NoRequestTyped DEF Init
<1>2. /\ mem = Empty /\ disk \in Contents /\ disk.state = Empty
      /\ tmp \in Contents /\ tmp.state = Empty
  BY ContentsTyped DEF Init
<1>3. /\ told.devices = {} /\ told.revoked = {} /\ told.revoking = {}
      /\ told.owner = None /\ told \in History
  BY DEF Init, NothingTold, History, Hashes
<1>4. /\ code \in [id: 0..MaxCodes, wrong: 0..(MAX_CODE_ATTEMPTS - 1)] /\ code.id = 0
      /\ count \in Counts /\ count.codes \in Nat
  BY BoundsAssumption, StartsAssumption DEF Init, NoCode, Counts
<1>5. MemType
  <2>1. mem \in AuthState
    BY <1>2, NoRequestTyped
  <2>2. /\ writer \in Clients \cup {None} /\ setupLock \in Clients \cup {None}
        /\ backoff \in BOOLEAN
    BY DEF Init
  <2> QED BY <1>1, <1>3, <1>4, <2>1, <2>2 DEF MemType
<1>6. LockInv /\ SaverInv /\ OwnerInv
  BY <1>1, NoRequestTyped, ValuesAssumption DEF Init, LockInv, SaverInv, OwnerInv, Saving
<1>7. IssuedInv /\ CodeInv /\ CodeUsedOnce
  BY <1>1, <1>3, <1>4, NoRequestTyped DEF IssuedInv, CodeInv, CodeUsedOnce, Claims
<1>8. Sane(mem) /\ Sane(disk.state) /\ Sane(tmp.state)
  BY <1>2, EmptySane
<1>9. Agrees(mem) /\ Agrees(disk.state)
  BY <1>3 DEF Agrees
<1>10. FileInv
  <2>1. /\ late \in [1..MaxLate -> Operations]
        /\ \A n \in 1..MaxLate : late[n].step = "none" /\ late[n].text = Empty
    BY NoRequestTyped DEF Init, NoOperation, Operations, Files
  <2>2. \A n \in 1..MaxLate : Sane(late[n].text)
    BY <2>1, EmptySane
  <2>3. FileType
    BY <1>2, <2>1 DEF Init, FileType, Stores
  <2>4. SoundInv
    BY <1>1, <1>9, <2>1, NoRequestTyped DEF SoundInv
  <2> QED BY <1>8, <2>2, <2>3, <2>4 DEF FileInv
<1> QED BY <1>5, <1>6, <1>7, <1>8, <1>9, <1>10 DEF IInv, MemInv

\* Every step keeps the invariant.
LEMMA NextIInv == IInv /\ [Next]_vars => IInv'
<1> SUFFICES ASSUME IInv, [Next]_vars PROVE IInv'
  OBVIOUS
<1>1. CASE MintCode \/ Lapse
  BY <1>1, CodeStepKeeps
<1>2. CASE Restart
  BY <1>2, RestartKeeps
<1>3. ASSUME NEW c \in Clients, Begin(c) PROVE IInv'
  BY <1>3, BeginKeeps
<1>4. ASSUME NEW c \in Clients,
             \/ \E right \in BOOLEAN : Claim(c, right)
             \/ \E new \in Passphrases \cup {None} : Hashed(c, new)
      PROVE  IInv'
  BY <1>4, ClaimHashedKeeps
<1>5. ASSUME NEW c \in Clients, FinishSetup(c) PROVE IInv'
  BY <1>5, FinishSetupKeeps
<1>6. ASSUME NEW c \in Clients,
             PairWithPassphrase(c) \/ PairWithAccount(c) \/ PairWithCode(c)
      PROVE  IInv'
  BY <1>6, PairKeeps
<1>7. ASSUME NEW c \in Clients, ChangePassphrase(c) PROVE IInv'
  BY <1>7, ChangePassphraseKeeps
<1>8. ASSUME NEW c \in Clients, RevokeDevice(c) PROVE IInv'
  BY <1>8, RevokeDeviceKeeps
<1>9. ASSUME NEW c \in Clients, RenameDevice(c) \/ Touch(c) PROVE IInv'
  BY <1>9, SameMemoryKeeps
<1>10. ASSUME NEW c \in Clients, SaveOpened(c) PROVE IInv'
  BY <1>10, SaveOpenedKeeps
<1>11. ASSUME NEW c \in Clients, SaveWritten(c) PROVE IInv'
  BY <1>11, SaveWrittenKeeps
<1>12. ASSUME NEW c \in Clients, SaveRenamed(c) PROVE IInv'
  BY <1>12, SaveRenamedKeeps
<1>13. ASSUME NEW c \in Clients, SaveFindsNoFile(c) \/ SaveNowhere(c) PROVE IInv'
  BY <1>13, EndStep DEF SaveFindsNoFile, SaveNowhere, Answer, Saving
<1>14. ASSUME NEW c \in Clients, SaveFails(c) PROVE IInv'
  BY <1>14, SaveFailsKeeps
<1>15. ASSUME NEW c \in Clients, HangUp(c) PROVE IInv'
  BY <1>15, HangUpKeeps
<1>16. ASSUME NEW n \in 1..MaxLate, LateOpen(n) PROVE IInv'
  BY <1>16, LateOpenKeeps
<1>17. ASSUME NEW n \in 1..MaxLate, LateWrite(n) \/ LateFails(n) PROVE IInv'
  BY <1>17, LateWriteKeeps
<1>18. ASSUME NEW n \in 1..MaxLate, LateRename(n) PROVE IInv'
  BY <1>18, LateRenameKeeps
<1>19. CASE UNCHANGED vars
  <2>1. MemInv'
    BY <1>19 DEF vars, IInv, MemInv, MemType, LockInv, IssuedInv, SaverInv, OwnerInv,
                 CodeInv, CodeUsedOnce, Sane, Agrees
  <2>2. count.minted \in Nat
    BY DEF IInv, MemInv, MemType, Counts
  <2>3. FileInv'
    BY <1>19, <2>2, FilesAlone DEF vars, fileVars, IInv
  <2> QED BY <2>1, <2>3 DEF IInv
<1> QED
  BY <1>1, <1>2, <1>3, <1>4, <1>5, <1>6, <1>7, <1>8, <1>9, <1>10, <1>11, <1>12, <1>13,
     <1>14, <1>15, <1>16, <1>17, <1>18, <1>19 DEF Next

\* The invariant holds in every reachable state.
LEMMA SpecIInv == Spec => []IInv
  BY InitIInv, NextIInv, PTL DEF Spec

\* A browser that was told it is trusted stays so until it is revoked, in memory and,
\* unless saves have met in auth.tmp, in the file (finish_setup, pair_with_passphrase,
\* pair_with_code, save, write_atomic).
THEOREM TrustIsKept == Spec => []ToldIsKept
<1>1. IInv => ToldIsKept
  BY DEF IInv, MemInv, FileInv, SoundInv, Agrees, ToldIsKept
<1> QED BY <1>1, SpecIInv, PTL

\* A device whose revocation was confirmed never comes back, whatever was being
\* saved at the time and whenever the daemon restarts, unless saves have met in
\* auth.tmp (revoke_device, write_atomic).
THEOREM RevocationIsFinal == Spec => []RevokedIsGone
<1>1. IInv => RevokedIsGone
  BY DEF IInv, MemInv, FileInv, SoundInv, Agrees, RevokedIsGone
<1> QED BY <1>1, SpecIInv, PTL

\* The passphrase that was confirmed is in force until it is changed, in memory and,
\* unless saves have met in auth.tmp, in the file: first contact happens once, however
\* many setups were under way (finish_setup, write_atomic).
THEOREM FirstContactOnce == Spec => []OwnerKept
<1>1. IInv => OwnerKept
  BY DEF IInv, MemInv, FileInv, SoundInv, Agrees, OwnerKept
<1> QED BY <1>1, SpecIInv, PTL

\* The pairing store is well formed, holds at most MAX_DEVICES devices, and a code
\* lets one browser in (mint_code, add_device).
THEOREM PairingSound == Spec => []PairingInv
<1>1. IInv => PairingInv
  BY DEF IInv, MemInv, MemType, FileInv, FileType, Sane, TypeOK, PairingInv
<1> QED BY <1>1, SpecIInv, PTL
=============================================================================
