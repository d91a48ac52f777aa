------------------------------ MODULE Detectors ------------------------------
(***************************************************************************)
(* The detectors of lib/src/analysis: what each of them keeps between two  *)
(* messages and what it says of the next one.  A detector is an operator   *)
(* that takes its state and an information element and returns the next    *)
(* state and the event, as `analyze_information_element` does.  The        *)
(* harness that feeds them is module Harness.                              *)
(*                                                                         *)
(* An information element is a record: `is` names the kind of message the  *)
(* detectors match on, the other fields are the values they read.  Two     *)
(* kinds no detector tells apart share one name.                           *)
(***************************************************************************)
EXTENDS Integers, FiniteSets, FiniteSetsExt, Functions

CONSTANTS
  TIMEOUT_THRESHHOLD,         \* messages an identity request may stay unanswered
  WINDOW,                     \* packets a failure or a request stays relevant
  FORGED_CHALLENGES_TO_WARN,
  SYNCH_FAILURES_TO_WARN,
  JUMP_THRESHOLD_STEPS,
  SAMPLES_FOR_BASELINE,
  MAX_CELLS,
  NAS_TIMEOUT,                \* in units of the packets' timestamps
  home_plmn                   \* the networks the SIM calls home

ASSUME DetectorsAssumption ==
  /\ {TIMEOUT_THRESHHOLD, WINDOW, FORGED_CHALLENGES_TO_WARN, SYNCH_FAILURES_TO_WARN,
      JUMP_THRESHOLD_STEPS, SAMPLES_FOR_BASELINE, MAX_CELLS, NAS_TIMEOUT} \subseteq Nat \ {0}
  /\ IsFiniteSet(home_plmn)

\* A packet number, a priority, a cell or a time that is not known.
None == -1

\* EventType in its order, and a detector that says nothing.
Silent == -1
Informational == 0
Low == 1
Medium == 2
High == 3

\* What a detector returns: its next state and its event.
Out(s, e) == [st |-> s, ev |-> e]

NasMessages ==
  {"AttachRequest", "ExtServiceRequest", "CheckIn", "IdentityRequest", "AuthenticationFailure",
   "AuthenticationResponse", "SecurityModeCommand", "Accept", "AttachComplete", "Reject",
   "AttachReject", "GenericTransport", "OtherNas"}

-----------------------------------------------------------------------------
(* Identity requested in a suspicious manner (imsi_requested.rs).          *)

ImsiStart == [state |-> "Unattached", timeout_counter |-> 0,
              likely_enb_plmns |-> {}, likely_ue_plmn |-> None]

enb_is_home_network(s) ==
  s.likely_enb_plmns \intersect (home_plmn \union {s.likely_ue_plmn}) # {}

\* The state a message moves the exchange to.  A service reject, a detach and
\* a tracking area update reject are all a "Reject" here.
ImsiMove(ie) ==
  CASE ie.is \in {"AttachRequest", "ExtServiceRequest", "RrcConnectionRequest"} -> "AttachRequest"
    [] ie.is = "IdentityRequest"                                              -> "IdentityRequest"
    [] ie.is \in {"AttachComplete", "AuthenticationResponse"}                 -> "AuthAccept"
    [] ie.is = "AttachReject" /\ ie.not_allowed                               -> "LikelyValidAttachReject"
    [] ie.is = "Reject" \/ (ie.is = "AttachReject" /\ ~ie.not_allowed)        -> "Disconnect"
    [] OTHER                                                                  -> "stays"

\* The flag `transition` raises.
ImsiFlag(s, next) ==
  CASE next = "AuthAccept"                                                    -> Silent
    [] next = "IdentityRequest" /\ s.state \in {"AuthAccept", "Disconnect"}   -> High
    [] s.state = "IdentityRequest" /\ next = "LikelyValidAttachReject"        -> Low
    [] s.state = "IdentityRequest" /\ next = "Disconnect" ->
         IF enb_is_home_network(s) THEN High ELSE Low
    [] OTHER                                                                  -> Silent

\* The counter starts again with an authentication, and with an identity
\* request that raises no flag.
ImsiTransition(s, next) ==
  [s EXCEPT !.state = IF next = "LikelyValidAttachReject" THEN "Disconnect" ELSE next,
            !.timeout_counter =
              IF \/ next = "AuthAccept"
                 \/ next = "IdentityRequest" /\ s.state \notin {"AuthAccept", "Disconnect"}
              THEN 0 ELSE @]

TooOld(counter) == counter >= TIMEOUT_THRESHHOLD

\* The end of the handler: an open identity request grows older with every
\* message, and the note that it grew too old replaces the flag.
ImsiTimeout(s, flag) ==
  IF s.state # "IdentityRequest" THEN Out(s, flag)
  ELSE IF TooOld(s.timeout_counter + 1)
       THEN Out([s EXCEPT !.timeout_counter = 0], Informational)
       ELSE Out([s EXCEPT !.timeout_counter = @ + 1], flag)

\* Mutant: the tower's broadcast ends the exchange.
ImsiSib1Forgets(s, ie) == Out([ImsiStart EXCEPT !.likely_enb_plmns = ie.plmns], Silent)

\* A broadcast is read for the networks it names and returns before the counter.
ImsiSib1(s, ie) == Out([s EXCEPT !.likely_enb_plmns = ie.plmns], Silent)

ImsiRequested(s, ie) ==
  IF ie.is = "SIB1" THEN ImsiSib1(s, ie)
  ELSE LET u == IF ie.is = "AttachRequest" /\ ie.plmn # None
                THEN [s EXCEPT !.likely_ue_plmn = ie.plmn] ELSE s
       IN IF ImsiMove(ie) = "stays" THEN ImsiTimeout(u, Silent)
          ELSE ImsiTimeout(ImsiTransition(u, ImsiMove(ie)), ImsiFlag(u, ImsiMove(ie)))

-----------------------------------------------------------------------------
(* FlashCatch (flash_catch.rs).  The lists of packet numbers are sets.     *)

FlashStart == [imsi_requested_at |-> None, checked_in_at |-> None,
               forged_challenges |-> {}, synch_failures |-> {}, reported |-> FALSE]

Recent(at, now) == at # None /\ now - at <= WINDOW

\* Mutant: an old run stays reported.
pruneKeepsReport(s, now) ==
  [s EXCEPT !.forged_challenges = {at \in @ : Recent(at, now)},
            !.synch_failures = {at \in @ : Recent(at, now)}]

prune(s, now) ==
  LET forged == {at \in s.forged_challenges : Recent(at, now)}
      synch  == {at \in s.synch_failures : Recent(at, now)}
  IN [s EXCEPT !.forged_challenges = forged, !.synch_failures = synch,
               !.reported = @ /\ (forged # {} \/ synch # {})]

on_forged_challenge(s, packet_num) ==
  LET p == prune(s, packet_num)
      q == [p EXCEPT !.forged_challenges = @ \union {packet_num}]
  IN IF p.reported \/ Cardinality(q.forged_challenges) < FORGED_CHALLENGES_TO_WARN
     THEN Out(q, Silent)
     ELSE Out([q EXCEPT !.reported = TRUE],
              IF Recent(q.imsi_requested_at, packet_num) THEN High ELSE Medium)

on_synch_failure(s, packet_num) ==
  LET p == prune(s, packet_num)
      q == [p EXCEPT !.synch_failures = @ \union {packet_num}]
  IN IF p.reported \/ Cardinality(q.synch_failures) < SYNCH_FAILURES_TO_WARN
     THEN Out(q, Silent)
     ELSE Out([q EXCEPT !.reported = TRUE], Medium)

on_imsi_request(s, packet_num) ==
  Out([s EXCEPT !.imsi_requested_at = packet_num],
      IF Recent(s.checked_in_at, packet_num) THEN Informational ELSE Silent)

\* MAC failure and non-EPS authentication unacceptable are the forged causes.
\* An extended service request is one of the check-ins.
FlashCatch(s, ie, packet_num) ==
  CASE ie.is \in {"CheckIn", "ExtServiceRequest"} ->
         Out([FlashStart EXCEPT !.checked_in_at = packet_num], Silent)
    [] ie.is \in {"AttachRequest", "AuthenticationResponse", "SecurityModeCommand", "Accept"} ->
         Out(FlashStart, Silent)
    [] ie.is = "IdentityRequest" /\ ie.imsi -> on_imsi_request(s, packet_num)
    [] ie.is = "AuthenticationFailure" /\ ie.cause = "forged" -> on_forged_challenge(s, packet_num)
    [] ie.is = "AuthenticationFailure" /\ ie.cause = "synch"  -> on_synch_failure(s, packet_num)
    [] OTHER -> Out(s, Silent)

-----------------------------------------------------------------------------
(* Location requests (lpp.rs, rrlp.rs).  `transaction` is None or the      *)
(* initiator and number; `detail` is what decode_lpp_detail makes of the   *)
(* body, "unreadable" when it ends early.                                  *)

Lpp(ie) == ie.is = "GenericTransport" /\ ie.lpp

\* Mutant: an abort does not free the number.
EndsTransactionNotAbort(ie) == ie.end_transaction

EndsTransaction(ie) == ie.end_transaction \/ ie.body = "Abort"

\* location_event and escalating_event: a warning the first time a transaction
\* moves location information, a note for the repeats.
LocationEvent(warned, ie, severity) ==
  Out(IF ie.transaction = None THEN warned ELSE warned \union {ie.transaction},
      IF ie.transaction \in warned THEN Informational ELSE severity)

\* event_for of both analyzers ends by freeing a finished transaction's number.
Freed(o, ie) ==
  IF EndsTransaction(ie) THEN [o EXCEPT !.st = @ \ {ie.transaction}] ELSE o

LppLocationRequest(warned, ie) ==
  IF ~Lpp(ie) THEN Out(warned, Silent)
  ELSE IF ie.body = "unreadable" THEN Out(warned, Informational)
  ELSE Freed(CASE ie.body = "RequestLocationInformation" /\ ie.down -> LocationEvent(warned, ie, Low)
               [] ie.body = "RequestLocationInformation" /\ ~ie.down -> Out(warned, Low)
               [] ie.body = "ProvideLocationInformation" /\ ~ie.down -> LocationEvent(warned, ie, Low)
               [] OTHER                                             -> Out(warned, Informational), ie)

\* A body without detail leaves before the number is freed.
LppLocationTracking(warned, ie) ==
  IF ~Lpp(ie) THEN Out(warned, Silent)
  ELSE IF ie.detail \in {"unreadable", "Other"} THEN Out(warned, Silent)
  ELSE Freed(CASE ie.detail = "periodic" /\ ie.down   -> LocationEvent(warned, ie, Medium)
               [] ie.detail = "once" /\ ie.down       -> LocationEvent(warned, ie, Low)
               [] ie.detail \in {"periodic", "once"} /\ ~ie.down -> Out(warned, Low)
               [] ie.detail = "position" /\ ~ie.down  -> LocationEvent(warned, ie, Low)
               [] OTHER                               -> Out(warned, Informational), ie)

RrlpLocation(ie) ==
  IF ie.is # "GSM" \/ ie.component = "not RRLP" THEN Silent
  ELSE IF ie.component \in {"MeasurePositionRequest", "MeasurePositionResponse"}
       THEN Low ELSE Informational

-----------------------------------------------------------------------------
(* The cell's broadcasts and distance.                                     *)

\* LTE SIB 6/7 downgrade (priority_2g_downgrade.rs): the highest priorities
\* since the last SIB1, judged and forgotten when the next one comes.
Sib67Start == [lte_priority |-> None, legacy_priority |-> None]

\* Mutant: the last priority heard replaces the highest.
HigherLast(priority, heard) == IF heard = {} THEN priority ELSE Max(heard)

Higher(priority, heard) == Max({priority} \union heard)

LteSib6And7Downgrade(s, ie) ==
  CASE ie.is = "SIB1" ->
         Out(Sib67Start,
             IF s.legacy_priority <= s.lte_priority THEN Silent
             ELSE IF s.lte_priority = None THEN Informational ELSE High)
    [] ie.is = "SystemInformation" ->
         Out([lte_priority    |-> Higher(s.lte_priority, ie.lte),
              legacy_priority |-> Higher(s.legacy_priority, ie.legacy)], Silent)
    [] OTHER -> Out(s, Silent)

\* Timing advance (timing_advance.rs).
TimingStart == [current_cell |-> None, cells |-> <<>>, any_non_zero |-> FALSE]

Distance(a, b) == IF a > b THEN a - b ELSE b - a

\* Mutant: at the limit the new cell takes over what an old one had.
CellsForSteals(s) ==
  IF Cardinality(DOMAIN s.cells) >= MAX_CELLS /\ s.current_cell \notin DOMAIN s.cells
  THEN [c \in {s.current_cell} |-> s.cells[Max(DOMAIN s.cells)]] ELSE s.cells

\* The cells remembered when one more is looked up: all are forgotten at the limit.
CellsFor(s) ==
  IF Cardinality(DOMAIN s.cells) >= MAX_CELLS /\ s.current_cell \notin DOMAIN s.cells
  THEN <<>> ELSE s.cells

observe(s, ta) ==
  LET z == [s EXCEPT !.any_non_zero = @ \/ ta # 0]
      cells == CellsFor(z)
      entry == IF z.current_cell \in DOMAIN cells THEN cells[z.current_cell]
               ELSE [baseline |-> None, seen |-> 0]
      jump  == entry.baseline # None /\ Distance(ta, entry.baseline) >= JUMP_THRESHOLD_STEPS
      first == entry.baseline = None /\ entry.seen + 1 >= SAMPLES_FOR_BASELINE
  IN IF ~z.any_non_zero \/ z.current_cell = None THEN Out(z, Silent)
     ELSE Out([z EXCEPT !.cells =
                [c \in {z.current_cell} \union DOMAIN cells |->
                   IF c = z.current_cell
                   THEN [baseline |-> IF jump \/ first THEN ta ELSE entry.baseline,
                         seen     |-> entry.seen + 1]
                   ELSE cells[c]]],
              IF jump THEN Low ELSE Silent)

TimingAdvance(s, ie) ==
  CASE ie.is = "SIB1"   -> Out([s EXCEPT !.current_cell = ie.cell], Silent)
    [] ie.is = "MacRar" -> observe(s, ie.timing_advance)
    [] OTHER            -> Out(s, Silent)

\* The detectors that keep nothing between two messages.
ConnectionRedirect2GDowngrade(ie) ==
  IF ie.is # "RrcConnectionRelease" \/ ie.redirect = "none" THEN Silent
  ELSE IF ie.redirect = "Geran" THEN High ELSE Informational

NullCipher(ie) == IF ie.is = "DlDcchSecurity" /\ ie.eea0 THEN High ELSE Silent

NasNullCipher(ie) == IF ie.is = "SecurityModeCommand" /\ ie.eea0 THEN High ELSE Silent

IncompleteSib(ie) == IF ie.is = "SIB1" /\ ie.scheduled < 2 THEN Informational ELSE Silent

TestAnalyzer(ie) == IF ie.is = "SIB1" THEN Low ELSE Silent

Diagnostic(ie) ==
  IF \/ ie.is = "IdentityRequest"
     \/ ie.is \in {"Reject", "AttachReject"} /\ ie.exposes
  THEN Informational ELSE Silent

-----------------------------------------------------------------------------
(* No NAS messages (no_nas_messages.rs), the one detector that watches the *)
(* clock, so it also hears of packets that hold nothing to analyse.        *)

NoNasStart == [first_timestamp |-> None, latest_timestamp |-> None, finished |-> FALSE]

\* Mutant: only a clock that runs backwards is taken for a jump.
DiscontinuousBackOnly(s, timestamp) ==
  s.latest_timestamp # None /\ timestamp < s.latest_timestamp

Discontinuous(s, timestamp) ==
  /\ s.latest_timestamp # None
  /\ timestamp < s.latest_timestamp \/ timestamp - s.latest_timestamp >= NAS_TIMEOUT

NoNasClock(s, timestamp) ==
  LET first == IF Discontinuous(s, timestamp) \/ s.first_timestamp = None
               THEN timestamp ELSE s.first_timestamp
      late  == timestamp - first >= NAS_TIMEOUT
  IN IF s.finished THEN Out(s, Silent)
     ELSE Out([first_timestamp |-> first, latest_timestamp |-> timestamp, finished |-> late],
              IF late THEN Low ELSE Silent)

NoNasMessages(s, ie, timestamp) ==
  NoNasClock([s EXCEPT !.finished = @ \/ ie.is \in NasMessages], timestamp)
==============================================================================
