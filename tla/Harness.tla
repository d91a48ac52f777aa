------------------------------- MODULE Harness -------------------------------
(***************************************************************************)
(* The harness of lib/src/analysis/analyzer.rs: it numbers the packets of  *)
(* a recording, hands each one to every analyzer the configuration turns   *)
(* on, and writes a row with one slot for each of them.                    *)
(*                                                                         *)
(* The rows written so far are the report; a row keeps the packet it is    *)
(* about, so that the report is also the history the properties look at.   *)
(***************************************************************************)
EXTENDS Detectors, Sequences

CONSTANT
  Recordings   \* what may be recorded: [on, ies, times, unread, packets], where `on` is
               \* the configuration's analyzers, `ies` and `times` what the packets hold,
               \* `unread` whether some hold nothing to analyse, `packets` how many come

Analyzers ==
  {"imsi_requested", "flash_catch", "lpp_location_request", "lpp_location_tracking",
   "rrlp_location_request", "lte_sib6_and_7_downgrade", "timing_advance", "no_nas_messages",
   "connection_redirect_2g_downgrade", "null_cipher", "nas_null_cipher", "incomplete_sib",
   "test_analyzer", "diagnostic_analyzer"}

ASSUME HarnessAssumption == \A r \in Recordings : r.on \subseteq Analyzers

\* What the parsers guarantee of what they hand over: timestamps and packets are
\* counted from zero, a network has a number, a priority is a u8, an LPP message
\* that cannot be read belongs to no transaction, and the detail of one that can
\* is decoded according to its body (decode_lpp_detail).
ASSUME ElementsAssumption ==
  \A r \in Recordings :
    /\ r.times \subseteq Nat /\ r.packets \in Nat /\ r.unread \in BOOLEAN
    /\ \A ie \in r.ies :
         /\ ie.is \notin {"nothing", "garbled"}
         /\ ie.is = "SIB1" => None \notin ie.plmns
         /\ ie.is = "SystemInformation" => ie.lte \union ie.legacy \subseteq 0..255
         /\ Lpp(ie) /\ ie.body = "unreadable" => ie.transaction = None
         /\ Lpp(ie) /\ ie.detail \in {"periodic", "once"} =>
              ie.body = "RequestLocationInformation"

VARIABLES
  recording,   \* the recording at hand
  packet_num,
  analyzers,   \* the state of each analyzer that is on
  report

vars == <<recording, packet_num, analyzers, report>>

-----------------------------------------------------------------------------

Start(a) ==
  CASE a = "imsi_requested"           -> ImsiStart
    [] a = "flash_catch"              -> FlashStart
    [] a = "lte_sib6_and_7_downgrade" -> Sib67Start
    [] a = "timing_advance"           -> TimingStart
    [] a = "no_nas_messages"          -> NoNasStart
    [] OTHER                          -> {}

Analyze(a, s, ie, n, t) ==
  CASE a = "imsi_requested"           -> ImsiRequested(s, ie)
    [] a = "flash_catch"              -> FlashCatch(s, ie, n)
    [] a = "lpp_location_request"     -> LppLocationRequest(s, ie)
    [] a = "lpp_location_tracking"    -> LppLocationTracking(s, ie)
    [] a = "lte_sib6_and_7_downgrade" -> LteSib6And7Downgrade(s, ie)
    [] a = "timing_advance"           -> TimingAdvance(s, ie)
    [] a = "no_nas_messages"          -> NoNasMessages(s, ie, t)
    [] a = "rrlp_location_request"    -> Out(s, RrlpLocation(ie))
    [] a = "connection_redirect_2g_downgrade" -> Out(s, ConnectionRedirect2GDowngrade(ie))
    [] a = "null_cipher"              -> Out(s, NullCipher(ie))
    [] a = "nas_null_cipher"          -> Out(s, NasNullCipher(ie))
    [] a = "incomplete_sib"           -> Out(s, IncompleteSib(ie))
    [] a = "test_analyzer"            -> Out(s, TestAnalyzer(ie))
    [] a = "diagnostic_analyzer"      -> Out(s, Diagnostic(ie))

\* The default of the trait is to do nothing with a skipped packet.
Skip(a, s, t) == IF a = "no_nas_messages" THEN NoNasClock(s, t) ELSE Out(s, Silent)

\* A packet that holds no message, and one no parser could read.
Nothing == [is |-> "nothing"]
Garbled == [is |-> "garbled"]

-----------------------------------------------------------------------------

\* new_with_config
Init ==
  /\ recording \in Recordings
  /\ packet_num = 0
  /\ analyzers = [a \in recording.on |-> Start(a)]
  /\ report = <<>>

\* Every path counts the packet first and ends in a row.
Row(ie, t, told, out) ==
  /\ packet_num' = packet_num + 1
  /\ analyzers' = [a \in recording.on |-> out[a].st]
  /\ report' = Append(report, [ie |-> ie, timestamp |-> t,
                               events |-> [a \in told |-> out[a].ev]])
  /\ UNCHANGED recording

More == packet_num < recording.packets

\* A packet that holds an information element: analyze_information_element.
AnalyzeElement ==
  /\ More
  /\ \E ie \in recording.ies, t \in recording.times :
       Row(ie, t, recording.on, [a \in recording.on |-> Analyze(a, analyzers[a], ie, packet_num + 1, t)])

\* One the converters decline or fail on: report_skipped_packet.
AnalyzeSkipped ==
  /\ More /\ recording.unread
  /\ \E t \in recording.times :
       Row(Nothing, t, recording.on, [a \in recording.on |-> Skip(a, analyzers[a], t)])

\* One that cannot be parsed, or is not a log record, has no timestamp and reaches
\* no analyzer: its row has no slots.
AnalyzeGarbled ==
  /\ More /\ recording.unread
  /\ Row(Garbled, None, {}, [a \in recording.on |-> Out(analyzers[a], Silent)])

\* The recording is over.
Done == ~More /\ UNCHANGED vars

Next == AnalyzeElement \/ AnalyzeSkipped \/ AnalyzeGarbled \/ Done

Spec == Init /\ [][Next]_vars

-----------------------------------------------------------------------------
(* Properties.  Each looks at the newest row in the light of the rows      *)
(* before it, so that together they speak of every row of the report.      *)

\* Analyzers that are on have a state, and a row any of them was told of has one
\* slot for each, which is what the harness's own assertion asks.
TypeOK ==
  /\ recording \in Recordings
  /\ packet_num = Len(report) /\ packet_num <= recording.packets
  /\ DOMAIN analyzers = recording.on
  /\ \A i \in DOMAIN report :
       /\ DOMAIN report[i].events = IF report[i].ie = Garbled THEN {} ELSE recording.on
       /\ \A a \in DOMAIN report[i].events : report[i].events[a] \in Silent..High

On(a) == a \in recording.on /\ report # <<>>

Is(i, kinds) == report[i].ie.is \in kinds

Said(i, a) == IF a \in DOMAIN report[i].events THEN report[i].events[a] ELSE Silent

\* No packet strictly between two others is of these kinds.
Between(kinds, j, i) == \E k \in (j + 1)..(i - 1) : Is(k, kinds)

Connects == {"AttachRequest", "ExtServiceRequest", "RrcConnectionRequest"}
Authentications == {"AttachComplete", "AuthenticationResponse"}
Disconnects == {"Reject", "AttachReject"}
Moves == Connects \union Authentications \union Disconnects

\* The tower's last broadcast before packet i names the SIM's home network or
\* the network the phone last said it came from.
OnHomeNetwork(i) ==
  \E j \in 1..(i - 1) :
    /\ Is(j, {"SIB1"}) /\ ~Between({"SIB1"}, j, i)
    /\ \/ report[j].ie.plmns \intersect home_plmn # {}
       \/ \E k \in 1..(i - 1) :
            /\ Is(k, {"AttachRequest"}) /\ report[k].ie.plmn \in report[j].ie.plmns
            /\ \A l \in (k + 1)..(i - 1) : Is(l, {"AttachRequest"}) => report[l].ie.plmn = None

\* The chain heuristics.md describes: a tower that asks for the identity and
\* lets the phone go without authenticating is warned about, however long it
\* takes and whatever broadcasts and unread packets come between; on the home
\* network the warning is high unless the cause is one of an inactive SIM.
\* The code keeps the chain in imsi_requested.rs `transition`.
DisconnectTold ==
  On("imsi_requested") =>
    LET i == Len(report) IN
    \A j \in 1..(i - 1) :
      Is(i, Disconnects) /\ Is(j, {"IdentityRequest"}) /\ ~Between(Moves, j, i)
        => /\ Said(i, "imsi_requested") >= Low
           /\ OnHomeNetwork(i) /\ ~(Is(i, {"AttachReject"}) /\ report[i].ie.not_allowed)
                => Said(i, "imsi_requested") = High

\* An identity request that stays unanswered for TIMEOUT_THRESHHOLD messages is
\* noted within them, though the counter is shared by all identity requests
\* and is not reset by every one of them (imsi_requested.rs, the end of
\* analyze_information_element).
UnansweredNoted ==
  On("imsi_requested") =>
    LET i == Len(report)
        Counted(j) == {k \in j..i : ~Is(k, {"SIB1", "nothing", "garbled"})}
    IN \A j \in 1..i :
         /\ Is(j, {"IdentityRequest"})
         /\ ~Between(Moves \union {"IdentityRequest"}, j, i + 1)
         /\ Cardinality(Counted(j)) = TIMEOUT_THRESHHOLD
         => \E k \in j..i : Said(k, "imsi_requested") = Informational

\* What the report, complete and in order, tells of identity requests
\* (imsi_requested.rs).
IdentityRequestsTold == TypeOK /\ DisconnectTold /\ UnansweredNoted

\* FlashCatch's runs of failures: packets i and j belong to one run when no
\* message between them ends the exchange and no gap between two failures is
\* longer than the window.
Ends == {"CheckIn", "ExtServiceRequest", "AttachRequest", "AuthenticationResponse",
         "SecurityModeCommand", "Accept"}
Failure(i) == Is(i, {"AuthenticationFailure"}) /\ report[i].ie.cause \in {"forged", "synch"}
SameRun(j, i) ==
  /\ ~Between(Ends, j, i)
  /\ \A k \in j..(i - 1) : Failure(k) => \E l \in (k + 1)..i : Failure(l) /\ l - k <= WINDOW

\* Two challenges rejected as forged within the window of one exchange are
\* never passed over in silence: the run they belong to has its warning, at
\* the latest with the second (flash_catch.rs `on_forged_challenge`).
ForgedRunTold ==
  On("flash_catch") =>
    LET i == Len(report)
        Forged(k) == Failure(k) /\ report[k].ie.cause = "forged"
        Run == {j \in 1..i : Forged(j) /\ i - j <= WINDOW /\ ~Between(Ends, j, i)}
    IN Forged(i) /\ Cardinality(Run) >= FORGED_CHALLENGES_TO_WARN
         => \E j \in 1..i : Failure(j) /\ SameRun(j, i) /\ Said(j, "flash_catch") >= Medium

\* A burst raises one warning rather than one per failure: no run of failures
\* is warned about twice (flash_catch.rs `reported`).
OneAlarmPerRun ==
  On("flash_catch") =>
    LET i == Len(report) IN
    Said(i, "flash_catch") >= Medium
      => \A j \in 1..(i - 1) : Said(j, "flash_catch") >= Medium => ~SameRun(j, i)

\* A run of failed authentications is told, and told once (flash_catch.rs).
FlashCatchTold == ForgedRunTold /\ OneAlarmPerRun

\* LPP: packet i moves location information in a transaction of its own.
MovesLocation(i) ==
  /\ Is(i, {"GenericTransport"}) /\ report[i].ie.lpp /\ report[i].ie.transaction # None
  /\ \/ report[i].ie.body = "RequestLocationInformation" /\ report[i].ie.down
     \/ report[i].ie.body = "ProvideLocationInformation" /\ ~report[i].ie.down

\* The transaction of packets j and i is over before packet i.
EndedSince(j, i) ==
  \E k \in j..(i - 1) :
    /\ Is(k, {"GenericTransport"}) /\ report[k].ie.lpp
    /\ report[k].ie.transaction = report[i].ie.transaction
    /\ report[k].ie.end_transaction \/ report[k].ie.body = "Abort"

SameTransaction(j, i) ==
  MovesLocation(j) /\ report[j].ie.transaction = report[i].ie.transaction /\ ~EndedSince(j, i)

\* The request analyzer warns of a transaction that moves location information
\* exactly once, and again when its number is used anew after it ended; the
\* tracking analyzer never warns of one twice (lpp.rs `warned_transactions`).
LocationWarnedOnce ==
  LET i == Len(report) IN
  /\ On("lpp_location_request") /\ MovesLocation(i) =>
       ( Said(i, "lpp_location_request") >= Low
         <=> \A j \in 1..(i - 1) : ~SameTransaction(j, i) )
  /\ On("lpp_location_tracking") /\ MovesLocation(i) /\ Said(i, "lpp_location_tracking") >= Low =>
       \A j \in 1..(i - 1) : SameTransaction(j, i) => Said(j, "lpp_location_tracking") < Low

\* The downgrade detector judges a cell by the highest priorities of all the
\* broadcasts since the last SIB1 (priority_2g_downgrade.rs).
DowngradeJudged ==
  On("lte_sib6_and_7_downgrade") =>
    LET i == Len(report)
        Since == {j \in 1..(i - 1) : Is(j, {"SystemInformation"}) /\ ~Between({"SIB1"}, j, i)}
        Lte == UNION {report[j].ie.lte : j \in Since}
        Legacy == UNION {report[j].ie.legacy : j \in Since}
    IN Said(i, "lte_sib6_and_7_downgrade") = High
         <=> /\ Is(i, {"SIB1"}) /\ Lte # {}
             /\ \E p \in Legacy : \A q \in Lte : p > q

\* A changed distance is only told of a cell that was heard from both distances
\* while the phone camped on it, on a modem that reports distances at all
\* (timing_advance.rs `observe`).
JumpIsOneCell ==
  On("timing_advance") =>
    LET i == Len(report)
        Camped(j) == LET s == {k \in 1..j : Is(k, {"SIB1"})}
                     IN IF s = {} THEN None ELSE report[Max(s)].ie.cell
    IN Said(i, "timing_advance") >= Low
         => /\ Is(i, {"MacRar"}) /\ Camped(i) # None
            /\ \E j \in 1..(i - 1) :
                 /\ Is(j, {"MacRar"}) /\ Camped(j) = Camped(i)
                 /\ Distance(report[i].ie.timing_advance, report[j].ie.timing_advance)
                      >= JUMP_THRESHOLD_STEPS

\* "No NAS messages" is told when, and only when, the recording has run for
\* NAS_TIMEOUT of real time without one: in timestamps that neither go back nor
\* jump, counting packets that held nothing to analyse, and once
\* (no_nas_messages.rs `report_skipped_packet`).
SilenceIsReal ==
  On("no_nas_messages") =>
    LET i == Len(report)
        Timed == {k \in 1..i : report[k].timestamp # None}
        After(k) == {l \in Timed : l > k}
        Steady(j) == \A k \in Timed : k >= j /\ After(k) # {} =>
                       report[Min(After(k))].timestamp - report[k].timestamp \in 0..(NAS_TIMEOUT - 1)
    IN i \in Timed =>
         ( Said(i, "no_nas_messages") = Low
           <=> /\ \A k \in 1..i : ~Is(k, NasMessages)
               /\ \A k \in 1..(i - 1) : Said(k, "no_nas_messages") = Silent
               /\ \E j \in Timed : /\ Steady(j)
                                   /\ report[i].timestamp - report[j].timestamp >= NAS_TIMEOUT )
==============================================================================
