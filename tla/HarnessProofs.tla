---------------------------- MODULE HarnessProofs ----------------------------
(***************************************************************************)
(* Proofs about Harness for every set of recordings, however long, and     *)
(* every threshold of the detectors.                                       *)
(*                                                                         *)
(* The properties compare the newest row of the report with all the rows   *)
(* before it; a detector compares it with what it remembers.  So for each  *)
(* detector there is an invariant that says what its memory is in terms of *)
(* the report, and one lemma by which a new row keeps the invariant and    *)
(* says what the property asks.  In these lemmas n is the number of the    *)
(* new row, s what the detector remembers and o what it answers; a lemma   *)
(* named ...Is says what an operator of Detectors returns, one named       *)
(* ...Grows what a new row does to a notion of the whole report.           *)
(***************************************************************************)
EXTENDS Harness, FiniteSetTheorems, WellFoundedInduction, TLAPS

-----------------------------------------------------------------------------
(* Least and greatest members. *)

LEMMA LeastMember ==
  ASSUME NEW T, T \subseteq Nat, T # {}
  PROVE  \E x \in T : \A y \in T : x <= y
<1> DEFINE R == OpToRel(<, Nat)
<1>1. \E x \in T : \A y \in T : ~(<<y, x>> \in R)
  <2>1. IsWellFoundedOn(R, Nat)
    BY NatLessThanWellFounded
  <2> HIDE DEF R
  <2> QED BY <2>1, WFMin
<1>2. \A x, y \in Nat : ~(<<y, x>> \in R) => x <= y
  BY DEF OpToRel
<1> QED BY <1>1, <1>2

LEMMA MinIs ==
  ASSUME NEW T, T \subseteq Nat, T # {}
  PROVE  Min(T) \in T /\ \A y \in T : Min(T) <= y
BY LeastMember DEF Min

LEMMA GreatestMember ==
  ASSUME NEW n \in Nat, NEW S, S \subseteq (-1)..n, S # {}
  PROVE  \E x \in S : \A y \in S : y <= x
<1> DEFINE T == {b \in Nat : \A y \in S : y < b}
<1>1. n + 1 \in T /\ T \subseteq Nat
  OBVIOUS
<1>2. PICK b \in T : \A c \in T : b <= c
  <2> HIDE DEF T
  <2> QED BY <1>1, LeastMember
<1>3. b - 1 \in S
  <2> SUFFICES ASSUME b - 1 \notin S PROVE FALSE
    OBVIOUS
  <2>1. \A y \in S : y \in Int /\ y >= -1 /\ y < b - 1
    OBVIOUS
  <2>2. PICK y \in S : TRUE
    OBVIOUS
  <2>3. b - 1 \in Nat
    BY <2>1, <2>2
  <2>4. b - 1 \in T
    BY <2>1, <2>3
  <2> QED BY <1>2, <2>3, <2>4
<1>4. \A y \in S : y \in Int /\ y <= b - 1
  OBVIOUS
<1> QED BY <1>3, <1>4

LEMMA MaxIs ==
  ASSUME NEW n \in Nat, NEW S, S \subseteq (-1)..n, S # {}
  PROVE  Max(S) \in S /\ \A y \in S : y <= Max(S)
<1>1. \E x \in S : \A y \in S : x >= y
  BY GreatestMember
<1> QED BY <1>1 DEF Max

-----------------------------------------------------------------------------
(* One step: a row is added, and every analyzer answers it. *)

\* What an analyzer makes of the packet of a new row, from the state it is in.
Answer(a, row) ==
  IF row.ie = Garbled THEN Out(analyzers[a], Silent)
  ELSE IF row.ie = Nothing THEN Skip(a, analyzers[a], row.timestamp)
  ELSE Analyze(a, analyzers[a], row.ie, Len(report) + 1, row.timestamp)

\* What a row says for an analyzer.
SaidIn(row, a) == IF a \in DOMAIN row.events THEN row.events[a] ELSE Silent

Rows ==
  [ie: recording.ies \union {Nothing, Garbled}, timestamp: recording.times \union {None},
   events: [recording.on -> Silent..High] \union [{} -> Silent..High]]

\* The report as a sequence of rows.
Typed == TypeOK /\ report \in Seq(Rows)

AddsRow(row) ==
  /\ row \in Rows
  /\ row.ie = Garbled <=> row.timestamp = None
  /\ DOMAIN row.events = IF row.ie = Garbled THEN {} ELSE recording.on
  /\ UNCHANGED recording
  /\ packet_num < recording.packets
  /\ packet_num' = packet_num + 1
  /\ report' = Append(report, row)
  /\ analyzers' = [a \in recording.on |-> Answer(a, row).st]
  /\ \A a \in recording.on : SaidIn(row, a) = Answer(a, row).ev

LEMMA OutIs ==
  ASSUME NEW s, NEW e PROVE Out(s, e).st = s /\ Out(s, e).ev = e
BY DEF Out

LEMMA Levels ==
  /\ Silent = -1 /\ Informational = 0 /\ Low = 1 /\ Medium = 2 /\ High = 3 /\ None = -1
  /\ {Silent, Informational, Low, Medium, High} \subseteq Silent..High
BY DEF Silent, Informational, Low, Medium, High, None

LEMMA Kinds ==
  ASSUME NEW r \in Recordings, NEW ie \in r.ies
  PROVE  ie # Nothing /\ ie # Garbled /\ Nothing # Garbled
BY ElementsAssumption DEF Nothing, Garbled

\* Whatever an analyzer says is an event.
LEMMA AnalyzeSays ==
  ASSUME NEW a \in Analyzers, NEW s, NEW ie, NEW n, NEW t
  PROVE  Analyze(a, s, ie, n, t).ev \in Silent..High
<1> USE Levels, OutIs
<1>1. CASE a = "imsi_requested"
  <2>1. \A u, f : f \in Silent..High => ImsiTimeout(u, f).ev \in Silent..High
    BY DEF ImsiTimeout
  <2>2. \A u, m : ImsiFlag(u, m) \in Silent..High
    BY DEF ImsiFlag
  <2> QED BY <1>1, <2>1, <2>2 DEF Analyze, ImsiRequested, ImsiSib1
<1>2. CASE a = "flash_catch"
  <2>1. on_forged_challenge(s, n).ev \in Silent..High
    BY DEF on_forged_challenge
  <2>2. on_synch_failure(s, n).ev \in Silent..High
    BY DEF on_synch_failure
  <2>3. on_imsi_request(s, n).ev \in Silent..High
    BY DEF on_imsi_request
  <2> QED BY <1>2, <2>1, <2>2, <2>3 DEF Analyze, FlashCatch
<1>3. \A w, e : e \in Silent..High => LocationEvent(w, ie, e).ev \in Silent..High
  BY DEF LocationEvent
<1>4. \A w, e : /\ e \in Silent..High => Freed(Out(w, e), ie).ev \in Silent..High
                /\ e \in Silent..High => Freed(LocationEvent(w, ie, e), ie).ev \in Silent..High
  BY DEF Freed, LocationEvent, Out
<1>5. CASE a = "lpp_location_request"
  BY <1>4, <1>5 DEF Analyze, LppLocationRequest
<1>6. CASE a = "lpp_location_tracking"
  BY <1>4, <1>6 DEF Analyze, LppLocationTracking
<1>7. CASE a = "lte_sib6_and_7_downgrade"
  BY <1>7 DEF Analyze, LteSib6And7Downgrade
<1>8. CASE a = "timing_advance"
  <2>1. \A ta : observe(s, ta).ev \in Silent..High
    BY DEF observe
  <2> QED BY <1>8, <2>1 DEF Analyze, TimingAdvance
<1>9. CASE a = "no_nas_messages"
  BY <1>9 DEF Analyze, NoNasMessages, NoNasClock
<1>10. CASE a \in {"rrlp_location_request", "connection_redirect_2g_downgrade", "null_cipher",
                   "nas_null_cipher", "incomplete_sib", "test_analyzer", "diagnostic_analyzer"}
  <2>1. /\ RrlpLocation(ie) \in Silent..High
        /\ ConnectionRedirect2GDowngrade(ie) \in Silent..High
        /\ NullCipher(ie) \in Silent..High /\ NasNullCipher(ie) \in Silent..High
        /\ IncompleteSib(ie) \in Silent..High /\ TestAnalyzer(ie) \in Silent..High
        /\ Diagnostic(ie) \in Silent..High
    BY DEF RrlpLocation, ConnectionRedirect2GDowngrade, NullCipher, NasNullCipher,
           IncompleteSib, TestAnalyzer, Diagnostic
  <2> QED BY <1>10, <2>1 DEF Analyze
<1> QED BY <1>1, <1>2, <1>5, <1>6, <1>7, <1>8, <1>9, <1>10 DEF Analyzers
LEMMA SkipSays ==
  ASSUME NEW a, NEW s, NEW t
  PROVE  /\ Skip(a, s, t).ev \in Silent..High
         /\ a # "no_nas_messages" => Skip(a, s, t) = Out(s, Silent)
BY Levels, OutIs DEF Skip, NoNasClock

LEMMA AnswerSays ==
  ASSUME Typed, NEW a \in recording.on, NEW row
  PROVE  Answer(a, row).ev \in Silent..High
<1>1. a \in Analyzers
  BY HarnessAssumption DEF Typed, TypeOK
<1> QED BY <1>1, AnalyzeSays, SkipSays, OutIs, Levels DEF Answer

\* Every step that is not the end of the recording adds one row.
LEMMA StepAddsRow ==
  ASSUME Typed, Next
  PROVE  UNCHANGED vars \/ \E row : AddsRow(row)
<1>1. recording \in Recordings /\ packet_num = Len(report)
  BY DEF Typed, TypeOK
<1>2. ASSUME NEW ie \in recording.ies \union {Nothing, Garbled},
             NEW t \in recording.times \union {None},
             NEW told, told = IF ie = Garbled THEN {} ELSE recording.on,
             NEW out, More, Row(ie, t, told, out), ie = Garbled <=> t = None,
             \A a \in recording.on :
               out[a] = Answer(a, [ie |-> ie, timestamp |-> t, events |-> [b \in told |-> out[b].ev]])
      PROVE  \E row : AddsRow(row)
  <2> DEFINE row == [ie |-> ie, timestamp |-> t, events |-> [b \in told |-> out[b].ev]]
  <2>1. \A a \in recording.on : out[a] = Answer(a, row) /\ out[a].ev \in Silent..High
    BY <1>2, AnswerSays
  <2>2. row.ie = ie /\ row.timestamp = t /\ DOMAIN row.events = told
    OBVIOUS
  <2>3. row \in Rows
    <3>1. row.events \in [told -> Silent..High]
      BY <1>2, <2>1
    <3> QED BY <1>2, <3>1 DEF Rows
  <2>4. \A a \in recording.on : SaidIn(row, a) = Answer(a, row).ev
    <3>1. CASE ie = Garbled
      BY <1>2, <2>2, <3>1, OutIs DEF SaidIn, Answer
    <3>2. CASE ie # Garbled
      BY <1>2, <2>1, <2>2, <3>2 DEF SaidIn
    <3> QED BY <3>1, <3>2
  <2>5. AddsRow(row)
    <3>1. analyzers' = [a \in recording.on |-> Answer(a, row).st]
      BY <1>2, <2>1 DEF Row
    <3> HIDE DEF row
    <3>2. report' = Append(report, row) /\ packet_num' = packet_num + 1 /\ UNCHANGED recording
      BY <1>2 DEF Row, row
    <3> QED BY <1>2, <2>2, <2>3, <2>4, <3>1, <3>2 DEF AddsRow, More
  <2> QED BY <2>5
<1>3. CASE AnalyzeElement
  <2>1. PICK ie \in recording.ies, t \in recording.times :
          Row(ie, t, recording.on,
              [a \in recording.on |-> Analyze(a, analyzers[a], ie, packet_num + 1, t)])
    BY <1>3 DEF AnalyzeElement
  <2> DEFINE out == [a \in recording.on |-> Analyze(a, analyzers[a], ie, packet_num + 1, t)]
             row == [ie |-> ie, timestamp |-> t, events |-> [b \in recording.on |-> out[b].ev]]
  <2>2. ie # Garbled /\ ie # Nothing /\ t # None
    BY <1>1, Kinds, ElementsAssumption, Levels
  <2>3. \A a \in recording.on : out[a] = Answer(a, row)
    BY <1>1, <2>2 DEF Answer
  <2>4. Row(ie, t, recording.on, out) /\ More
    BY <1>3, <2>1 DEF AnalyzeElement
  <2> HIDE DEF out
  <2> QED BY <1>2, <2>2, <2>3, <2>4
<1>4. CASE AnalyzeSkipped
  <2>1. PICK t \in recording.times :
          Row(Nothing, t, recording.on, [a \in recording.on |-> Skip(a, analyzers[a], t)])
    BY <1>4 DEF AnalyzeSkipped
  <2> DEFINE out == [a \in recording.on |-> Skip(a, analyzers[a], t)]
             row == [ie |-> Nothing, timestamp |-> t, events |-> [b \in recording.on |-> out[b].ev]]
  <2>2. Nothing # Garbled /\ t # None
    BY <1>1, ElementsAssumption, Levels DEF Nothing, Garbled
  <2>3. \A a \in recording.on : out[a] = Answer(a, row)
    BY <2>2 DEF Answer
  <2>4. Row(Nothing, t, recording.on, out) /\ More
    BY <1>4, <2>1 DEF AnalyzeSkipped
  <2> HIDE DEF out
  <2> QED BY <1>2, <2>2, <2>3, <2>4
<1>5. CASE AnalyzeGarbled
  <2> DEFINE out == [a \in recording.on |-> Out(analyzers[a], Silent)]
             row == [ie |-> Garbled, timestamp |-> None, events |-> [b \in {} |-> out[b].ev]]
  <2>1. \A a \in recording.on : out[a] = Answer(a, row)
    BY DEF Answer
  <2>2. Row(Garbled, None, {}, out) /\ More
    BY <1>5 DEF AnalyzeGarbled
  <2> HIDE DEF out
  <2> QED BY <1>2, <2>1, <2>2
<1>6. CASE Done
  BY <1>6 DEF Done
<1> QED BY <1>3, <1>4, <1>5, <1>6 DEF Next

LEMMA TypedInit == Init => Typed
BY ElementsAssumption DEF Init, Typed, TypeOK

LEMMA TypedStep ==
  ASSUME Typed, NEW row, AddsRow(row)
  PROVE  Typed'
<1>1. Rows' = Rows
  BY DEF AddsRow, Rows
<1>2. report' \in Seq(Rows) /\ Len(report') = Len(report) + 1
  BY DEF AddsRow, Typed
<1>3. /\ recording' \in Recordings /\ packet_num' = Len(report')
      /\ packet_num' <= recording'.packets /\ DOMAIN analyzers' = recording'.on
  <2>1. recording.packets \in Nat /\ Len(report) \in Nat
    BY ElementsAssumption DEF Typed, TypeOK
  <2> QED BY <1>2, <2>1 DEF AddsRow, Typed, TypeOK
<1>4. ASSUME NEW i \in DOMAIN report'
      PROVE  /\ DOMAIN report'[i].events = IF report'[i].ie = Garbled THEN {} ELSE recording'.on
             /\ \A a \in DOMAIN report'[i].events : report'[i].events[a] \in Silent..High
  <2>1. CASE i \in DOMAIN report
    <3>1. report'[i] = report[i]
      BY <2>1 DEF AddsRow, Typed
    <3> QED BY <2>1, <3>1 DEF AddsRow, Typed, TypeOK
  <2>2. CASE i = Len(report) + 1
    <3>1. report'[i] = row
      BY <2>2 DEF AddsRow, Typed
    <3> QED BY <3>1 DEF AddsRow, Rows
  <2>3. i \in DOMAIN report \/ i = Len(report) + 1
    BY <1>2 DEF Typed
  <2> QED BY <2>1, <2>2, <2>3
<1> QED BY <1>1, <1>2, <1>3, <1>4 DEF Typed, TypeOK

\* The rows before the new one are what they were; n is the number of the new one.
LEMMA Growth ==
  ASSUME Typed, NEW row, AddsRow(row), NEW n, n = Len(report) + 1
  PROVE  /\ n \in Nat /\ n >= 1 /\ Len(report) = n - 1 /\ Len(report') = n /\ report' # <<>>
         /\ \A k \in 1..(n - 1) : report'[k] = report[k] /\ report[k] \in Rows
         /\ report'[n] = row
         /\ \A k \in 1..(n - 1) : \A a : Said(k, a)' = Said(k, a)
         /\ \A a : Said(n, a)' = SaidIn(row, a)
         /\ recording' = recording
<1>1. Len(report) \in Nat /\ report \in Seq(Rows) /\ row \in Rows
  BY DEF AddsRow, Typed
<1>2. report' = Append(report, row) /\ recording' = recording
  BY DEF AddsRow
<1>3. Len(report') = n /\ report' # <<>> /\ report'[n] = row
  BY <1>1, <1>2
<1>4. \A k \in 1..(n - 1) : report'[k] = report[k] /\ report[k] \in Rows
  BY <1>1, <1>2
<1>5. ASSUME NEW k \in 1..(n - 1), NEW a PROVE Said(k, a)' = Said(k, a)
  BY <1>4 DEF Said
<1>6. ASSUME NEW a PROVE Said(n, a)' = SaidIn(row, a)
  BY <1>3 DEF Said, SaidIn
<1> QED BY <1>1, <1>2, <1>3, <1>4, <1>5, <1>6

-----------------------------------------------------------------------------
(* Location requests. *)

\* Packet k ends the transaction x.
EndsIn(k, x) ==
  /\ Is(k, {"GenericTransport"}) /\ report[k].ie.lpp /\ report[k].ie.transaction = x
  /\ report[k].ie.end_transaction \/ report[k].ie.body = "Abort"

\* Packet j moved location information in a transaction that packet n has not
\* ended yet.
OpenAt(j, n) ==
  MovesLocation(j) /\ \A k \in j..n : ~EndsIn(k, report[j].ie.transaction)

\* The request analyzer remembers exactly the transactions that moved location
\* information and are not over.
RequestInv ==
  "lpp_location_request" \in recording.on =>
    analyzers["lpp_location_request"] =
      {report[j].ie.transaction : j \in {j \in 1..Len(report) : OpenAt(j, Len(report))}}

\* The tracking analyzer remembers those of them it warned of.
TrackingInv ==
  "lpp_location_tracking" \in recording.on =>
    \A j \in 1..Len(report) :
      OpenAt(j, Len(report)) /\ Said(j, "lpp_location_tracking") >= Low
        => report[j].ie.transaction \in analyzers["lpp_location_tracking"]

\* The transaction of a packet, when it is one of an LPP message.
LEMMA LppFacts ==
  ASSUME Typed, NEW row, AddsRow(row), NEW n, n = Len(report) + 1
  PROVE  /\ \A k \in 1..(n - 1) : /\ MovesLocation(k)' <=> MovesLocation(k)
                                  /\ \A x : EndsIn(k, x)' <=> EndsIn(k, x)
         /\ MovesLocation(n)' <=>
              /\ Lpp(row.ie) /\ row.ie.transaction # None
              /\ \/ row.ie.body = "RequestLocationInformation" /\ row.ie.down
                 \/ row.ie.body = "ProvideLocationInformation" /\ ~row.ie.down
         /\ \A x : EndsIn(n, x)' <=>
              Lpp(row.ie) /\ row.ie.transaction = x /\ EndsTransaction(row.ie)
<1> USE Growth
<1>1. ASSUME NEW k \in 1..(n - 1)
      PROVE  (MovesLocation(k)' <=> MovesLocation(k)) /\ \A x : EndsIn(k, x)' <=> EndsIn(k, x)
  <2>1. report'[k] = report[k]
    BY <1>1
  <2> QED BY <2>1 DEF MovesLocation, EndsIn, Is
<1>2. report'[n] = row
  OBVIOUS
<1> QED BY <1>1, <1>2 DEF MovesLocation, EndsIn, Is, Lpp, EndsTransaction

\* An analyzer without a clock says nothing of a packet that holds nothing, and
\* keeps its state.
LEMMA AnswerIs ==
  ASSUME Typed, NEW row, AddsRow(row), NEW a \in recording.on
  PROVE  /\ analyzers'[a] = Answer(a, row).st
         /\ SaidIn(row, a) = Answer(a, row).ev
         /\ row.ie \in recording.ies =>
              Answer(a, row) = Analyze(a, analyzers[a], row.ie, Len(report) + 1, row.timestamp)
         /\ a # "no_nas_messages" /\ row.ie \notin recording.ies =>
              /\ row.ie.is \in {"nothing", "garbled"}
              /\ Answer(a, row) = Out(analyzers[a], Silent)
<1>1. analyzers'[a] = Answer(a, row).st /\ SaidIn(row, a) = Answer(a, row).ev
  BY DEF AddsRow
<1>2. row.ie \in recording.ies \union {Nothing, Garbled} /\ recording \in Recordings
  BY DEF AddsRow, Rows, Typed, TypeOK
<1>3. CASE row.ie \in recording.ies
  BY <1>1, <1>2, <1>3, Kinds DEF Answer
<1>4. CASE row.ie = Nothing
  BY <1>1, <1>2, <1>4, SkipSays, Kinds DEF Answer, Nothing, Garbled
<1>5. CASE row.ie = Garbled
  BY <1>1, <1>2, <1>5, Kinds DEF Answer, Nothing, Garbled
<1> QED BY <1>2, <1>3, <1>4, <1>5

\* A new row, and what lies between it and an earlier one.
LEMMA BetweenGrows ==
  ASSUME Typed, NEW row, AddsRow(row), NEW n, n = Len(report) + 1, NEW kinds
  PROVE  /\ Is(n, kinds)' <=> row.ie.is \in kinds
         /\ \A j \in 1..(n - 1) : Is(j, kinds)' <=> Is(j, kinds)
         /\ \A j \in 1..(n - 1) : Between(kinds, j, n)' <=> Between(kinds, j, n)
         /\ \A j \in 1..(n - 1) :
              Between(kinds, j, n + 1)' <=> Between(kinds, j, n) \/ row.ie.is \in kinds
         /\ ~Between(kinds, n, n + 1)'
<1>1. n \in Nat /\ n >= 1 /\ report'[n] = row /\ \A k \in 1..(n - 1) : report'[k] = report[k]
  BY Growth
<1>2. \A k \in 1..(n - 1) : Is(k, kinds)' <=> Is(k, kinds)
  BY <1>1 DEF Is
<1>3. Is(n, kinds)' <=> row.ie.is \in kinds
  BY <1>1 DEF Is
<1>4. ASSUME NEW j \in 1..(n - 1)
      PROVE  /\ Between(kinds, j, n)' <=> Between(kinds, j, n)
             /\ Between(kinds, j, n + 1)' <=> Between(kinds, j, n) \/ row.ie.is \in kinds
  <2>1. \A k \in (j + 1)..(n - 1) : Is(k, kinds)' <=> Is(k, kinds)
    BY <1>1, <1>2
  <2>2. Between(kinds, j, n)' <=> Between(kinds, j, n)
    BY <2>1 DEF Between
  <2>3. \A k : k \in (j + 1)..(n + 1 - 1) <=> k \in (j + 1)..(n - 1) \/ k = n
    BY <1>1
  <2>4. Between(kinds, j, n + 1)' <=> \E k \in (j + 1)..(n + 1 - 1) : Is(k, kinds)'
    BY DEF Between
  <2>5. Between(kinds, j, n) <=> \E k \in (j + 1)..(n - 1) : Is(k, kinds)
    BY DEF Between
  <2> QED BY <1>3, <2>1, <2>2, <2>3, <2>4, <2>5
<1>5. ~Between(kinds, n, n + 1)'
  BY <1>1 DEF Between
<1> QED BY <1>2, <1>3, <1>4, <1>5

LEMMA OpenGrows ==
  ASSUME Typed, NEW row, AddsRow(row), NEW n, n = Len(report) + 1
  PROVE  /\ \A j \in 1..(n - 1) : OpenAt(j, n)' <=>
              OpenAt(j, n - 1) /\ ~EndsIn(n, report[j].ie.transaction)'
         /\ OpenAt(n, n)' <=> MovesLocation(n)' /\ ~EndsIn(n, row.ie.transaction)'
<1>1. n \in Nat /\ n >= 1 /\ report'[n] = row
  BY Growth
<1>2. ASSUME NEW j \in 1..(n - 1)
      PROVE  OpenAt(j, n)' <=> OpenAt(j, n - 1) /\ ~EndsIn(n, report[j].ie.transaction)'
  <2>0. PICK x : x = report[j].ie.transaction
    OBVIOUS
  <2>1. report'[j] = report[j] /\ (MovesLocation(j)' <=> MovesLocation(j))
    BY Growth, LppFacts
  <2>2. OpenAt(j, n)' <=> MovesLocation(j) /\ \A k \in j..n : ~EndsIn(k, x)'
    BY <2>0, <2>1 DEF OpenAt
  <2>3. \A k \in j..(n - 1) : EndsIn(k, x)' <=> EndsIn(k, x)
    BY <1>1, LppFacts
  <2>4. j..n = (j..(n - 1)) \union {n}
    BY <1>1
  <2>5. (\A k \in j..n : ~EndsIn(k, x)') <=>
          (\A k \in j..(n - 1) : ~EndsIn(k, x)) /\ ~EndsIn(n, x)'
    BY <2>3, <2>4
  <2>6. EndsIn(n, report[j].ie.transaction)' <=> EndsIn(n, x)'
    BY <2>0, <2>1
  <2> QED BY <2>0, <2>2, <2>5, <2>6 DEF OpenAt
<1>3. OpenAt(n, n)' <=> MovesLocation(n)' /\ ~EndsIn(n, row.ie.transaction)'
  <2>1. n..n = {n}
    BY <1>1
  <2>2. OpenAt(n, n)' <=> MovesLocation(n)' /\ \A k \in n..n : ~EndsIn(k, row.ie.transaction)'
    BY <1>1 DEF OpenAt
  <2> QED BY <2>1, <2>2
<1> QED BY <1>2, <1>3

\* What either analyzer keeps of a message: the transaction it warned of, unless
\* the message ends it.
LEMMA FreedIs ==
  \A w, e, ie :
    /\ Freed(Out(w, e), ie).ev = e
    /\ EndsTransaction(ie) => Freed(Out(w, e), ie).st = w \ {ie.transaction}
    /\ ~EndsTransaction(ie) => Freed(Out(w, e), ie).st = w
    /\ Freed(LocationEvent(w, ie, e), ie).ev = IF ie.transaction \in w THEN Informational ELSE e
    /\ EndsTransaction(ie) => Freed(LocationEvent(w, ie, e), ie).st = w \ {ie.transaction}
    /\ ~EndsTransaction(ie) /\ ie.transaction = None =>
         Freed(LocationEvent(w, ie, e), ie).st = w
    /\ ~EndsTransaction(ie) /\ ie.transaction # None =>
         Freed(LocationEvent(w, ie, e), ie).st = w \union {ie.transaction}
<1>1. \A w, e, ie :
        /\ Freed(Out(w, e), ie).ev = e
        /\ EndsTransaction(ie) => Freed(Out(w, e), ie).st = w \ {ie.transaction}
        /\ ~EndsTransaction(ie) => Freed(Out(w, e), ie).st = w
  BY DEF Freed, Out
<1>2. \A w, t : (w \union {t}) \ {t} = w \ {t}
  OBVIOUS
<1>3. \A w, e, ie :
        /\ ie.transaction = None =>
             LocationEvent(w, ie, e) = Out(w, IF ie.transaction \in w THEN Informational ELSE e)
        /\ ie.transaction # None =>
             LocationEvent(w, ie, e) =
               Out(w \union {ie.transaction}, IF ie.transaction \in w THEN Informational ELSE e)
  BY DEF LocationEvent
<1> TAKE w, e, ie
<1> DEFINE said == IF ie.transaction \in w THEN Informational ELSE e
<1>4. CASE ie.transaction = None
  <2>1. LocationEvent(w, ie, e) = Out(w, said)
    BY <1>3, <1>4
  <2> HIDE DEF said
  <2>2. /\ Freed(Out(w, said), ie).ev = said
        /\ EndsTransaction(ie) => Freed(Out(w, said), ie).st = w \ {ie.transaction}
        /\ ~EndsTransaction(ie) => Freed(Out(w, said), ie).st = w
    BY <1>1
  <2> QED BY <1>1, <1>4, <2>1, <2>2 DEF said
<1>5. CASE ie.transaction # None
  <2> DEFINE v == w \union {ie.transaction}
  <2>1. LocationEvent(w, ie, e) = Out(v, said)
    BY <1>3, <1>5
  <2>2. v \ {ie.transaction} = w \ {ie.transaction}
    BY <1>2
  <2> HIDE DEF said, v
  <2>3. /\ Freed(Out(v, said), ie).ev = said
        /\ EndsTransaction(ie) => Freed(Out(v, said), ie).st = v \ {ie.transaction}
        /\ ~EndsTransaction(ie) => Freed(Out(v, said), ie).st = v
    BY <1>1
  <2> QED BY <1>1, <1>5, <2>1, <2>2, <2>3 DEF said, v
<1> QED BY <1>4, <1>5

LEMMA RequestStep ==
  ASSUME Typed, RequestInv, NEW row, AddsRow(row)
  PROVE  /\ RequestInv'
         /\ (On("lpp_location_request") /\ MovesLocation(Len(report)) =>
               ( Said(Len(report), "lpp_location_request") >= Low
                 <=> \A j \in 1..(Len(report) - 1) : ~SameTransaction(j, Len(report)) ))'
<1>0. PICK n : n = Len(report) + 1
  OBVIOUS
<1>1. /\ n \in Nat /\ n >= 1 /\ Len(report) = n - 1 /\ Len(report') = n /\ report'[n] = row
      /\ recording' = recording /\ \A k \in 1..(n - 1) : report'[k] = report[k]
      /\ Said(n, "lpp_location_request")' = SaidIn(row, "lpp_location_request")
  BY <1>0, Growth
<1> SUFFICES ASSUME "lpp_location_request" \in recording.on
             PROVE  /\ RequestInv'
                    /\ (MovesLocation(Len(report)) =>
                         ( Said(Len(report), "lpp_location_request") >= Low
                           <=> \A j \in 1..(Len(report) - 1) : ~SameTransaction(j, Len(report)) ))'
  BY <1>1 DEF RequestInv, On
<1> DEFINE w == analyzers["lpp_location_request"]
           x == row.ie.transaction
           Opened == {j \in 1..(n - 1) : OpenAt(j, n - 1)}
<1>2. w = {report[j].ie.transaction : j \in Opened}
  BY <1>1 DEF RequestInv
<1>3. None \notin w
  BY <1>2 DEF OpenAt, MovesLocation
<1>4. /\ analyzers'["lpp_location_request"] = LppLocationRequest(w, row.ie).st
      /\ Said(n, "lpp_location_request")' = LppLocationRequest(w, row.ie).ev
  <2>1. CASE row.ie \in recording.ies
    BY <1>1, <2>1, AnswerIs DEF Analyze
  <2>2. CASE row.ie \notin recording.ies
    BY <1>1, <2>2, AnswerIs DEF LppLocationRequest, Lpp
  <2> QED BY <2>1, <2>2
<1>5. row.ie \in recording.ies \/ ~Lpp(row.ie)
  BY AnswerIs DEF Lpp
<1>6. Lpp(row.ie) /\ row.ie.body = "unreadable" => x = None
  BY <1>5, ElementsAssumption DEF Typed, TypeOK
<1>7. LppLocationRequest(w, row.ie).st =
        {y \in w \union (IF MovesLocation(n)' THEN {x} ELSE {}) : ~EndsIn(n, y)'}
  <2>1. \A y : EndsIn(n, y)' <=> Lpp(row.ie) /\ x = y /\ EndsTransaction(row.ie)
    BY <1>0, LppFacts
  <2>2. MovesLocation(n)' <=>
              /\ Lpp(row.ie) /\ x # None
              /\ \/ row.ie.body = "RequestLocationInformation" /\ row.ie.down
                 \/ row.ie.body = "ProvideLocationInformation" /\ ~row.ie.down
    BY <1>0, LppFacts
  <2>3. CASE ~Lpp(row.ie)
    BY <2>1, <2>2, <2>3, OutIs DEF LppLocationRequest
  <2>4. CASE Lpp(row.ie) /\ row.ie.body = "unreadable"
    BY <1>3, <1>6, <2>1, <2>2, <2>4, OutIs DEF LppLocationRequest
  <2>5. CASE Lpp(row.ie) /\ row.ie.body # "unreadable"
    <3>1. CASE MovesLocation(n)'
      <4>1. LppLocationRequest(w, row.ie) = Freed(LocationEvent(w, row.ie, Low), row.ie)
        BY <2>2, <2>5, <3>1 DEF LppLocationRequest
      <4>2. /\ EndsTransaction(row.ie) => LppLocationRequest(w, row.ie).st = w \ {x}
            /\ ~EndsTransaction(row.ie) => LppLocationRequest(w, row.ie).st = w \union {x}
        BY <2>2, <3>1, <4>1, FreedIs
      <4> HIDE DEF w, x
      <4> QED BY <2>1, <2>5, <3>1, <4>2
    <3>2. CASE ~MovesLocation(n)'
      <4>1. \/ \E e : LppLocationRequest(w, row.ie) = Freed(Out(w, e), row.ie)
            \/ /\ LppLocationRequest(w, row.ie) = Freed(LocationEvent(w, row.ie, Low), row.ie)
               /\ x = None
        BY <2>2, <2>5, <3>2 DEF LppLocationRequest
      <4>2. /\ EndsTransaction(row.ie) => LppLocationRequest(w, row.ie).st = w \ {x}
            /\ ~EndsTransaction(row.ie) => LppLocationRequest(w, row.ie).st = w
        BY <4>1, FreedIs
      <4> HIDE DEF w, x
      <4> QED BY <2>1, <2>5, <3>2, <4>2
    <3> QED BY <3>1, <3>2
  <2> QED BY <2>3, <2>4, <2>5
<1>8. RequestInv'
  <2>1. \A j \in 1..(n - 1) : OpenAt(j, n)' <=>
          OpenAt(j, n - 1) /\ ~EndsIn(n, report[j].ie.transaction)'
    BY <1>0, OpenGrows
  <2>2. OpenAt(n, n)' <=> MovesLocation(n)' /\ ~EndsIn(n, x)'
    BY <1>0, OpenGrows
  <2>3. 1..n = (1..(n - 1)) \union {n}
    BY <1>1
  <2>4. {report'[j].ie.transaction : j \in {j \in 1..n : OpenAt(j, n)'}} =
          {y \in w \union (IF MovesLocation(n)' THEN {x} ELSE {}) : ~EndsIn(n, y)'}
    BY <1>1, <1>2, <2>1, <2>2, <2>3
  <2>5. analyzers'["lpp_location_request"] =
          {report'[j].ie.transaction : j \in {j \in 1..n : OpenAt(j, n)'}}
    BY <1>4, <1>7, <2>4
  <2> QED BY <1>1, <2>5 DEF RequestInv
<1>9. ASSUME MovesLocation(n)'
      PROVE  Said(n, "lpp_location_request")' >= Low
               <=> \A j \in 1..(n - 1) : ~SameTransaction(j, n)'
  <2>1. /\ Lpp(row.ie) /\ x # None
        /\ \/ row.ie.body = "RequestLocationInformation" /\ row.ie.down
           \/ row.ie.body = "ProvideLocationInformation" /\ ~row.ie.down
    BY <1>0, <1>9, LppFacts
  <2>2. LppLocationRequest(w, row.ie) = Freed(LocationEvent(w, row.ie, Low), row.ie)
    BY <2>1 DEF LppLocationRequest
  <2>3. Said(n, "lpp_location_request")' >= Low <=> x \notin w
    <3>1. Freed(LocationEvent(w, row.ie, Low), row.ie).ev = IF x \in w THEN Informational ELSE Low
      BY FreedIs
    <3> QED BY <1>4, <2>2, <3>1, Levels
  <2>4. ASSUME NEW j \in 1..(n - 1)
        PROVE  SameTransaction(j, n)' <=> OpenAt(j, n - 1) /\ report[j].ie.transaction = x
    <3>1. report'[j] = report[j] /\ (MovesLocation(j)' <=> MovesLocation(j))
      BY <1>0, <1>1, LppFacts
    <3>2. \A k \in j..(n - 1) : \A y : EndsIn(k, y)' <=> EndsIn(k, y)
      BY <1>0, <1>1, LppFacts
    <3>3. EndedSince(j, n)' <=> \E k \in j..(n - 1) : EndsIn(k, x)'
      BY <1>1 DEF EndedSince, EndsIn, Is
    <3> QED BY <1>1, <3>1, <3>2, <3>3 DEF SameTransaction, OpenAt
  <2>5. x \in w <=> \E j \in 1..(n - 1) : SameTransaction(j, n)'
    BY <1>2, <2>4
  <2> QED BY <2>3, <2>5
<1> QED BY <1>1, <1>8, <1>9

\* What the tracking analyzer says of a message that moves location information,
\* and remembers when it warned.
LEMMA TrackingSays ==
  ASSUME NEW w, NEW ie, Lpp(ie), ie.transaction # None,
         ie.detail \in {"periodic", "once"} => ie.body = "RequestLocationInformation",
         \/ ie.body = "RequestLocationInformation" /\ ie.down
         \/ ie.body = "ProvideLocationInformation" /\ ~ie.down,
         LppLocationTracking(w, ie).ev >= Low
  PROVE  /\ ie.transaction \notin w
         /\ ~EndsTransaction(ie) => LppLocationTracking(w, ie).st = w \union {ie.transaction}
<1>1. ie.detail \notin {"unreadable", "Other"}
  BY OutIs, Levels DEF LppLocationTracking
<1>2. \/ LppLocationTracking(w, ie) = Freed(LocationEvent(w, ie, Medium), ie)
      \/ LppLocationTracking(w, ie) = Freed(LocationEvent(w, ie, Low), ie)
      \/ LppLocationTracking(w, ie) = Freed(Out(w, Informational), ie)
  BY <1>1 DEF LppLocationTracking
<1>3. LppLocationTracking(w, ie) # Freed(Out(w, Informational), ie)
  BY FreedIs, Levels
<1> QED BY <1>2, <1>3, FreedIs, Levels

\* It forgets no transaction but the message's own, and that one when it ends.
LEMMA TrackingKeeps ==
  ASSUME NEW w, NEW ie, NEW y \in w, ~(Lpp(ie) /\ ie.transaction = y /\ EndsTransaction(ie))
  PROVE  y \in LppLocationTracking(w, ie).st
<1>1. CASE ~Lpp(ie) \/ ie.detail \in {"unreadable", "Other"}
  BY <1>1, OutIs DEF LppLocationTracking
<1>2. CASE Lpp(ie) /\ ie.detail \notin {"unreadable", "Other"}
  <2>1. \/ \E e : LppLocationTracking(w, ie) = Freed(LocationEvent(w, ie, e), ie)
        \/ \E e : LppLocationTracking(w, ie) = Freed(Out(w, e), ie)
    BY <1>2 DEF LppLocationTracking
  <2>2. \A e : y \in Freed(LocationEvent(w, ie, e), ie).st
    <3> TAKE e
    <3>1. CASE EndsTransaction(ie)
      BY <1>2, <3>1, FreedIs
    <3>2. CASE ~EndsTransaction(ie) /\ ie.transaction = None
      BY <3>2, FreedIs
    <3>3. CASE ~EndsTransaction(ie) /\ ie.transaction # None
      BY <3>3, FreedIs
    <3> QED BY <3>1, <3>2, <3>3
  <2>3. \A e : y \in Freed(Out(w, e), ie).st
    <3> TAKE e
    <3>1. CASE EndsTransaction(ie)
      BY <1>2, <3>1, FreedIs
    <3>2. CASE ~EndsTransaction(ie)
      BY <3>2, FreedIs
    <3> QED BY <3>1, <3>2
  <2> QED BY <2>1, <2>2, <2>3
<1> QED BY <1>1, <1>2

LEMMA SameTransactionIs ==
  ASSUME Typed, NEW row, AddsRow(row), NEW n, n = Len(report) + 1, NEW j \in 1..(n - 1)
  PROVE  SameTransaction(j, n)' <=>
           OpenAt(j, n - 1) /\ report[j].ie.transaction = row.ie.transaction
<1>0. PICK x : x = row.ie.transaction
  OBVIOUS
<1>1. report'[j] = report[j] /\ report'[n] = row /\ n \in Nat
  BY Growth
<1>2. MovesLocation(j)' <=> MovesLocation(j)
  BY LppFacts
<1>3. \A k \in j..(n - 1) : EndsIn(k, x)' <=> EndsIn(k, x)
  BY <1>1, LppFacts
<1>4. EndedSince(j, n)' <=> \E k \in j..(n - 1) : EndsIn(k, x)'
  BY <1>0, <1>1 DEF EndedSince, EndsIn, Is
<1> QED BY <1>0, <1>1, <1>2, <1>3, <1>4 DEF SameTransaction, OpenAt

LEMMA TrackingStep ==
  ASSUME Typed, TrackingInv, NEW row, AddsRow(row)
  PROVE  /\ TrackingInv'
         /\ (On("lpp_location_tracking") /\ MovesLocation(Len(report))
               /\ Said(Len(report), "lpp_location_tracking") >= Low =>
               \A j \in 1..(Len(report) - 1) :
                 SameTransaction(j, Len(report)) => Said(j, "lpp_location_tracking") < Low)'
<1>0. PICK n : n = Len(report) + 1
  OBVIOUS
<1>1. /\ n \in Nat /\ n >= 1 /\ Len(report) = n - 1 /\ Len(report') = n /\ report'[n] = row
      /\ recording' = recording
      /\ \A k \in 1..(n - 1) : /\ report'[k] = report[k] /\ report[k] \in Rows
                               /\ Said(k, "lpp_location_tracking")' = Said(k, "lpp_location_tracking")
      /\ Said(n, "lpp_location_tracking")' = SaidIn(row, "lpp_location_tracking")
  BY <1>0, Growth
<1> SUFFICES ASSUME "lpp_location_tracking" \in recording.on
             PROVE  /\ TrackingInv'
                    /\ (MovesLocation(Len(report))
                          /\ Said(Len(report), "lpp_location_tracking") >= Low =>
                          \A j \in 1..(Len(report) - 1) :
                            SameTransaction(j, Len(report)) =>
                              Said(j, "lpp_location_tracking") < Low)'
  BY <1>1 DEF TrackingInv, On
<1> DEFINE w == analyzers["lpp_location_tracking"]
           x == row.ie.transaction
<1>2. /\ analyzers'["lpp_location_tracking"] = LppLocationTracking(w, row.ie).st
      /\ Said(n, "lpp_location_tracking")' = LppLocationTracking(w, row.ie).ev
  <2>1. CASE row.ie \in recording.ies
    BY <1>1, <2>1, AnswerIs DEF Analyze
  <2>2. CASE row.ie \notin recording.ies
    BY <1>1, <2>2, AnswerIs DEF LppLocationTracking, Lpp
  <2> QED BY <2>1, <2>2
<1>3. Lpp(row.ie) /\ row.ie.detail \in {"periodic", "once"} =>
        row.ie.body = "RequestLocationInformation"
  <2>1. row.ie \in recording.ies \/ ~Lpp(row.ie)
    BY AnswerIs DEF Lpp
  <2> QED BY <2>1, ElementsAssumption DEF Typed, TypeOK
<1>4. ASSUME MovesLocation(n)', Said(n, "lpp_location_tracking")' >= Low
      PROVE  /\ x \notin w
             /\ ~EndsTransaction(row.ie) => x \in analyzers'["lpp_location_tracking"]
  <2>1. /\ Lpp(row.ie) /\ x # None
        /\ \/ row.ie.body = "RequestLocationInformation" /\ row.ie.down
           \/ row.ie.body = "ProvideLocationInformation" /\ ~row.ie.down
    BY <1>0, <1>4, LppFacts
  <2>2. LppLocationTracking(w, row.ie).ev >= Low
    BY <1>2, <1>4
  <2>3. /\ x \notin w
        /\ ~EndsTransaction(row.ie) => LppLocationTracking(w, row.ie).st = w \union {x}
    BY <1>3, <2>1, <2>2, TrackingSays
  <2> QED BY <1>2, <2>3
<1>5. ASSUME NEW j \in 1..n, OpenAt(j, n)', Said(j, "lpp_location_tracking")' >= Low
      PROVE  report'[j].ie.transaction \in analyzers'["lpp_location_tracking"]
  <2>1. CASE j = n
    <3>1. MovesLocation(n)' /\ ~EndsIn(n, x)'
      BY <1>0, <1>5, <2>1, OpenGrows
    <3>2. ~EndsTransaction(row.ie)
      <4>1. Lpp(row.ie)
        BY <1>0, <3>1, LppFacts
      <4> QED BY <1>0, <3>1, <4>1, LppFacts
    <3> QED BY <1>1, <1>4, <1>5, <2>1, <3>1, <3>2
  <2>2. CASE j # n
    <3>1. j \in 1..(n - 1)
      BY <1>1, <2>2
    <3>2. PICK y : y = report[j].ie.transaction
      OBVIOUS
    <3>3. OpenAt(j, n - 1) /\ ~EndsIn(n, y)'
      <4>1. report'[j].ie.transaction = y
        BY <1>1, <3>1, <3>2
      <4> QED BY <1>0, <1>5, <3>1, <4>1, OpenGrows
    <3>4. y \in w
      BY <1>1, <1>5, <3>1, <3>2, <3>3 DEF TrackingInv
    <3>5. ~(Lpp(row.ie) /\ x = y /\ EndsTransaction(row.ie))
      BY <1>0, <3>3, LppFacts
    <3>6. y \in LppLocationTracking(w, row.ie).st
      BY <3>4, <3>5, TrackingKeeps
    <3> QED BY <1>1, <1>2, <3>1, <3>2, <3>6
  <2> QED BY <2>1, <2>2
<1>6. ASSUME MovesLocation(n)', Said(n, "lpp_location_tracking")' >= Low,
             NEW j \in 1..(n - 1), SameTransaction(j, n)'
      PROVE  Said(j, "lpp_location_tracking")' < Low
  <2>1. OpenAt(j, n - 1) /\ report[j].ie.transaction = x
    BY <1>0, <1>6, SameTransactionIs
  <2>2. Said(j, "lpp_location_tracking") \in Int
    BY <1>1, Levels DEF Said, Rows
  <2>3. ~(Said(j, "lpp_location_tracking") >= Low)
    BY <1>1, <1>4, <1>6, <2>1 DEF TrackingInv
  <2> QED BY <1>1, <2>2, <2>3, Levels
<1> QED BY <1>1, <1>5, <1>6 DEF TrackingInv

-----------------------------------------------------------------------------
(* The downgrade detector. *)

\* The broadcasts up to packet n that no SIB1 followed.
SinceSib1(n) == {j \in 1..n : Is(j, {"SystemInformation"}) /\ ~Between({"SIB1"}, j, n + 1)}

LteSince(n) == UNION {report[j].ie.lte : j \in SinceSib1(n)}
LegacySince(n) == UNION {report[j].ie.legacy : j \in SinceSib1(n)}

\* p is the highest of the priorities heard, or None.
Highest(p, heard) == p \in heard \union {None} /\ \A q \in heard : q <= p

\* The detector remembers the highest priorities since the last SIB1.
DowngradeInv ==
  "lte_sib6_and_7_downgrade" \in recording.on =>
    LET s == analyzers["lte_sib6_and_7_downgrade"] IN
    /\ Highest(s.lte_priority, LteSince(Len(report)))
    /\ Highest(s.legacy_priority, LegacySince(Len(report)))

LEMMA PrioritiesAreBytes ==
  ASSUME Typed, NEW n \in 0..Len(report)
  PROVE  LteSince(n) \subseteq 0..255 /\ LegacySince(n) \subseteq 0..255
<1>1. ASSUME NEW j \in SinceSib1(n)
      PROVE  report[j].ie.lte \subseteq 0..255 /\ report[j].ie.legacy \subseteq 0..255
  <2>1. j \in 1..Len(report) /\ report[j].ie.is = "SystemInformation"
    BY <1>1 DEF SinceSib1, Is, Typed
  <2>2. report[j].ie \in recording.ies \union {Nothing, Garbled} /\ recording \in Recordings
    <3>1. report \in Seq(Rows) /\ recording \in Recordings
      BY DEF Typed, TypeOK
    <3>2. report[j] \in Rows
      BY <2>1, <3>1
    <3> QED BY <3>1, <3>2 DEF Rows
  <2>3. report[j].ie \in recording.ies
    BY <2>1, <2>2 DEF Nothing, Garbled
  <2> QED BY <2>1, <2>2, <2>3, ElementsAssumption
<1>3. ASSUME NEW v \in LteSince(n) PROVE v \in 0..255
  <2>1. PICK j \in SinceSib1(n) : v \in report[j].ie.lte
    BY <1>3 DEF LteSince
  <2>2. report[j].ie.lte \subseteq 0..255
    BY <1>1
  <2> QED BY <2>1, <2>2
<1>4. ASSUME NEW v \in LegacySince(n) PROVE v \in 0..255
  <2>1. PICK j \in SinceSib1(n) : v \in report[j].ie.legacy
    BY <1>4 DEF LegacySince
  <2>2. report[j].ie.legacy \subseteq 0..255
    BY <1>1
  <2> QED BY <2>1, <2>2
<1> QED BY <1>3, <1>4

LEMMA HigherIs ==
  ASSUME NEW heard \in SUBSET (0..255), NEW more \in SUBSET (0..255), NEW p, Highest(p, heard)
  PROVE  Highest(Higher(p, more), heard \union more)
<1>1. p \in (-1)..255 /\ {p} \union more \subseteq (-1)..255 /\ {p} \union more # {}
  BY Levels DEF Highest
<1>2. /\ Max({p} \union more) \in {p} \union more
      /\ \A y \in {p} \union more : y <= Max({p} \union more)
  <2> DEFINE S == {p} \union more
  <2> HIDE DEF S
  <2>1. S \subseteq (-1)..255 /\ S # {}
    BY <1>1 DEF S
  <2>2. 255 \in Nat
    OBVIOUS
  <2>3. Max(S) \in S /\ \A y \in S : y <= Max(S)
    BY <2>1, <2>2, MaxIs
  <2> QED BY <2>3 DEF S
<1> DEFINE m == Max({p} \union more)
<1>3. m \in {p} \union more /\ p <= m /\ \A y \in more : y <= m
  BY <1>2
<1> HIDE DEF m
<1>4. m \in Int /\ \A q \in heard : q \in Int /\ q <= p
  BY <1>1, <1>3 DEF Highest
<1>5. \A q \in heard : q <= m
  BY <1>1, <1>3, <1>4
<1>6. m \in (heard \union more) \union {None}
  BY <1>3 DEF Highest
<1>7. Highest(m, heard \union more)
  BY <1>3, <1>5, <1>6 DEF Highest
<1> QED BY <1>7 DEF Higher, m

\* A new row and the broadcasts since the last SIB1.
LEMMA SinceGrows ==
  ASSUME Typed, NEW row, AddsRow(row), NEW n, n = Len(report) + 1
  PROVE  /\ row.ie.is = "SIB1" => SinceSib1(n)' = {}
         /\ row.ie.is = "SystemInformation" => SinceSib1(n)' = SinceSib1(n - 1) \union {n}
         /\ row.ie.is \notin {"SIB1", "SystemInformation"} => SinceSib1(n)' = SinceSib1(n - 1)
         /\ SinceSib1(n - 1)' = SinceSib1(n - 1)
<1>1. n \in Nat /\ n >= 1 /\ n - 1 + 1 = n /\ \A j : j \in 1..n <=> j \in 1..(n - 1) \/ j = n
  BY Growth
<1>2. /\ Is(n, {"SystemInformation"})' <=> row.ie.is = "SystemInformation"
      /\ \A j \in 1..(n - 1) : Is(j, {"SystemInformation"})' <=> Is(j, {"SystemInformation"})
  BY BetweenGrows
<1>3. /\ ~Between({"SIB1"}, n, n + 1)'
      /\ \A j \in 1..(n - 1) :
           /\ Between({"SIB1"}, j, n)' <=> Between({"SIB1"}, j, n)
           /\ Between({"SIB1"}, j, n + 1)' <=> Between({"SIB1"}, j, n) \/ row.ie.is = "SIB1"
  BY BetweenGrows
<1>4. \A j : j \in SinceSib1(n)' <=>
          \/ j \in 1..(n - 1) /\ Is(j, {"SystemInformation"}) /\ ~Between({"SIB1"}, j, n)
                /\ row.ie.is # "SIB1"
          \/ j = n /\ row.ie.is = "SystemInformation"
  BY <1>1, <1>2, <1>3 DEF SinceSib1
<1>5. \A j : j \in SinceSib1(n - 1) <=>
          j \in 1..(n - 1) /\ Is(j, {"SystemInformation"}) /\ ~Between({"SIB1"}, j, n)
  BY <1>1 DEF SinceSib1
<1>6. \A j : j \in SinceSib1(n - 1)' <=>
          j \in 1..(n - 1) /\ Is(j, {"SystemInformation"}) /\ ~Between({"SIB1"}, j, n)
  BY <1>1, <1>2, <1>3 DEF SinceSib1
<1> QED BY <1>4, <1>5, <1>6

LEMMA HeardGrows ==
  ASSUME Typed, NEW row, AddsRow(row), NEW n, n = Len(report) + 1
  PROVE  /\ row.ie.is = "SIB1" => LteSince(n)' = {} /\ LegacySince(n)' = {}
         /\ row.ie.is = "SystemInformation" =>
              /\ LteSince(n)' = LteSince(n - 1) \union row.ie.lte
              /\ LegacySince(n)' = LegacySince(n - 1) \union row.ie.legacy
         /\ row.ie.is \notin {"SIB1", "SystemInformation"} =>
              LteSince(n)' = LteSince(n - 1) /\ LegacySince(n)' = LegacySince(n - 1)
<1>1. n \in Nat /\ n >= 1 /\ report'[n] = row /\ \A k \in 1..(n - 1) : report'[k] = report[k]
  BY Growth
<1>2. SinceSib1(n - 1) \subseteq 1..(n - 1)
  BY DEF SinceSib1
<1>3. CASE row.ie.is = "SIB1"
  BY <1>3, SinceGrows DEF LteSince, LegacySince
<1>4. CASE row.ie.is = "SystemInformation"
  <2>1. SinceSib1(n)' = SinceSib1(n - 1) \union {n}
    BY <1>4, SinceGrows
  <2>2. \A v : v \in LteSince(n)' <=> \E j \in SinceSib1(n - 1) \union {n} : v \in report'[j].ie.lte
    BY <2>1 DEF LteSince
  <2>3. \A v : v \in LegacySince(n)' <=>
                 \E j \in SinceSib1(n - 1) \union {n} : v \in report'[j].ie.legacy
    BY <2>1 DEF LegacySince
  <2>0. /\ \A v : v \in LteSince(n - 1) <=> \E j \in SinceSib1(n - 1) : v \in report[j].ie.lte
        /\ \A v : v \in LegacySince(n - 1) <=>
                     \E j \in SinceSib1(n - 1) : v \in report[j].ie.legacy
    BY DEF LteSince, LegacySince
  <2>6. \A j \in SinceSib1(n - 1) : report'[j] = report[j]
    BY <1>1, <1>2
  <2>4. \A v : v \in LteSince(n)' <=> v \in LteSince(n - 1) \/ v \in row.ie.lte
    BY <1>1, <2>0, <2>2, <2>6
  <2>5. \A v : v \in LegacySince(n)' <=> v \in LegacySince(n - 1) \/ v \in row.ie.legacy
    BY <1>1, <2>0, <2>3, <2>6
  <2> QED BY <1>4, <2>4, <2>5
<1>5. CASE row.ie.is \notin {"SIB1", "SystemInformation"}
  <2>1. SinceSib1(n)' = SinceSib1(n - 1)
    BY <1>5, SinceGrows
  <2>2. \A v : v \in LteSince(n)' <=> v \in LteSince(n - 1)
    BY <1>1, <1>2, <2>1 DEF LteSince
  <2>3. \A v : v \in LegacySince(n)' <=> v \in LegacySince(n - 1)
    BY <1>1, <1>2, <2>1 DEF LegacySince
  <2>4. LteSince(n)' = LteSince(n - 1) /\ LegacySince(n)' = LegacySince(n - 1)
    BY <2>2, <2>3
  <2> QED BY <1>5, <2>4
<1> QED BY <1>3, <1>4, <1>5

LEMMA DowngradeStep ==
  ASSUME Typed, DowngradeInv, NEW row, AddsRow(row)
  PROVE  DowngradeInv' /\ DowngradeJudged'
<1>0. PICK n : n = Len(report) + 1
  OBVIOUS
<1>1. /\ n \in Nat /\ n >= 1 /\ Len(report) = n - 1 /\ Len(report') = n /\ report'[n] = row
      /\ recording' = recording /\ \A k \in 1..(n - 1) : report'[k] = report[k]
      /\ Said(n, "lte_sib6_and_7_downgrade")' = SaidIn(row, "lte_sib6_and_7_downgrade")
  BY <1>0, Growth
<1> SUFFICES ASSUME "lte_sib6_and_7_downgrade" \in recording.on
             PROVE  DowngradeInv' /\ DowngradeJudged'
  BY <1>1 DEF DowngradeInv, DowngradeJudged, On
<1> DEFINE s == analyzers["lte_sib6_and_7_downgrade"]
           o == LteSib6And7Downgrade(s, row.ie)
<1>2. analyzers'["lte_sib6_and_7_downgrade"] = o.st /\ Said(n, "lte_sib6_and_7_downgrade")' = o.ev
  <2>1. CASE row.ie \in recording.ies
    BY <1>1, <2>1, AnswerIs DEF Analyze
  <2>2. CASE row.ie \notin recording.ies
    BY <1>1, <2>2, AnswerIs DEF LteSib6And7Downgrade
  <2> QED BY <2>1, <2>2
<1>3. LteSince(n - 1) \subseteq 0..255 /\ LegacySince(n - 1) \subseteq 0..255
  <2>1. n - 1 \in 0..Len(report)
    BY <1>1
  <2> QED BY <2>1, PrioritiesAreBytes
<1>4. Highest(s.lte_priority, LteSince(n - 1)) /\ Highest(s.legacy_priority, LegacySince(n - 1))
  BY <1>1 DEF DowngradeInv
<1>5. Highest(o.st.lte_priority, LteSince(n)') /\ Highest(o.st.legacy_priority, LegacySince(n)')
  <2>1. CASE row.ie.is = "SIB1"
    <3>1. o.st = Sib67Start
      BY <2>1, OutIs DEF LteSib6And7Downgrade
    <3>2. LteSince(n)' = {} /\ LegacySince(n)' = {}
      BY <1>0, <2>1, HeardGrows
    <3> QED BY <3>1, <3>2 DEF Sib67Start, Highest
  <2>2. CASE row.ie.is = "SystemInformation"
    <3>1. /\ o.st.lte_priority = Higher(s.lte_priority, row.ie.lte)
          /\ o.st.legacy_priority = Higher(s.legacy_priority, row.ie.legacy)
      BY <2>2, OutIs DEF LteSib6And7Downgrade
    <3>2. row.ie.lte \subseteq 0..255 /\ row.ie.legacy \subseteq 0..255
      <4>1. row.ie \in recording.ies /\ recording \in Recordings
        BY <2>2, AnswerIs DEF Typed, TypeOK
      <4> QED BY <2>2, <4>1, ElementsAssumption
    <3>3. /\ LteSince(n)' = LteSince(n - 1) \union row.ie.lte
          /\ LegacySince(n)' = LegacySince(n - 1) \union row.ie.legacy
      BY <1>0, <2>2, HeardGrows
    <3>4. Highest(Higher(s.lte_priority, row.ie.lte), LteSince(n - 1) \union row.ie.lte)
      BY <1>3, <1>4, <3>2, HigherIs
    <3>5. Highest(Higher(s.legacy_priority, row.ie.legacy), LegacySince(n - 1) \union row.ie.legacy)
      BY <1>3, <1>4, <3>2, HigherIs
    <3> QED BY <3>1, <3>3, <3>4, <3>5
  <2>3. CASE row.ie.is \notin {"SIB1", "SystemInformation"}
    <3>1. o.st = s
      BY <2>3, OutIs DEF LteSib6And7Downgrade
    <3> QED BY <1>0, <1>4, <2>3, <3>1, HeardGrows
  <2> QED BY <2>1, <2>2, <2>3
<1>6. DowngradeInv'
  BY <1>1, <1>2, <1>5 DEF DowngradeInv
<1>7. Said(n, "lte_sib6_and_7_downgrade")' = High
        <=> /\ row.ie.is = "SIB1" /\ LteSince(n - 1) # {}
            /\ \E p \in LegacySince(n - 1) : \A q \in LteSince(n - 1) : p > q
  <2>1. CASE row.ie.is # "SIB1"
    BY <1>2, <2>1, OutIs, Levels DEF LteSib6And7Downgrade
  <2>2. CASE row.ie.is = "SIB1"
    <3> DEFINE lte == s.lte_priority
               legacy == s.legacy_priority
               H == LteSince(n - 1)
               G == LegacySince(n - 1)
    <3>1. o.ev = IF legacy <= lte THEN Silent ELSE IF lte = None THEN Informational ELSE High
      BY <2>2, OutIs DEF LteSib6And7Downgrade
    <3>2. /\ H \subseteq 0..255 /\ lte \in H \union {-1} /\ \A q \in H : q <= lte
          /\ G \subseteq 0..255 /\ legacy \in G \union {-1} /\ \A q \in G : q <= legacy
      BY <1>3, <1>4, Levels DEF Highest
    <3> HIDE DEF lte, legacy, H, G
    <3>3. o.ev = High <=> ~(legacy <= lte) /\ lte # -1
      BY <3>1, Levels
    <3>4. lte # -1 <=> H # {}
      <4>1. ASSUME NEW q \in H PROVE lte # -1
        <5>1. q \in 0..255 /\ q <= lte
          BY <3>2
        <5> QED BY <5>1
      <4>2. H = {} => lte = -1
        BY <3>2
      <4> QED BY <4>1, <4>2
    <3>5. ASSUME H # {} PROVE ~(legacy <= lte) <=> \E p \in G : \A q \in H : p > q
      <4>1. lte \in H /\ lte \in 0..255
        BY <3>2, <3>4, <3>5
      <4>2. ASSUME ~(legacy <= lte) PROVE \E p \in G : \A q \in H : p > q
        BY <3>2, <4>1, <4>2
      <4>3. ASSUME NEW p \in G, \A q \in H : p > q PROVE ~(legacy <= lte)
        BY <3>2, <4>1, <4>3
      <4> QED BY <4>2, <4>3
    <3>6. o.ev = High <=> H # {} /\ \E p \in G : \A q \in H : p > q
      BY <3>3, <3>4, <3>5
    <3> QED BY <1>2, <2>2, <3>6 DEF H, G
  <2> QED BY <2>1, <2>2
<1>8. DowngradeJudged'
  <2> DEFINE Since == {j \in 1..(n - 1) : Is(j, {"SystemInformation"})' /\ ~Between({"SIB1"}, j, n)'}
             Lte == UNION {report'[j].ie.lte : j \in Since}
             Legacy == UNION {report'[j].ie.legacy : j \in Since}
  <2>1. Since = SinceSib1(n - 1)
    <3>1. n - 1 + 1 = n
      BY <1>1
    <3>2. Since = SinceSib1(n - 1)'
      BY <3>1 DEF SinceSib1
    <3> QED BY <1>0, <3>2, SinceGrows
  <2>2. Since \subseteq 1..(n - 1)
    OBVIOUS
  <2> HIDE DEF Since
  <2>3. Lte = LteSince(n - 1) /\ Legacy = LegacySince(n - 1)
    BY <1>1, <2>1, <2>2 DEF LteSince, LegacySince
  <2>4. Is(n, {"SIB1"})' <=> row.ie.is = "SIB1"
    BY <1>1 DEF Is
  <2>5. Said(n, "lte_sib6_and_7_downgrade")' = High
          <=> Is(n, {"SIB1"})' /\ Lte # {} /\ \E p \in Legacy : \A q \in Lte : p > q
    BY <1>7, <2>3, <2>4
  <2> QED BY <1>1, <2>5 DEF DowngradeJudged, Since
<1> QED BY <1>6, <1>8

-----------------------------------------------------------------------------
(* The timing advance detector. *)

\* The cell the phone camps on at packet j.
CampedAt(j) ==
  LET s == {k \in 1..j : Is(k, {"SIB1"})}
  IN IF s = {} THEN None ELSE report[Max(s)].ie.cell

\* The detector knows the cell, and every baseline was heard of its cell.
TimingInv ==
  "timing_advance" \in recording.on =>
    LET s == analyzers["timing_advance"] IN
    /\ DOMAIN s = {"current_cell", "cells", "any_non_zero"}
    /\ s.current_cell = CampedAt(Len(report))
    /\ \A c \in DOMAIN s.cells :
         s.cells[c].baseline # None =>
           \E j \in 1..Len(report) :
             /\ Is(j, {"MacRar"}) /\ CampedAt(j) = c
             /\ report[j].ie.timing_advance = s.cells[c].baseline

LEMMA CampedGrows ==
  ASSUME Typed, NEW row, AddsRow(row), NEW n, n = Len(report) + 1
  PROVE  /\ \A j \in 1..(n - 1) : CampedAt(j)' = CampedAt(j)
         /\ row.ie.is = "SIB1" => CampedAt(n)' = row.ie.cell
         /\ row.ie.is # "SIB1" => CampedAt(n)' = CampedAt(n - 1)
<1>1. n \in Nat /\ n >= 1 /\ report'[n] = row /\ \A k \in 1..(n - 1) : report'[k] = report[k]
  BY Growth
<1>2. \A k \in 1..(n - 1) : Is(k, {"SIB1"})' <=> Is(k, {"SIB1"})
  BY <1>1 DEF Is
<1>3. Is(n, {"SIB1"})' <=> row.ie.is = "SIB1"
  BY <1>1 DEF Is
<1> DEFINE S(j) == {k \in 1..j : Is(k, {"SIB1"})}
           T(j) == {k \in 1..j : Is(k, {"SIB1"})'}
<1>4. \A j \in 0..(n - 1) : T(j) = S(j)
  BY <1>1, <1>2
<1>5. ASSUME NEW j \in 0..(n - 1), S(j) # {} PROVE Max(S(j)) \in 1..(n - 1)
  <2>1. S(j) \subseteq (-1)..j /\ S(j) \subseteq 1..(n - 1) /\ j \in Nat
    BY <1>1
  <2> HIDE DEF S
  <2>2. Max(S(j)) \in S(j)
    BY <1>5, <2>1, MaxIs
  <2> QED BY <2>1, <2>2
<1>6. \A j \in 0..(n - 1) :
        (IF T(j) = {} THEN None ELSE report'[Max(T(j))].ie.cell) = CampedAt(j)
  <2> TAKE j \in 0..(n - 1)
  <2>1. T(j) = S(j) /\ (S(j) # {} => report'[Max(S(j))] = report[Max(S(j))])
    BY <1>1, <1>4, <1>5
  <2>2. CampedAt(j) = IF S(j) = {} THEN None ELSE report[Max(S(j))].ie.cell
    BY DEF CampedAt
  <2> HIDE DEF S, T
  <2> QED BY <2>1, <2>2
<1>7. \A j \in 1..n : CampedAt(j)' = IF T(j) = {} THEN None ELSE report'[Max(T(j))].ie.cell
  BY DEF CampedAt
<1>8. \A j \in 1..(n - 1) : CampedAt(j)' = CampedAt(j)
  <2> HIDE DEF S, T
  <2>1. \A j \in 1..(n - 1) : j \in 0..(n - 1) /\ j \in 1..n
    BY <1>1
  <2> QED BY <1>6, <1>7, <2>1
<1>9. CASE row.ie.is = "SIB1"
  <2>1. n \in T(n) /\ T(n) \subseteq (-1)..n /\ T(n) \subseteq 1..n
    BY <1>1, <1>3, <1>9
  <2>2. Max(T(n)) = n
    <3> HIDE DEF T
    <3>1. Max(T(n)) \in T(n) /\ \A y \in T(n) : y <= Max(T(n))
      BY <1>1, <2>1, MaxIs
    <3>2. Max(T(n)) \in 1..n /\ n <= Max(T(n))
      BY <2>1, <3>1
    <3> QED BY <1>1, <3>2
  <2>3. n \in 1..n
    BY <1>1
  <2> HIDE DEF T
  <2>4. CampedAt(n)' = report'[Max(T(n))].ie.cell
    BY <1>7, <2>1, <2>3
  <2> QED BY <1>1, <1>8, <1>9, <2>2, <2>4
<1>10. CASE row.ie.is # "SIB1"
  <2>1. T(n) = T(n - 1) /\ n \in 1..n /\ n - 1 \in 0..(n - 1)
    BY <1>1, <1>3, <1>10
  <2> HIDE DEF S, T
  <2>2. CampedAt(n)' = IF T(n) = {} THEN None ELSE report'[Max(T(n))].ie.cell
    BY <1>7, <2>1
  <2>3. (IF T(n - 1) = {} THEN None ELSE report'[Max(T(n - 1))].ie.cell) = CampedAt(n - 1)
    BY <1>6, <2>1
  <2> QED BY <1>8, <1>10, <2>1, <2>2, <2>3
<1> QED BY <1>9, <1>10

\* What observe does to the cells it remembers.
LEMMA ObserveIs ==
  \A s, ta : DOMAIN s = {"current_cell", "cells", "any_non_zero"} =>
    /\ DOMAIN observe(s, ta).st = DOMAIN s
    /\ observe(s, ta).st.current_cell = s.current_cell
    /\ \A c \in DOMAIN observe(s, ta).st.cells :
         \/ /\ c \in DOMAIN s.cells
            /\ observe(s, ta).st.cells[c].baseline = s.cells[c].baseline
         \/ c = s.current_cell /\ observe(s, ta).st.cells[c].baseline \in {ta, None}
    /\ observe(s, ta).ev >= Low =>
         /\ s.current_cell # None /\ s.current_cell \in DOMAIN s.cells
         /\ s.cells[s.current_cell].baseline # None
         /\ Distance(ta, s.cells[s.current_cell].baseline) >= JUMP_THRESHOLD_STEPS
<1> TAKE s, ta
<1> HAVE DOMAIN s = {"current_cell", "cells", "any_non_zero"}
<1> DEFINE z == [s EXCEPT !.any_non_zero = @ \/ ta # 0]
           cells == CellsFor(z)
           entry == IF z.current_cell \in DOMAIN cells THEN cells[z.current_cell]
                    ELSE [baseline |-> None, seen |-> 0]
           jump  == entry.baseline # None /\ Distance(ta, entry.baseline) >= JUMP_THRESHOLD_STEPS
           first == entry.baseline = None /\ entry.seen + 1 >= SAMPLES_FOR_BASELINE
           new == [baseline |-> IF jump \/ first THEN ta ELSE entry.baseline,
                   seen     |-> entry.seen + 1]
           next == [c \in {z.current_cell} \union DOMAIN cells |->
                      IF c = z.current_cell THEN new ELSE cells[c]]
           o == observe(s, ta)
<1>1. o = IF ~z.any_non_zero \/ z.current_cell = None THEN Out(z, Silent)
          ELSE Out([z EXCEPT !.cells = next],
                   IF jump THEN Low ELSE Silent)
  BY DEF observe
<1>2. DOMAIN z = DOMAIN s /\ z.current_cell = s.current_cell /\ z.cells = s.cells
  OBVIOUS
<1>3. \A c \in DOMAIN cells : c \in DOMAIN s.cells /\ cells[c] = s.cells[c]
  <2>1. cells = <<>> \/ cells = s.cells
    BY <1>2 DEF CellsFor
  <2>2. DOMAIN <<>> = {}
    OBVIOUS
  <2> QED BY <2>1, <2>2
<1> HIDE DEF z, cells
<1>4. CASE ~z.any_non_zero \/ z.current_cell = None
  <2>1. o.st = z /\ o.ev = Silent
    BY <1>1, <1>4, OutIs
  <2> HIDE DEF o
  <2>2. ~(o.ev >= Low)
    BY <2>1, Levels
  <2> QED BY <1>2, <2>1, <2>2 DEF o
<1>5. CASE ~(~z.any_non_zero \/ z.current_cell = None)
  <2> DEFINE q == [z EXCEPT !.cells = next]
  <2>1. o.st = q /\ o.ev = IF jump THEN Low ELSE Silent
    BY <1>1, <1>5, OutIs
  <2>2. DOMAIN q = DOMAIN s /\ q.current_cell = s.current_cell /\ q.cells = next
    BY <1>2
  <2>3. new.baseline = IF jump \/ first THEN ta ELSE entry.baseline
    OBVIOUS
  <2>4. s.current_cell \in DOMAIN cells =>
          s.current_cell \in DOMAIN s.cells /\ entry = s.cells[s.current_cell]
    BY <1>2, <1>3
  <2>5. s.current_cell \notin DOMAIN cells => entry.baseline = None
    BY <1>2
  <2>6. o.ev >= Low => jump
    BY <2>1, Levels
  <2> HIDE DEF entry, first, new, q
  <2>7. ASSUME NEW c \in DOMAIN q.cells
        PROVE  \/ c \in DOMAIN s.cells /\ q.cells[c].baseline = s.cells[c].baseline
               \/ c = s.current_cell /\ q.cells[c].baseline \in {ta, None}
    <3>1. CASE c = s.current_cell
      <4>1. q.cells[c] = new
        BY <1>2, <2>2, <2>7, <3>1
      <4> QED BY <2>3, <2>4, <2>5, <3>1, <4>1
    <3>2. CASE c # s.current_cell
      <4>1. c \in DOMAIN cells /\ q.cells[c] = cells[c]
        BY <1>2, <2>2, <2>7, <3>2
      <4> QED BY <1>3, <4>1
    <3> QED BY <3>1, <3>2
  <2>8. jump => /\ s.current_cell # None /\ s.current_cell \in DOMAIN s.cells
                /\ s.cells[s.current_cell].baseline # None
                /\ Distance(ta, s.cells[s.current_cell].baseline) >= JUMP_THRESHOLD_STEPS
    BY <1>2, <1>5, <2>4, <2>5
  <2> QED BY <2>1, <2>2, <2>6, <2>7, <2>8
<1> QED BY <1>4, <1>5

LEMMA TimingStep ==
  ASSUME Typed, TimingInv, NEW row, AddsRow(row)
  PROVE  TimingInv' /\ JumpIsOneCell'
<1>0. PICK n : n = Len(report) + 1
  OBVIOUS
<1>1. /\ n \in Nat /\ n >= 1 /\ Len(report) = n - 1 /\ Len(report') = n /\ report'[n] = row
      /\ recording' = recording /\ \A k \in 1..(n - 1) : report'[k] = report[k]
      /\ Said(n, "timing_advance")' = SaidIn(row, "timing_advance")
  BY <1>0, Growth
<1> SUFFICES ASSUME "timing_advance" \in recording.on
             PROVE  TimingInv' /\ JumpIsOneCell'
  BY <1>1 DEF TimingInv, JumpIsOneCell, On
<1> DEFINE s == analyzers["timing_advance"]
           o == TimingAdvance(s, row.ie)
           ta == row.ie.timing_advance
           Heard(c, b) == \E j \in 1..(n - 1) :
             /\ Is(j, {"MacRar"}) /\ CampedAt(j) = c /\ report[j].ie.timing_advance = b
           HeardNow(c, b) == \E j \in 1..n :
             /\ Is(j, {"MacRar"})' /\ CampedAt(j)' = c /\ report'[j].ie.timing_advance = b
<1>2. analyzers'["timing_advance"] = o.st /\ Said(n, "timing_advance")' = o.ev
  <2>1. CASE row.ie \in recording.ies
    BY <1>1, <2>1, AnswerIs DEF Analyze
  <2>2. CASE row.ie \notin recording.ies
    BY <1>1, <2>2, AnswerIs DEF TimingAdvance
  <2> QED BY <2>1, <2>2
<1>3. /\ DOMAIN s = {"current_cell", "cells", "any_non_zero"}
      /\ s.current_cell = CampedAt(n - 1)
      /\ \A c \in DOMAIN s.cells : s.cells[c].baseline # None => Heard(c, s.cells[c].baseline)
  BY <1>1 DEF TimingInv
<1>4. \A c, b : Heard(c, b) => \E j \in 1..(n - 1) :
             /\ Is(j, {"MacRar"})' /\ CampedAt(j)' = c /\ report'[j].ie.timing_advance = b
  <2>1. \A j \in 1..(n - 1) : CampedAt(j)' = CampedAt(j) /\ (Is(j, {"MacRar"})' <=> Is(j, {"MacRar"}))
    BY <1>0, <1>1, CampedGrows DEF Is
  <2> QED BY <1>1, <2>1
<1>5. \A c, b : Heard(c, b) => HeardNow(c, b)
  <2>1. \A j \in 1..(n - 1) : j \in 1..n
    BY <1>1
  <2> QED BY <1>4, <2>1
<1>6. row.ie.is = "MacRar" => HeardNow(CampedAt(n - 1), ta)
  <2>1. row.ie.is = "MacRar" => CampedAt(n)' = CampedAt(n - 1) /\ Is(n, {"MacRar"})' /\ n \in 1..n
    BY <1>0, <1>1, CampedGrows DEF Is
  <2> QED BY <1>1, <2>1
<1> HIDE DEF Heard
<1>7. /\ DOMAIN o.st = {"current_cell", "cells", "any_non_zero"}
      /\ o.st.current_cell = CampedAt(n)'
      /\ \A c \in DOMAIN o.st.cells : o.st.cells[c].baseline # None =>
           HeardNow(c, o.st.cells[c].baseline)
  <2> HIDE DEF HeardNow
  <2>1. CASE row.ie.is = "SIB1"
    <3>1. o.st = [s EXCEPT !.current_cell = row.ie.cell]
      BY <2>1, OutIs DEF TimingAdvance
    <3>2. DOMAIN o.st = DOMAIN s /\ o.st.current_cell = row.ie.cell /\ o.st.cells = s.cells
      BY <1>3, <3>1
    <3> QED BY <1>0, <1>3, <1>5, <2>1, <3>2, CampedGrows
  <2>2. CASE row.ie.is = "MacRar"
    <3>1. o = observe(s, ta)
      BY <2>2 DEF TimingAdvance
    <3>2. /\ DOMAIN o.st = DOMAIN s /\ o.st.current_cell = s.current_cell
          /\ \A c \in DOMAIN o.st.cells :
               \/ c \in DOMAIN s.cells /\ o.st.cells[c].baseline = s.cells[c].baseline
               \/ c = s.current_cell /\ o.st.cells[c].baseline \in {ta, None}
      <4>1. DOMAIN s = {"current_cell", "cells", "any_non_zero"}
        BY <1>3
      <4> HIDE DEF s, o, ta
      <4> QED BY <3>1, <4>1, ObserveIs
    <3>3. CampedAt(n)' = CampedAt(n - 1)
      BY <1>0, <2>2, CampedGrows
    <3>4. ASSUME NEW c \in DOMAIN o.st.cells, o.st.cells[c].baseline # None
          PROVE  HeardNow(c, o.st.cells[c].baseline)
      <4>1. CASE c \in DOMAIN s.cells /\ o.st.cells[c].baseline = s.cells[c].baseline
        BY <1>3, <1>5, <3>4, <4>1
      <4>2. CASE c = s.current_cell /\ o.st.cells[c].baseline \in {ta, None}
        BY <1>3, <1>6, <2>2, <3>4, <4>2
      <4> QED BY <3>2, <4>1, <4>2
    <3> QED BY <1>3, <3>2, <3>3, <3>4
  <2>3. CASE row.ie.is \notin {"SIB1", "MacRar"}
    <3>1. o.st = s
      BY <2>3, OutIs DEF TimingAdvance
    <3> QED BY <1>0, <1>3, <1>5, <2>3, <3>1, CampedGrows
  <2> QED BY <2>1, <2>2, <2>3
<1>8. TimingInv'
  BY <1>1, <1>2, <1>7 DEF TimingInv
<1>9. ASSUME Said(n, "timing_advance")' >= Low
      PROVE  /\ Is(n, {"MacRar"})' /\ CampedAt(n)' # None
             /\ \E j \in 1..(n - 1) :
                  /\ Is(j, {"MacRar"})' /\ CampedAt(j)' = CampedAt(n)'
                  /\ Distance(report'[n].ie.timing_advance, report'[j].ie.timing_advance)
                       >= JUMP_THRESHOLD_STEPS
  <2>1. row.ie.is = "MacRar"
    BY <1>2, <1>9, OutIs, Levels DEF TimingAdvance
  <2>2. o = observe(s, ta)
    BY <2>1 DEF TimingAdvance
  <2>3. /\ s.current_cell # None /\ s.current_cell \in DOMAIN s.cells
        /\ s.cells[s.current_cell].baseline # None
        /\ Distance(ta, s.cells[s.current_cell].baseline) >= JUMP_THRESHOLD_STEPS
    <3>1. DOMAIN s = {"current_cell", "cells", "any_non_zero"} /\ o.ev >= Low
      BY <1>2, <1>3, <1>9
    <3> HIDE DEF s, o, ta
    <3> QED BY <2>2, <3>1, ObserveIs
  <2>4. PICK b : b = s.cells[s.current_cell].baseline
    OBVIOUS
  <2>5. PICK j \in 1..(n - 1) : /\ Is(j, {"MacRar"})' /\ CampedAt(j)' = s.current_cell
                                /\ report'[j].ie.timing_advance = b
    BY <1>3, <1>4, <2>3, <2>4
  <2>6. CampedAt(n)' = s.current_cell /\ Is(n, {"MacRar"})'
    BY <1>0, <1>1, <1>3, <2>1, CampedGrows DEF Is
  <2> QED BY <1>1, <2>3, <2>4, <2>5, <2>6
<1>10. JumpIsOneCell'
  BY <1>1, <1>9 DEF JumpIsOneCell, CampedAt
<1> QED BY <1>8, <1>10

-----------------------------------------------------------------------------
(* Identity requests. *)

ImsiFields == {"state", "timeout_counter", "likely_enb_plmns", "likely_ue_plmn"}

\* The packets from j to n that make an open identity request older.
CountedTo(j, n) == {k \in j..n : ~Is(k, {"SIB1", "nothing", "garbled"})}

\* The exchange: an identity request that no message answered is the state.
ImsiStateInv(s, n) ==
  \A j \in 1..n : Is(j, {"IdentityRequest"}) /\ ~Between(Moves, j, n + 1)
                    => s.state = "IdentityRequest"

\* The networks: the last broadcast's, and the one the phone last named.
ImsiTowerInv(s, n) ==
  \A j \in 1..n : Is(j, {"SIB1"}) /\ ~Between({"SIB1"}, j, n + 1)
                    => s.likely_enb_plmns = report[j].ie.plmns

ImsiPhoneInv(s, n) ==
  \A j \in 1..n :
    ( /\ Is(j, {"AttachRequest"}) /\ report[j].ie.plmn # None
      /\ \A l \in (j + 1)..n : Is(l, {"AttachRequest"}) => report[l].ie.plmn = None )
    => s.likely_ue_plmn = report[j].ie.plmn

\* The counter: no lower than the age of the last identity request, unless that
\* one has been noted.
ImsiCounterInv(s, n) ==
  \A j \in 1..n :
    Is(j, {"IdentityRequest"}) /\ ~Between(Moves \union {"IdentityRequest"}, j, n + 1)
      => \/ \E k \in j..n : Said(k, "imsi_requested") = Informational
         \/ Cardinality(CountedTo(j, n)) <= s.timeout_counter

ImsiInv ==
  "imsi_requested" \in recording.on =>
    LET s == analyzers["imsi_requested"] IN
    /\ DOMAIN s = ImsiFields /\ s.timeout_counter \in 0..(TIMEOUT_THRESHHOLD - 1)
    /\ ImsiStateInv(s, Len(report)) /\ ImsiTowerInv(s, Len(report))
    /\ ImsiPhoneInv(s, Len(report)) /\ ImsiCounterInv(s, Len(report))

LEMMA Threshold == TIMEOUT_THRESHHOLD \in Nat /\ TIMEOUT_THRESHHOLD >= 1
BY DetectorsAssumption

\* A broadcast.
LEMMA ImsiSib1Is ==
  \A s, ie : DOMAIN s = ImsiFields /\ ie.is = "SIB1" =>
    /\ DOMAIN ImsiRequested(s, ie).st = ImsiFields
    /\ ImsiRequested(s, ie).st.state = s.state
    /\ ImsiRequested(s, ie).st.timeout_counter = s.timeout_counter
    /\ ImsiRequested(s, ie).st.likely_ue_plmn = s.likely_ue_plmn
    /\ ImsiRequested(s, ie).st.likely_enb_plmns = ie.plmns
<1> TAKE s, ie
<1> HAVE DOMAIN s = ImsiFields /\ ie.is = "SIB1"
<1>1. ImsiRequested(s, ie).st = [s EXCEPT !.likely_enb_plmns = ie.plmns]
  BY OutIs DEF ImsiRequested, ImsiSib1
<1> QED BY <1>1 DEF ImsiFields

\* The end of the handler.
LEMMA ImsiTimeoutIs ==
  \A s, f : DOMAIN s = ImsiFields /\ s.timeout_counter \in 0..(TIMEOUT_THRESHHOLD - 1) =>
    /\ DOMAIN ImsiTimeout(s, f).st = ImsiFields
    /\ ImsiTimeout(s, f).st.state = s.state
    /\ ImsiTimeout(s, f).st.likely_ue_plmn = s.likely_ue_plmn
    /\ ImsiTimeout(s, f).st.likely_enb_plmns = s.likely_enb_plmns
    /\ ImsiTimeout(s, f).st.timeout_counter \in 0..(TIMEOUT_THRESHHOLD - 1)
    /\ s.state # "IdentityRequest" => ImsiTimeout(s, f).ev = f
    /\ s.state = "IdentityRequest" =>
         \/ ImsiTimeout(s, f).ev = Informational
         \/ ImsiTimeout(s, f).st.timeout_counter = s.timeout_counter + 1
<1> TAKE s, f
<1> HAVE DOMAIN s = ImsiFields /\ s.timeout_counter \in 0..(TIMEOUT_THRESHHOLD - 1)
<1>1. CASE s.state # "IdentityRequest"
  <2>1. ImsiTimeout(s, f) = Out(s, f)
    BY <1>1 DEF ImsiTimeout
  <2> QED BY <1>1, <2>1, OutIs
<1>2. CASE s.state = "IdentityRequest" /\ TooOld(s.timeout_counter + 1)
  <2>1. ImsiTimeout(s, f) = Out([s EXCEPT !.timeout_counter = 0], Informational)
    BY <1>2 DEF ImsiTimeout
  <2>2. 0 \in 0..(TIMEOUT_THRESHHOLD - 1)
    BY Threshold
  <2> QED BY <1>2, <2>1, <2>2, OutIs DEF ImsiFields
<1>3. CASE s.state = "IdentityRequest" /\ ~TooOld(s.timeout_counter + 1)
  <2> DEFINE q == [s EXCEPT !.timeout_counter = @ + 1]
  <2>1. ImsiTimeout(s, f).st = q
    BY <1>3, OutIs DEF ImsiTimeout
  <2>2. s.timeout_counter + 1 \in 0..(TIMEOUT_THRESHHOLD - 1)
    BY <1>3, Threshold DEF TooOld
  <2>3. /\ DOMAIN q = ImsiFields /\ q.state = s.state /\ q.likely_ue_plmn = s.likely_ue_plmn
        /\ q.likely_enb_plmns = s.likely_enb_plmns /\ q.timeout_counter = s.timeout_counter + 1
    BY DEF ImsiFields
  <2> HIDE DEF q
  <2> QED BY <1>3, <2>1, <2>2, <2>3
<1> QED BY <1>1, <1>2, <1>3

\* Any other message.
ImsiOther(s, ie, o) ==
  /\ DOMAIN o.st = ImsiFields /\ o.st.timeout_counter \in 0..(TIMEOUT_THRESHHOLD - 1)
  /\ o.st.likely_enb_plmns = s.likely_enb_plmns
  /\ ie.is = "AttachRequest" /\ ie.plmn # None => o.st.likely_ue_plmn = ie.plmn
  /\ ~(ie.is = "AttachRequest" /\ ie.plmn # None) => o.st.likely_ue_plmn = s.likely_ue_plmn
  /\ ImsiMove(ie) = "stays" =>
       /\ o.st.state = s.state
       /\ s.state = "IdentityRequest" =>
            o.ev = Informational \/ o.st.timeout_counter = s.timeout_counter + 1
  /\ ImsiMove(ie) = "IdentityRequest" =>
       /\ o.st.state = "IdentityRequest"
       /\ o.ev = Informational \/ o.st.timeout_counter >= 1
  /\ ie.is # "AttachRequest" /\ ImsiMove(ie) \in {"Disconnect", "LikelyValidAttachReject"} =>
       o.ev = ImsiFlag(s, ImsiMove(ie))

LEMMA ImsiOtherIs ==
  \A s, ie :
    ( /\ DOMAIN s = ImsiFields /\ s.timeout_counter \in 0..(TIMEOUT_THRESHHOLD - 1)
      /\ ie.is # "SIB1" )
    => ImsiOther(s, ie, ImsiRequested(s, ie))
<1> TAKE s, ie
<1> HAVE /\ DOMAIN s = ImsiFields /\ s.timeout_counter \in 0..(TIMEOUT_THRESHHOLD - 1)
         /\ ie.is # "SIB1"
<1> DEFINE u == IF ie.is = "AttachRequest" /\ ie.plmn # None
                THEN [s EXCEPT !.likely_ue_plmn = ie.plmn] ELSE s
           m == ImsiMove(ie)
           o == ImsiRequested(s, ie)
           v == IF m = "stays" THEN u ELSE ImsiTransition(u, m)
           f == IF m = "stays" THEN Silent ELSE ImsiFlag(u, m)
<1>1. o = ImsiTimeout(v, f)
  BY DEF ImsiRequested
<1>2. /\ DOMAIN u = ImsiFields /\ u.timeout_counter = s.timeout_counter /\ u.state = s.state
      /\ u.likely_enb_plmns = s.likely_enb_plmns
      /\ ie.is = "AttachRequest" /\ ie.plmn # None => u.likely_ue_plmn = ie.plmn
      /\ ~(ie.is = "AttachRequest" /\ ie.plmn # None) => u.likely_ue_plmn = s.likely_ue_plmn
      /\ ie.is # "AttachRequest" => u = s
  BY DEF ImsiFields
<1> HIDE DEF u
<1>3. /\ DOMAIN v = ImsiFields /\ v.timeout_counter \in 0..(TIMEOUT_THRESHHOLD - 1)
      /\ v.likely_enb_plmns = u.likely_enb_plmns /\ v.likely_ue_plmn = u.likely_ue_plmn
      /\ m = "stays" => v = u
      /\ m # "stays" /\ m # "LikelyValidAttachReject" => v.state = m
      /\ m = "LikelyValidAttachReject" => v.state = "Disconnect"
  <2>1. CASE m = "stays"
    BY <1>2, <2>1
  <2>2. CASE m # "stays"
    <3>1. v = ImsiTransition(u, m) /\ 0 \in 0..(TIMEOUT_THRESHHOLD - 1)
      BY <2>2, Threshold
    <3> HIDE DEF v, m
    <3>2. /\ DOMAIN v = ImsiFields
          /\ v.likely_enb_plmns = u.likely_enb_plmns /\ v.likely_ue_plmn = u.likely_ue_plmn
          /\ v.timeout_counter = 0 \/ v.timeout_counter = u.timeout_counter
          /\ v.state = IF m = "LikelyValidAttachReject" THEN "Disconnect" ELSE m
      BY <1>2, <3>1 DEF ImsiTransition, ImsiFields
    <3> QED BY <1>2, <2>2, <3>1, <3>2
  <2> QED BY <2>1, <2>2
<1> HIDE DEF v, f, o, m
<1>4. /\ DOMAIN o.st = ImsiFields /\ o.st.timeout_counter \in 0..(TIMEOUT_THRESHHOLD - 1)
      /\ o.st.likely_enb_plmns = v.likely_enb_plmns /\ o.st.likely_ue_plmn = v.likely_ue_plmn
      /\ o.st.state = v.state
      /\ v.state # "IdentityRequest" => o.ev = f
      /\ v.state = "IdentityRequest" =>
           \/ o.ev = Informational
           \/ o.st.timeout_counter = v.timeout_counter + 1
  BY <1>1, <1>3, ImsiTimeoutIs
<1>5. m = "stays" => /\ o.st.state = s.state
                     /\ s.state = "IdentityRequest" =>
                           \/ o.ev = Informational
                           \/ o.st.timeout_counter = s.timeout_counter + 1
  BY <1>2, <1>3, <1>4
<1>6. m = "IdentityRequest" => /\ o.st.state = "IdentityRequest"
                               /\ o.ev = Informational \/ o.st.timeout_counter >= 1
  BY <1>3, <1>4, Threshold
<1>7. ie.is # "AttachRequest" /\ m \in {"Disconnect", "LikelyValidAttachReject"} =>
         o.ev = ImsiFlag(s, m)
  BY <1>2, <1>3, <1>4 DEF f
<1>8. ImsiOther(s, ie, o)
  BY <1>2, <1>3, <1>4, <1>5, <1>6, <1>7 DEF ImsiOther, m
<1> QED BY <1>8 DEF o

\* What a message does to the exchange.
LEMMA ImsiMoveIs ==
  \A ie : /\ ie.is = "IdentityRequest" <=> ImsiMove(ie) = "IdentityRequest"
          /\ ie.is \notin Moves \union {"IdentityRequest"} <=> ImsiMove(ie) = "stays"
          /\ ie.is \in Disconnects <=> ImsiMove(ie) \in {"Disconnect", "LikelyValidAttachReject"}
          /\ ie.is \in Disconnects /\ ~(ie.is = "AttachReject" /\ ie.not_allowed) =>
               ImsiMove(ie) = "Disconnect"
BY DEF ImsiMove, Moves, Connects, Authentications, Disconnects

\* What a row does to the state s, by the kind of its packet; o is the answer.
ImsiEffect(s, ie, o) ==
  /\ DOMAIN o.st = ImsiFields /\ o.st.timeout_counter \in 0..(TIMEOUT_THRESHHOLD - 1)
  /\ ie.is \notin Moves \union {"IdentityRequest"} => o.st.state = s.state
  /\ ie.is = "IdentityRequest" =>
       /\ o.st.state = "IdentityRequest"
       /\ o.ev = Informational \/ o.st.timeout_counter >= 1
  /\ ie.is \in {"SIB1", "nothing", "garbled"} => o.st.timeout_counter = s.timeout_counter
  /\ /\ ie.is \notin Moves \union {"IdentityRequest", "SIB1", "nothing", "garbled"}
     /\ s.state = "IdentityRequest"
     => o.ev = Informational \/ o.st.timeout_counter = s.timeout_counter + 1
  /\ ie.is = "SIB1" => o.st.likely_enb_plmns = ie.plmns
  /\ ie.is # "SIB1" => o.st.likely_enb_plmns = s.likely_enb_plmns
  /\ ie.is = "AttachRequest" /\ ie.plmn # None => o.st.likely_ue_plmn = ie.plmn
  /\ ~(ie.is = "AttachRequest" /\ ie.plmn # None) => o.st.likely_ue_plmn = s.likely_ue_plmn
  /\ ie.is \in Disconnects => o.ev = ImsiFlag(s, ImsiMove(ie))

LEMMA ImsiEffectIs ==
  ASSUME NEW s, NEW ie, NEW o, DOMAIN s = ImsiFields,
         s.timeout_counter \in 0..(TIMEOUT_THRESHHOLD - 1),
         \/ o = ImsiRequested(s, ie) /\ ie.is \notin {"nothing", "garbled"}
         \/ o = Out(s, Silent) /\ ie.is \in {"nothing", "garbled"}
  PROVE  ImsiEffect(s, ie, o)
<1> USE DEF Moves, Connects, Authentications, Disconnects
<1>1. CASE ie.is \in {"nothing", "garbled"}
  <2>1. o.st = s
    BY <1>1, OutIs
  <2> QED BY <1>1, <2>1 DEF ImsiEffect
<1>2. CASE ie.is = "SIB1"
  <2>1. o = ImsiRequested(s, ie)
    BY <1>2
  <2> QED BY <1>2, <2>1, ImsiSib1Is DEF ImsiEffect
<1>3. CASE ie.is \notin {"nothing", "garbled", "SIB1"}
  <2>1. ImsiOther(s, ie, o)
    BY <1>3, ImsiOtherIs
  <2>2. /\ ie.is = "IdentityRequest" <=> ImsiMove(ie) = "IdentityRequest"
        /\ ie.is \notin Moves \union {"IdentityRequest"} <=> ImsiMove(ie) = "stays"
        /\ ie.is \in Disconnects <=> ImsiMove(ie) \in {"Disconnect", "LikelyValidAttachReject"}
    BY ImsiMoveIs
  <2> QED BY <1>3, <2>1, <2>2 DEF ImsiEffect, ImsiOther
<1> QED BY <1>1, <1>2, <1>3

\* One row, with what the analyzer holds before and answers.
ImsiRow(row, n, s, o) ==
  /\ Typed /\ AddsRow(row) /\ n = Len(report) + 1
  /\ s = analyzers["imsi_requested"]
  /\ DOMAIN s = ImsiFields /\ s.timeout_counter \in 0..(TIMEOUT_THRESHHOLD - 1)
  /\ o.st = analyzers'["imsi_requested"] /\ o.ev = Said(n, "imsi_requested")'
  /\ ImsiEffect(s, row.ie, o)

LEMMA ImsiRowIs ==
  ASSUME Typed, ImsiInv, NEW row, AddsRow(row), NEW n, n = Len(report) + 1,
         "imsi_requested" \in recording.on
  PROVE  \E s, o : ImsiRow(row, n, s, o)
<1>1. PICK s : s = analyzers["imsi_requested"]
  OBVIOUS
<1>2. PICK o : o = Answer("imsi_requested", row)
  OBVIOUS
<1>3. o.st = analyzers'["imsi_requested"] /\ o.ev = Said(n, "imsi_requested")'
  BY <1>2, Growth, AnswerIs
<1>4. \/ o = ImsiRequested(s, row.ie) /\ row.ie.is \notin {"nothing", "garbled"}
      \/ o = Out(s, Silent) /\ row.ie.is \in {"nothing", "garbled"}
  <2>1. CASE row.ie \in recording.ies
    <3>1. row.ie.is \notin {"nothing", "garbled"}
      BY <2>1, ElementsAssumption DEF Typed, TypeOK
    <3> QED BY <1>1, <1>2, <2>1, <3>1, AnswerIs DEF Analyze
  <2>2. CASE row.ie \notin recording.ies
    BY <1>1, <1>2, <2>2, AnswerIs
  <2> QED BY <2>1, <2>2
<1>5. DOMAIN s = ImsiFields /\ s.timeout_counter \in 0..(TIMEOUT_THRESHHOLD - 1)
  BY <1>1 DEF ImsiInv
<1>6. ImsiEffect(s, row.ie, o)
  BY <1>4, <1>5, ImsiEffectIs
<1> QED BY <1>1, <1>3, <1>5, <1>6 DEF ImsiRow

LEMMA ImsiStateStep ==
  ASSUME NEW row, NEW n, NEW s, NEW o, ImsiRow(row, n, s, o), ImsiStateInv(s, n - 1)
  PROVE  ImsiStateInv(o.st, n)'
<1>1. PICK u : u = o.st
  OBVIOUS
<1>2. Typed /\ AddsRow(row) /\ n = Len(report) + 1 /\ ImsiEffect(s, row.ie, o)
  BY DEF ImsiRow
<1>3. n \in Nat /\ n >= 1
  BY <1>2, Growth
<1>4. SUFFICES ASSUME NEW j \in 1..n, Is(j, {"IdentityRequest"})', ~Between(Moves, j, n + 1)'
               PROVE  u.state = "IdentityRequest"
  BY <1>1 DEF ImsiStateInv
<1>5. CASE j = n
  BY <1>1, <1>2, <1>4, <1>5, BetweenGrows DEF ImsiEffect
<1>6. CASE j # n
  <2>1. j \in 1..(n - 1)
    BY <1>3, <1>6
  <2>2. Is(j, {"IdentityRequest"}) /\ ~Between(Moves, j, n) /\ row.ie.is \notin Moves
    BY <1>2, <1>4, <2>1, BetweenGrows
  <2>3. s.state = "IdentityRequest"
    <3>1. n - 1 + 1 = n
      BY <1>3
    <3> QED BY <2>1, <2>2, <3>1 DEF ImsiStateInv
  <2> QED BY <1>1, <1>2, <2>2, <2>3 DEF ImsiEffect
<1> QED BY <1>5, <1>6

LEMMA ImsiTowerStep ==
  ASSUME NEW row, NEW n, NEW s, NEW o, ImsiRow(row, n, s, o), ImsiTowerInv(s, n - 1)
  PROVE  ImsiTowerInv(o.st, n)'
<1>1. PICK u : u = o.st
  OBVIOUS
<1>2. Typed /\ AddsRow(row) /\ n = Len(report) + 1 /\ ImsiEffect(s, row.ie, o)
  BY DEF ImsiRow
<1>3. n \in Nat /\ n >= 1 /\ report'[n] = row /\ \A k \in 1..(n - 1) : report'[k] = report[k]
  BY <1>2, Growth
<1>4. SUFFICES ASSUME NEW j \in 1..n, Is(j, {"SIB1"})', ~Between({"SIB1"}, j, n + 1)'
               PROVE  u.likely_enb_plmns = report'[j].ie.plmns
  BY <1>1 DEF ImsiTowerInv
<1>5. CASE j = n
  BY <1>1, <1>2, <1>3, <1>4, <1>5, BetweenGrows DEF ImsiEffect
<1>6. CASE j # n
  <2>1. j \in 1..(n - 1)
    BY <1>3, <1>6
  <2>2. Is(j, {"SIB1"}) /\ ~Between({"SIB1"}, j, n) /\ row.ie.is # "SIB1"
    BY <1>2, <1>4, <2>1, BetweenGrows
  <2>3. s.likely_enb_plmns = report[j].ie.plmns
    <3>1. n - 1 + 1 = n
      BY <1>3
    <3> QED BY <2>1, <2>2, <3>1 DEF ImsiTowerInv
  <2> QED BY <1>1, <1>2, <1>3, <2>1, <2>2, <2>3 DEF ImsiEffect
<1> QED BY <1>5, <1>6

LEMMA ImsiPhoneStep ==
  ASSUME NEW row, NEW n, NEW s, NEW o, ImsiRow(row, n, s, o), ImsiPhoneInv(s, n - 1)
  PROVE  ImsiPhoneInv(o.st, n)'
<1>1. PICK u : u = o.st
  OBVIOUS
<1>2. Typed /\ AddsRow(row) /\ n = Len(report) + 1 /\ ImsiEffect(s, row.ie, o)
  BY DEF ImsiRow
<1>3. n \in Nat /\ n >= 1 /\ report'[n] = row /\ \A k \in 1..(n - 1) : report'[k] = report[k]
  BY <1>2, Growth
<1>4. SUFFICES ASSUME NEW j \in 1..n, Is(j, {"AttachRequest"})', report'[j].ie.plmn # None,
                      \A l \in (j + 1)..n : Is(l, {"AttachRequest"})' => report'[l].ie.plmn = None
               PROVE  u.likely_ue_plmn = report'[j].ie.plmn
  BY <1>1 DEF ImsiPhoneInv
<1>5. CASE j = n
  BY <1>1, <1>2, <1>3, <1>4, <1>5, BetweenGrows DEF ImsiEffect
<1>6. CASE j # n
  <2>1. j \in 1..(n - 1) /\ n \in (j + 1)..n /\ \A l \in (j + 1)..(n - 1) : l \in (j + 1)..n /\ l \in 1..(n - 1)
    BY <1>3, <1>6
  <2>2. \A l \in 1..(n - 1) : Is(l, {"AttachRequest"})' <=> Is(l, {"AttachRequest"})
    BY <1>3 DEF Is
  <2>3. row.ie.is = "AttachRequest" => row.ie.plmn = None
    BY <1>2, <1>3, <1>4, <2>1, BetweenGrows
  <2>4. s.likely_ue_plmn = report[j].ie.plmn
    BY <1>3, <1>4, <2>1, <2>2 DEF ImsiPhoneInv
  <2> QED BY <1>1, <1>2, <1>3, <2>1, <2>3, <2>4 DEF ImsiEffect
<1> QED BY <1>5, <1>6

LEMMA CountedGrows ==
  ASSUME NEW row, Typed, AddsRow(row), NEW n, n = Len(report) + 1, NEW j \in 1..(n - 1)
  PROVE  /\ CountedTo(j, n - 1) \subseteq j..(n - 1)
         /\ Cardinality(CountedTo(j, n - 1)) \in Nat
         /\ row.ie.is \in {"SIB1", "nothing", "garbled"} => CountedTo(j, n)' = CountedTo(j, n - 1)
         /\ row.ie.is \notin {"SIB1", "nothing", "garbled"} =>
              Cardinality(CountedTo(j, n)') = Cardinality(CountedTo(j, n - 1)) + 1
<1> DEFINE uncounted == {"SIB1", "nothing", "garbled"}
           C == CountedTo(j, n - 1)
           D == CountedTo(j, n)'
<1>1. n \in Nat /\ n >= 1 /\ j \in Nat /\ j >= 1
  BY Growth
<1>2. \A k \in j..(n - 1) : Is(k, uncounted)' <=> Is(k, uncounted)
  <2>1. \A k \in j..(n - 1) : k \in 1..(n - 1)
    BY <1>1
  <2> QED BY <2>1, Growth DEF Is
<1>3. Is(n, uncounted)' <=> row.ie.is \in uncounted
  BY BetweenGrows
<1>4. C = {k \in j..(n - 1) : ~Is(k, uncounted)} /\ D = {k \in j..n : ~Is(k, uncounted)'}
  BY DEF CountedTo
<1>5. C \subseteq j..(n - 1) /\ IsFiniteSet(C) /\ Cardinality(C) \in Nat
  <2>1. C \subseteq j..(n - 1) /\ IsFiniteSet(j..(n - 1))
    BY <1>1, <1>4, FS_Interval
  <2> HIDE DEF C
  <2> QED BY <2>1, FS_Subset, FS_CardinalityType
<1>6. j..n = (j..(n - 1)) \union {n} /\ n \notin j..(n - 1)
  BY <1>1
<1> HIDE DEF uncounted
<1>7. CASE row.ie.is \in uncounted
  <2>1. D = C
    BY <1>2, <1>3, <1>4, <1>6, <1>7
  <2> QED BY <1>5, <1>7, <2>1 DEF uncounted
<1>8. CASE row.ie.is \notin uncounted
  <2>1. D = C \union {n} /\ n \notin C
    BY <1>2, <1>3, <1>4, <1>6, <1>8
  <2> HIDE DEF C, D
  <2>2. Cardinality(D) = Cardinality(C) + 1
    BY <1>5, <2>1, FS_AddElement
  <2> QED BY <1>5, <1>8, <2>2 DEF C, D, uncounted
<1> QED BY <1>7, <1>8

LEMMA ImsiCounterStep ==
  ASSUME NEW row, NEW n, NEW s, NEW o, ImsiRow(row, n, s, o),
         ImsiStateInv(s, n - 1), ImsiCounterInv(s, n - 1)
  PROVE  ImsiCounterInv(o.st, n)'
<1> DEFINE asked == Moves \union {"IdentityRequest"}
<1>1. PICK u : u = o.st
  OBVIOUS
<1>2. /\ Typed /\ AddsRow(row) /\ n = Len(report) + 1 /\ ImsiEffect(s, row.ie, o)
      /\ o.ev = Said(n, "imsi_requested")' /\ s.timeout_counter \in Nat
  BY Threshold DEF ImsiRow
<1>3. /\ n \in Nat /\ n >= 1
      /\ \A k \in 1..(n - 1) : Said(k, "imsi_requested")' = Said(k, "imsi_requested")
  BY <1>2, Growth
<1>4. SUFFICES ASSUME NEW j \in 1..n, Is(j, {"IdentityRequest"})', ~Between(asked, j, n + 1)'
               PROVE  \/ \E k \in j..n : Said(k, "imsi_requested")' = Informational
                      \/ Cardinality(CountedTo(j, n)') <= u.timeout_counter
  BY <1>1 DEF ImsiCounterInv
<1>5. CASE j = n
  <2>1. row.ie.is = "IdentityRequest"
    BY <1>2, <1>4, <1>5, BetweenGrows
  <2>2. Said(n, "imsi_requested")' = Informational \/ u.timeout_counter >= 1
    BY <1>1, <1>2, <2>1 DEF ImsiEffect
  <2>3. CountedTo(n, n)' = {n}
    <3>1. ~Is(n, {"SIB1", "nothing", "garbled"})'
      BY <1>2, <2>1, BetweenGrows
    <3>2. n..n = {n}
      BY <1>3
    <3> QED BY <3>1, <3>2 DEF CountedTo
  <2>4. Cardinality(CountedTo(j, n)') = 1 /\ n \in j..n
    BY <1>3, <1>5, <2>3, FS_Singleton
  <2> QED BY <2>2, <2>4
<1>6. CASE j # n
  <2>1. j \in 1..(n - 1) /\ n - 1 + 1 = n /\ n \in j..n
    BY <1>3, <1>6
  <2>2. Is(j, {"IdentityRequest"}) /\ ~Between(asked, j, n) /\ row.ie.is \notin asked
    BY <1>2, <1>4, <2>1, BetweenGrows
  <2>3. ~Between(Moves, j, n)
    BY <2>2 DEF Between, Is
  <2>4. s.state = "IdentityRequest"
    BY <2>1, <2>2, <2>3 DEF ImsiStateInv
  <2>5. \/ \E k \in j..(n - 1) : Said(k, "imsi_requested") = Informational
        \/ Cardinality(CountedTo(j, n - 1)) <= s.timeout_counter
    BY <2>1, <2>2 DEF ImsiCounterInv
  <2>6. CASE \E k \in j..(n - 1) : Said(k, "imsi_requested") = Informational
    <3>1. PICK k \in j..(n - 1) : Said(k, "imsi_requested") = Informational
      BY <2>6
    <3>2. k \in 1..(n - 1) /\ k \in j..n
      BY <1>3, <2>1
    <3> QED BY <1>3, <3>1, <3>2
  <2>7. CASE Cardinality(CountedTo(j, n - 1)) <= s.timeout_counter
    <3>1. CASE row.ie.is \in {"SIB1", "nothing", "garbled"}
      <4>1. u.timeout_counter = s.timeout_counter
        BY <1>1, <1>2, <3>1 DEF ImsiEffect
      <4> QED BY <1>2, <2>1, <2>7, <3>1, <4>1, CountedGrows
    <3>2. CASE row.ie.is \notin {"SIB1", "nothing", "garbled"}
      <4>1. o.ev = Informational \/ u.timeout_counter = s.timeout_counter + 1
        BY <1>1, <1>2, <2>2, <2>4, <3>2 DEF ImsiEffect
      <4>2. /\ Cardinality(CountedTo(j, n)') = Cardinality(CountedTo(j, n - 1)) + 1
            /\ Cardinality(CountedTo(j, n - 1)) \in Nat
        BY <1>2, <2>1, <3>2, CountedGrows
      <4> QED BY <1>2, <2>1, <2>7, <4>1, <4>2
    <3> QED BY <3>1, <3>2
  <2> QED BY <2>5, <2>6, <2>7
<1> QED BY <1>5, <1>6

\* On the home network the code takes it for the home network.
LEMMA HomeIsKnown ==
  ASSUME NEW row, NEW n, NEW s, NEW o, ImsiRow(row, n, s, o),
         ImsiTowerInv(s, n - 1), ImsiPhoneInv(s, n - 1), OnHomeNetwork(n)'
  PROVE  enb_is_home_network(s)
<1>1. Typed /\ AddsRow(row) /\ n = Len(report) + 1
  BY DEF ImsiRow
<1>2. /\ n \in Nat /\ n >= 1 /\ report'[n] = row
      /\ \A k \in 1..(n - 1) : report'[k] = report[k] /\ report[k] \in Rows
  BY <1>1, Growth
<1>3. PICK j \in 1..(n - 1) :
        /\ Is(j, {"SIB1"})' /\ ~Between({"SIB1"}, j, n)'
        /\ \/ report'[j].ie.plmns \intersect home_plmn # {}
           \/ \E k \in 1..(n - 1) :
                /\ Is(k, {"AttachRequest"})' /\ report'[k].ie.plmn \in report'[j].ie.plmns
                /\ \A l \in (k + 1)..(n - 1) :
                     Is(l, {"AttachRequest"})' => report'[l].ie.plmn = None
  BY DEF OnHomeNetwork
<1>4. Is(j, {"SIB1"}) /\ ~Between({"SIB1"}, j, n - 1 + 1)
  <2>1. n - 1 + 1 = n
    BY <1>2
  <2> QED BY <1>1, <1>3, <2>1, BetweenGrows
<1>5. s.likely_enb_plmns = report[j].ie.plmns
  BY <1>4 DEF ImsiTowerInv
<1>6. CASE report'[j].ie.plmns \intersect home_plmn # {}
  BY <1>2, <1>5, <1>6 DEF enb_is_home_network
<1>7. CASE \E k \in 1..(n - 1) :
             /\ Is(k, {"AttachRequest"})' /\ report'[k].ie.plmn \in report'[j].ie.plmns
             /\ \A l \in (k + 1)..(n - 1) : Is(l, {"AttachRequest"})' => report'[l].ie.plmn = None
  <2>1. PICK k \in 1..(n - 1) :
             /\ Is(k, {"AttachRequest"})' /\ report'[k].ie.plmn \in report'[j].ie.plmns
             /\ \A l \in (k + 1)..(n - 1) : Is(l, {"AttachRequest"})' => report'[l].ie.plmn = None
    BY <1>7
  <2>2. None \notin report[j].ie.plmns
    <3>1. report[j].ie.is = "SIB1" /\ report[j].ie \in recording.ies \union {Nothing, Garbled}
      BY <1>2, <1>4 DEF Is, Rows
    <3>2. report[j].ie \in recording.ies /\ recording \in Recordings
      BY <1>1, <3>1 DEF Nothing, Garbled, Typed, TypeOK
    <3> QED BY <3>1, <3>2, ElementsAssumption
  <2>3. \A l \in 1..(n - 1) : Is(l, {"AttachRequest"})' <=> Is(l, {"AttachRequest"})
    BY <1>2 DEF Is
  <2>4. \A l \in (k + 1)..(n - 1) : l \in 1..(n - 1)
    BY <1>2
  <2>5. s.likely_ue_plmn = report[k].ie.plmn
    BY <1>2, <2>1, <2>2, <2>3, <2>4 DEF ImsiPhoneInv
  <2> QED BY <1>2, <1>5, <2>1, <2>5 DEF enb_is_home_network
<1> QED BY <1>3, <1>6, <1>7

LEMMA ImsiStep ==
  ASSUME Typed, ImsiInv, NEW row, AddsRow(row)
  PROVE  ImsiInv' /\ DisconnectTold'
<1>0. PICK n : n = Len(report) + 1
  OBVIOUS
<1>1. n \in Nat /\ n >= 1 /\ Len(report) = n - 1 /\ Len(report') = n /\ recording' = recording
  BY <1>0, Growth
<1> SUFFICES ASSUME "imsi_requested" \in recording.on
             PROVE  ImsiInv' /\ DisconnectTold'
  BY <1>1 DEF ImsiInv, DisconnectTold, On
<1>2. PICK s, o : ImsiRow(row, n, s, o)
  BY <1>0, ImsiRowIs
<1>3. s = analyzers["imsi_requested"] /\ o.st = analyzers'["imsi_requested"] /\ ImsiEffect(s, row.ie, o)
  BY <1>2 DEF ImsiRow
<1>4. /\ ImsiStateInv(s, n - 1) /\ ImsiTowerInv(s, n - 1)
      /\ ImsiPhoneInv(s, n - 1) /\ ImsiCounterInv(s, n - 1)
  BY <1>1, <1>3 DEF ImsiInv
<1>5. PICK u : u = o.st
  OBVIOUS
<1>6. /\ ImsiStateInv(u, n)' /\ ImsiTowerInv(u, n)' /\ ImsiPhoneInv(u, n)' /\ ImsiCounterInv(u, n)'
  BY <1>2, <1>4, <1>5, ImsiStateStep, ImsiTowerStep, ImsiPhoneStep, ImsiCounterStep
<1>7. DOMAIN u = ImsiFields /\ u.timeout_counter \in 0..(TIMEOUT_THRESHHOLD - 1)
  BY <1>3, <1>5 DEF ImsiEffect
<1>8. ImsiInv'
  BY <1>1, <1>3, <1>5, <1>6, <1>7 DEF ImsiInv
<1>9. ASSUME NEW j \in 1..(n - 1), Is(n, Disconnects)', Is(j, {"IdentityRequest"})',
             ~Between(Moves, j, n)'
      PROVE  /\ Said(n, "imsi_requested")' >= Low
             /\ OnHomeNetwork(n)' /\ ~(Is(n, {"AttachReject"})' /\ report'[n].ie.not_allowed)
                  => Said(n, "imsi_requested")' = High
  <2>1. /\ row.ie.is \in Disconnects /\ Is(j, {"IdentityRequest"}) /\ ~Between(Moves, j, n)
        /\ report'[n] = row /\ (Is(n, {"AttachReject"})' <=> row.ie.is = "AttachReject")
    BY <1>0, <1>9, BetweenGrows, Growth
  <2>2. s.state = "IdentityRequest"
    <3>1. n - 1 + 1 = n
      BY <1>1
    <3> QED BY <1>4, <2>1, <3>1 DEF ImsiStateInv
  <2>3. o.ev = ImsiFlag(s, ImsiMove(row.ie)) /\ o.ev = Said(n, "imsi_requested")'
    BY <1>2, <1>3, <2>1 DEF ImsiEffect, ImsiRow
  <2>4. /\ ImsiMove(row.ie) \in {"Disconnect", "LikelyValidAttachReject"}
        /\ ~(row.ie.is = "AttachReject" /\ row.ie.not_allowed) => ImsiMove(row.ie) = "Disconnect"
    BY <2>1, ImsiMoveIs
  <2>5. /\ ImsiFlag(s, "LikelyValidAttachReject") = Low
        /\ ImsiFlag(s, "Disconnect") = IF enb_is_home_network(s) THEN High ELSE Low
    BY <2>2 DEF ImsiFlag
  <2>6. OnHomeNetwork(n)' => enb_is_home_network(s)
    BY <1>2, <1>4, HomeIsKnown
  <2>7. PICK m : m = ImsiMove(row.ie)
    OBVIOUS
  <2>8. m = "LikelyValidAttachReject" => o.ev = Low
    BY <2>3, <2>5, <2>7
  <2>9. m = "Disconnect" => o.ev = IF enb_is_home_network(s) THEN High ELSE Low
    BY <2>3, <2>5, <2>7
  <2>10. o.ev >= Low
    BY <2>4, <2>7, <2>8, <2>9, Levels
  <2>11. ASSUME OnHomeNetwork(n)', ~(Is(n, {"AttachReject"})' /\ report'[n].ie.not_allowed)
         PROVE  o.ev = High
    <3>1. m = "Disconnect"
      BY <2>1, <2>4, <2>7, <2>11
    <3> QED BY <2>6, <2>9, <2>11, <3>1
  <2> QED BY <2>3, <2>10, <2>11
<1>10. DisconnectTold'
  BY <1>1, <1>9 DEF DisconnectTold
<1> QED BY <1>8, <1>10

\* A request the counter has not noted is younger than the threshold.
LEMMA CounterNotes ==
  ASSUME Typed, ImsiInv
  PROVE  UnansweredNoted
<1> SUFFICES ASSUME On("imsi_requested")
             PROVE  UnansweredNoted
  BY DEF UnansweredNoted
<1> DEFINE i == Len(report)
           s == analyzers["imsi_requested"]
<1>1. ASSUME NEW j \in 1..i, Is(j, {"IdentityRequest"}),
             ~Between(Moves \union {"IdentityRequest"}, j, i + 1),
             Cardinality(CountedTo(j, i)) = TIMEOUT_THRESHHOLD
      PROVE  \E k \in j..i : Said(k, "imsi_requested") = Informational
  <2>1. ImsiCounterInv(s, i) /\ s.timeout_counter \in 0..(TIMEOUT_THRESHHOLD - 1)
    BY DEF ImsiInv, On
  <2>2. ~(Cardinality(CountedTo(j, i)) <= s.timeout_counter)
    BY <1>1, <2>1, Threshold
  <2> QED BY <1>1, <2>1, <2>2 DEF ImsiCounterInv
<1> QED BY <1>1 DEF UnansweredNoted, CountedTo

-----------------------------------------------------------------------------
(* Failed authentications. *)

FlashFields ==
  {"imsi_requested_at", "checked_in_at", "forged_challenges", "synch_failures", "reported"}

\* Packet k is an authentication failure of this cause.
Caused(k, cause) == Is(k, {"AuthenticationFailure"}) /\ report[k].ie.cause = cause

\* S holds failures of one cause, and all of them that are neither over nor old.
Tracks(S, cause, n) ==
  /\ \A k \in S : k \in 1..n /\ Caused(k, cause)
  /\ \A k \in 1..n : Caused(k, cause) /\ ~Between(Ends, k, n + 1) /\ n - k <= WINDOW => k \in S

\* From j to n no gap between two failures is longer than the window; how long
\* the last one is ago does not matter.
Chained(j, n) ==
  \A k \in j..n : Failure(k) =>
    \/ \E l \in (k + 1)..n : Failure(l) /\ l - k <= WINDOW
    \/ \A l \in (k + 1)..n : ~Failure(l)

\* The warning of packet j is about the run that packet n may continue.
AlarmOf(j, n) ==
  /\ Said(j, "flash_catch") >= Medium
  /\ ~Between(Ends, j, n + 1) /\ Chained(j, n)

FlashStateInv(s, n) ==
  /\ DOMAIN s = FlashFields /\ s.reported \in BOOLEAN
  /\ Tracks(s.forged_challenges, "forged", n) /\ Tracks(s.synch_failures, "synch", n)
  /\ s.reported <=> \E j \in 1..n : AlarmOf(j, n)

\* `reported` says that the current run has its warning, and only failures have one.
FlashInv ==
  "flash_catch" \in recording.on =>
    /\ FlashStateInv(analyzers["flash_catch"], Len(report))
    /\ \A j \in 1..Len(report) : Said(j, "flash_catch") >= Medium => Failure(j)

LEMMA Window ==
  WINDOW \in Nat /\ FORGED_CHALLENGES_TO_WARN \in Nat /\ SYNCH_FAILURES_TO_WARN \in Nat
BY DetectorsAssumption

\* The failures of S that packet n still finds recent.
Kept(S, n) == {at \in S : Recent(at, n)}

\* The run that `reported` is about goes on with packet n.
StillReported(s, n) ==
  s.reported /\ (Kept(s.forged_challenges, n) # {} \/ Kept(s.synch_failures, n) # {})

LEMMA PruneIs ==
  \A s, n : DOMAIN s = FlashFields /\ s.reported \in BOOLEAN =>
    /\ DOMAIN prune(s, n) = FlashFields
    /\ prune(s, n).forged_challenges = Kept(s.forged_challenges, n)
    /\ prune(s, n).synch_failures = Kept(s.synch_failures, n)
    /\ prune(s, n).reported <=> StillReported(s, n)
    /\ prune(s, n).reported \in BOOLEAN
BY DEF prune, FlashFields, Kept, StillReported

\* What a message does, by its kind; o is the answer.
IsFailure(ie) == ie.is = "AuthenticationFailure" /\ ie.cause \in {"forged", "synch"}

FlashEffect(s, ie, n, o) ==
  /\ DOMAIN o.st = FlashFields /\ o.st.reported \in BOOLEAN
  /\ ie.is \in Ends =>
       /\ o.st.forged_challenges = {} /\ o.st.synch_failures = {} /\ ~o.st.reported
       /\ ~(o.ev >= Medium)
  /\ ie.is \notin Ends /\ ~IsFailure(ie) =>
       /\ o.st.forged_challenges = s.forged_challenges
       /\ o.st.synch_failures = s.synch_failures
       /\ o.st.reported = s.reported
       /\ ~(o.ev >= Medium)
  /\ IsFailure(ie) =>
       /\ o.st.reported <=> StillReported(s, n) \/ o.ev >= Medium
       /\ StillReported(s, n) => ~(o.ev >= Medium)
  /\ IsFailure(ie) /\ ie.cause = "forged" =>
       /\ o.st.forged_challenges = Kept(s.forged_challenges, n) \union {n}
       /\ o.st.synch_failures = Kept(s.synch_failures, n)
       /\ /\ ~StillReported(s, n)
          /\ ~(Cardinality(o.st.forged_challenges) < FORGED_CHALLENGES_TO_WARN)
          => o.ev >= Medium
  /\ IsFailure(ie) /\ ie.cause = "synch" =>
       /\ o.st.forged_challenges = Kept(s.forged_challenges, n)
       /\ o.st.synch_failures = Kept(s.synch_failures, n) \union {n}

LEMMA ForgedIs ==
  ASSUME NEW s, NEW ie, NEW n, NEW o, DOMAIN s = FlashFields, s.reported \in BOOLEAN,
         ie.is = "AuthenticationFailure", ie.cause = "forged", o = on_forged_challenge(s, n)
  PROVE  FlashEffect(s, ie, n, o)
<1>1. PICK p : p = prune(s, n)
  OBVIOUS
<1> DEFINE q == [p EXCEPT !.forged_challenges = @ \union {n}]
           r == [q EXCEPT !.reported = TRUE]
           few == Cardinality(q.forged_challenges) < FORGED_CHALLENGES_TO_WARN
<1>2. /\ DOMAIN p = FlashFields /\ p.forged_challenges = Kept(s.forged_challenges, n)
      /\ p.synch_failures = Kept(s.synch_failures, n)
      /\ p.reported <=> StillReported(s, n)
      /\ p.reported \in BOOLEAN
  BY <1>1, PruneIs
<1>3. /\ DOMAIN q = FlashFields /\ q.forged_challenges = p.forged_challenges \union {n}
      /\ q.synch_failures = p.synch_failures /\ q.reported = p.reported
  BY <1>2 DEF FlashFields
<1>4. /\ DOMAIN r = FlashFields /\ r.forged_challenges = q.forged_challenges
      /\ r.synch_failures = q.synch_failures /\ r.reported = TRUE
  BY <1>3 DEF FlashFields
<1>5. IsFailure(ie) /\ ie.is \notin Ends /\ ie.cause # "synch"
  BY DEF IsFailure, Ends
<1>6. CASE p.reported \/ few
  <2>1. o.st = q /\ o.ev = Silent
    BY <1>1, <1>6, OutIs DEF on_forged_challenge
  <2>2. ~(o.ev >= Medium)
    BY <2>1, Levels
  <2> HIDE DEF q
  <2> QED BY <1>2, <1>3, <1>5, <1>6, <2>1, <2>2 DEF FlashEffect
<1>7. CASE ~(p.reported \/ few)
  <2>1. o.st = r /\ o.ev \in {High, Medium}
    BY <1>1, <1>7, OutIs DEF on_forged_challenge
  <2>2. o.ev >= Medium
    BY <2>1, Levels
  <2> HIDE DEF q, r
  <2> QED BY <1>2, <1>3, <1>4, <1>5, <1>7, <2>1, <2>2 DEF FlashEffect
<1> QED BY <1>6, <1>7

LEMMA SynchIs ==
  ASSUME NEW s, NEW ie, NEW n, NEW o, DOMAIN s = FlashFields, s.reported \in BOOLEAN,
         ie.is = "AuthenticationFailure", ie.cause = "synch", o = on_synch_failure(s, n)
  PROVE  FlashEffect(s, ie, n, o)
<1>1. PICK p : p = prune(s, n)
  OBVIOUS
<1> DEFINE q == [p EXCEPT !.synch_failures = @ \union {n}]
           r == [q EXCEPT !.reported = TRUE]
           few == Cardinality(q.synch_failures) < SYNCH_FAILURES_TO_WARN
<1>2. /\ DOMAIN p = FlashFields /\ p.forged_challenges = Kept(s.forged_challenges, n)
      /\ p.synch_failures = Kept(s.synch_failures, n)
      /\ p.reported <=> StillReported(s, n)
      /\ p.reported \in BOOLEAN
  BY <1>1, PruneIs
<1>3. /\ DOMAIN q = FlashFields /\ q.synch_failures = p.synch_failures \union {n}
      /\ q.forged_challenges = p.forged_challenges /\ q.reported = p.reported
  BY <1>2 DEF FlashFields
<1>4. /\ DOMAIN r = FlashFields /\ r.forged_challenges = q.forged_challenges
      /\ r.synch_failures = q.synch_failures /\ r.reported = TRUE
  BY <1>3 DEF FlashFields
<1>5. IsFailure(ie) /\ ie.is \notin Ends /\ ie.cause # "forged"
  BY DEF IsFailure, Ends
<1>6. CASE p.reported \/ few
  <2>1. o.st = q /\ o.ev = Silent
    BY <1>1, <1>6, OutIs DEF on_synch_failure
  <2>2. ~(o.ev >= Medium)
    BY <2>1, Levels
  <2> HIDE DEF q
  <2> QED BY <1>2, <1>3, <1>5, <1>6, <2>1, <2>2 DEF FlashEffect
<1>7. CASE ~(p.reported \/ few)
  <2>1. o.st = r /\ o.ev = Medium
    BY <1>1, <1>7, OutIs DEF on_synch_failure
  <2>2. o.ev >= Medium
    BY <2>1, Levels
  <2> HIDE DEF q, r
  <2> QED BY <1>2, <1>3, <1>4, <1>5, <1>7, <2>1, <2>2 DEF FlashEffect
<1> QED BY <1>6, <1>7

LEMMA FlashEffectIs ==
  ASSUME NEW s, NEW ie, NEW n, NEW o, DOMAIN s = FlashFields, s.reported \in BOOLEAN,
         \/ o = FlashCatch(s, ie, n)
         \/ o = Out(s, Silent) /\ ie.is \in {"nothing", "garbled"}
  PROVE  FlashEffect(s, ie, n, o)
<1> DEFINE same == /\ DOMAIN o.st = FlashFields
                   /\ o.st.forged_challenges = s.forged_challenges
                   /\ o.st.synch_failures = s.synch_failures /\ o.st.reported = s.reported
                   /\ ~(o.ev >= Medium)
<1>1. same /\ ie.is \notin Ends /\ ~IsFailure(ie) => FlashEffect(s, ie, n, o)
  BY DEF FlashEffect
<1>2. CASE o = Out(s, Silent) /\ ie.is \notin Ends /\ ~IsFailure(ie)
  <2>1. o.st = s /\ ~(o.ev >= Medium)
    BY <1>2, OutIs, Levels
  <2> QED BY <1>1, <1>2, <2>1
<1>3. CASE o = FlashCatch(s, ie, n) /\ ie.is \in Ends
  <2>1. \/ o = Out([FlashStart EXCEPT !.checked_in_at = n], Silent)
        \/ o = Out(FlashStart, Silent)
    BY <1>3 DEF FlashCatch, Ends
  <2>2. o.st \in {[FlashStart EXCEPT !.checked_in_at = n], FlashStart} /\ ~(o.ev >= Medium)
    BY <2>1, OutIs, Levels
  <2>3. /\ DOMAIN o.st = FlashFields /\ o.st.forged_challenges = {} /\ o.st.synch_failures = {}
        /\ o.st.reported = FALSE
    BY <2>2 DEF FlashStart, FlashFields
  <2>4. ~IsFailure(ie)
    BY <1>3 DEF Ends, IsFailure
  <2> QED BY <1>3, <2>2, <2>3, <2>4 DEF FlashEffect
<1>4. CASE o = FlashCatch(s, ie, n) /\ ie.is = "IdentityRequest" /\ ie.imsi
  <2>1. o = on_imsi_request(s, n)
    BY <1>4 DEF FlashCatch
  <2>2. o.st = [s EXCEPT !.imsi_requested_at = n] /\ ~(o.ev >= Medium)
    BY <2>1, OutIs, Levels DEF on_imsi_request
  <2>3. same
    BY <2>2 DEF FlashFields
  <2>4. ie.is \notin Ends /\ ~IsFailure(ie)
    BY <1>4 DEF Ends, IsFailure
  <2> QED BY <1>1, <2>3, <2>4
<1>5. CASE o = FlashCatch(s, ie, n) /\ IsFailure(ie) /\ ie.cause = "forged"
  <2>1. o = on_forged_challenge(s, n) /\ ie.is = "AuthenticationFailure"
    BY <1>5 DEF FlashCatch, IsFailure
  <2> QED BY <1>5, <2>1, ForgedIs
<1>6. CASE o = FlashCatch(s, ie, n) /\ IsFailure(ie) /\ ie.cause = "synch"
  <2>1. o = on_synch_failure(s, n) /\ ie.is = "AuthenticationFailure"
    BY <1>6 DEF FlashCatch, IsFailure
  <2> QED BY <1>6, <2>1, SynchIs
<1>7. CASE /\ o = FlashCatch(s, ie, n) /\ ie.is \notin Ends /\ ~IsFailure(ie)
           /\ ~(ie.is = "IdentityRequest" /\ ie.imsi)
  <2>1. o = Out(s, Silent)
    BY <1>7 DEF FlashCatch, Ends, IsFailure
  <2> QED BY <1>2, <1>7, <2>1
<1>8. IsFailure(ie) => ie.cause \in {"forged", "synch"} /\ ie.is \notin Ends /\ ie.is # "IdentityRequest"
  BY DEF IsFailure, Ends
<1>9. ie.is \in {"nothing", "garbled"} => ie.is \notin Ends /\ ~IsFailure(ie)
  BY DEF IsFailure, Ends
<1> QED BY <1>2, <1>3, <1>4, <1>5, <1>6, <1>7, <1>8, <1>9

\* One row, with what the analyzer holds before and answers.
FlashRow(row, n, s, o) ==
  /\ Typed /\ AddsRow(row) /\ n = Len(report) + 1
  /\ s = analyzers["flash_catch"] /\ FlashStateInv(s, n - 1)
  /\ \A j \in 1..(n - 1) : Said(j, "flash_catch") >= Medium => Failure(j)
  /\ o.st = analyzers'["flash_catch"] /\ o.ev = Said(n, "flash_catch")'
  /\ FlashEffect(s, row.ie, n, o)

LEMMA FlashRowIs ==
  ASSUME Typed, FlashInv, NEW row, AddsRow(row), NEW n, n = Len(report) + 1,
         "flash_catch" \in recording.on
  PROVE  \E s, o : FlashRow(row, n, s, o)
<1>1. PICK s : s = analyzers["flash_catch"]
  OBVIOUS
<1>2. PICK o : o = Answer("flash_catch", row)
  OBVIOUS
<1>3. o.st = analyzers'["flash_catch"] /\ o.ev = Said(n, "flash_catch")' /\ Len(report) = n - 1
  BY <1>2, Growth, AnswerIs
<1>4. \/ o = FlashCatch(s, row.ie, n)
      \/ o = Out(s, Silent) /\ row.ie.is \in {"nothing", "garbled"}
  <2>1. CASE row.ie \in recording.ies
    BY <1>1, <1>2, <2>1, AnswerIs DEF Analyze
  <2>2. CASE row.ie \notin recording.ies
    BY <1>1, <1>2, <2>2, AnswerIs
  <2> QED BY <2>1, <2>2
<1>5. FlashStateInv(s, n - 1) /\ \A j \in 1..(n - 1) : Said(j, "flash_catch") >= Medium => Failure(j)
  BY <1>1, <1>3 DEF FlashInv
<1>6. FlashEffect(s, row.ie, n, o)
  BY <1>4, <1>5, FlashEffectIs DEF FlashStateInv
<1> QED BY <1>1, <1>3, <1>5, <1>6 DEF FlashRow

LEMMA FailureGrows ==
  ASSUME Typed, NEW row, AddsRow(row), NEW n, n = Len(report) + 1
  PROVE  /\ \A k \in 1..(n - 1) : /\ Failure(k)' <=> Failure(k)
                                  /\ \A c : Caused(k, c)' <=> Caused(k, c)
         /\ Failure(n)' <=> IsFailure(row.ie)
         /\ \A c : Caused(n, c)' <=> row.ie.is = "AuthenticationFailure" /\ row.ie.cause = c
<1>1. n \in Nat /\ n >= 1 /\ report'[n] = row /\ \A k \in 1..(n - 1) : report'[k] = report[k]
  BY Growth
<1>2. ASSUME NEW k \in 1..(n - 1)
      PROVE  (Failure(k)' <=> Failure(k)) /\ \A c : Caused(k, c)' <=> Caused(k, c)
  <2>1. report'[k] = report[k]
    BY <1>1
  <2> QED BY <2>1 DEF Failure, Caused, Is
<1>3. Failure(n)' <=> IsFailure(row.ie)
  BY <1>1 DEF Failure, IsFailure, Is
<1>4. \A c : Caused(n, c)' <=> row.ie.is = "AuthenticationFailure" /\ row.ie.cause = c
  BY <1>1 DEF Caused, Is
<1> QED BY <1>2, <1>3, <1>4

\* Every failure from j on has another within the window, packet n's at the latest.
Linked(j, n) == \A k \in j..(n - 1) : Failure(k) => \E l \in (k + 1)..n : Failure(l) /\ l - k <= WINDOW

LEMMA ChainedGrows ==
  ASSUME Typed, NEW row, AddsRow(row), NEW n, n = Len(report) + 1, NEW j \in 1..(n - 1)
  PROVE  /\ ~IsFailure(row.ie) => (Chained(j, n)' <=> Chained(j, n - 1))
         /\ IsFailure(row.ie) => (Chained(j, n)' <=> Linked(j, n)')
         /\ Linked(j, n)' => Chained(j, n - 1)
<1>1. n \in Nat /\ n >= 1 /\ j \in Nat /\ j >= 1 /\ j < n
  BY Growth
<1>2. \A k \in j..(n - 1) : k \in Nat /\ k \in 1..(n - 1) /\ k \in j..n /\ (Failure(k)' <=> Failure(k))
  BY <1>1, FailureGrows
<1>3. Failure(n)' <=> IsFailure(row.ie)
  BY FailureGrows
<1>4. \A k \in j..n : /\ k \in Nat /\ (k \in j..(n - 1) \/ k = n)
                      /\ \A l \in (k + 1)..n : l \in Nat /\ (l = n \/ (l \in (k + 1)..(n - 1) /\ l \in j..(n - 1)))
                      /\ \A l \in (k + 1)..(n - 1) : l \in Nat /\ l \in (k + 1)..n /\ l \in j..(n - 1)
  BY <1>1
<1>5. Chained(j, n)' <=> \A k \in j..n : Failure(k)' =>
           \/ \E l \in (k + 1)..n : Failure(l)' /\ l - k <= WINDOW
           \/ \A l \in (k + 1)..n : ~Failure(l)'
  BY DEF Chained
<1>6. Chained(j, n - 1) <=> \A k \in j..(n - 1) : Failure(k) =>
           \/ \E l \in (k + 1)..(n - 1) : Failure(l) /\ l - k <= WINDOW
           \/ \A l \in (k + 1)..(n - 1) : ~Failure(l)
  BY DEF Chained
<1>7. Linked(j, n)' <=> \A k \in j..(n - 1) : Failure(k)' =>
           \E l \in (k + 1)..n : Failure(l)' /\ l - k <= WINDOW
  BY DEF Linked
<1>8. ASSUME ~IsFailure(row.ie) PROVE Chained(j, n)' <=> Chained(j, n - 1)
  <2>1. ~Failure(n)'
    BY <1>3, <1>8
  <2>2. ASSUME NEW k \in j..(n - 1)
        PROVE  /\ (\E l \in (k + 1)..n : Failure(l)' /\ l - k <= WINDOW)
                    <=> \E l \in (k + 1)..(n - 1) : Failure(l) /\ l - k <= WINDOW
               /\ (\A l \in (k + 1)..n : ~Failure(l)') <=> \A l \in (k + 1)..(n - 1) : ~Failure(l)
    <3>1. k \in j..n
      BY <1>2
    <3> QED BY <1>2, <1>4, <2>1, <3>1
  <2>3. Chained(j, n)' <=> \A k \in j..(n - 1) : Failure(k)' =>
           \/ \E l \in (k + 1)..n : Failure(l)' /\ l - k <= WINDOW
           \/ \A l \in (k + 1)..n : ~Failure(l)'
    BY <1>2, <1>4, <1>5, <2>1
  <2> QED BY <1>2, <1>6, <2>2, <2>3
<1>9. ASSUME IsFailure(row.ie) PROVE Chained(j, n)' <=> Linked(j, n)'
  <2>1. Failure(n)' /\ \A l \in (n + 1)..n : FALSE
    BY <1>1, <1>3, <1>9
  <2>2. \A k \in j..(n - 1) : n \in (k + 1)..n
    BY <1>1
  <2> QED BY <1>2, <1>4, <1>5, <1>7, <2>1, <2>2
<1>10. ASSUME Linked(j, n)' PROVE Chained(j, n - 1)
  <2>1. SUFFICES ASSUME NEW k \in j..(n - 1), Failure(k), NEW m \in (k + 1)..(n - 1), Failure(m)
                 PROVE  \E l \in (k + 1)..(n - 1) : Failure(l) /\ l - k <= WINDOW
    BY <1>6
  <2>2. PICK l \in (k + 1)..n : Failure(l)' /\ l - k <= WINDOW
    BY <1>2, <1>7, <1>10, <2>1
  <2>3. CASE l = n
    <3>1. m - k <= WINDOW
      BY <1>1, <2>1, <2>2, <2>3, Window
    <3> QED BY <2>1, <3>1
  <2>4. CASE l \in (k + 1)..(n - 1)
    <3>1. l \in j..(n - 1)
      BY <1>2, <1>4, <2>1, <2>4
    <3> QED BY <1>2, <2>2, <2>4, <3>1
  <2> QED BY <1>1, <2>2, <2>3, <2>4
<1> QED BY <1>8, <1>9, <1>10

\* The tracked failures after a row.
LEMMA TracksStep ==
  ASSUME Typed, NEW row, AddsRow(row), NEW n, n = Len(report) + 1, NEW c,
         c \in {"forged", "synch"}, NEW S, Tracks(S, c, n - 1), NEW T,
         row.ie.is \in Ends => T = {},
         row.ie.is \notin Ends /\ ~IsFailure(row.ie) => T = S,
         IsFailure(row.ie) /\ row.ie.cause = c => T = Kept(S, n) \union {n},
         IsFailure(row.ie) /\ row.ie.cause # c => T = Kept(S, n)
  PROVE  Tracks(T, c, n)'
<1>1. n \in Nat /\ n >= 1
  BY Growth
<1>2. \A k \in 1..(n - 1) : Caused(k, c)' <=> Caused(k, c)
  BY FailureGrows
<1>3. Caused(n, c)' <=> IsFailure(row.ie) /\ row.ie.cause = c
  BY FailureGrows DEF IsFailure
<1>4. \A k \in S : k \in 1..(n - 1) /\ Caused(k, c)
  BY DEF Tracks
<1>5. T \subseteq S \union {n} /\ (n \in T => Caused(n, c)')
  <2>1. n \notin S /\ Kept(S, n) \subseteq S
    BY <1>1, <1>4 DEF Kept
  <2> QED BY <1>3, <2>1
<1>6. \A k \in T : k \in 1..n /\ Caused(k, c)'
  BY <1>1, <1>2, <1>4, <1>5
<1>7. ASSUME NEW k \in 1..n, Caused(k, c)', ~Between(Ends, k, n + 1)', n - k <= WINDOW
      PROVE  k \in T
  <2>1. CASE k = n
    BY <1>3, <1>7, <2>1
  <2>2. CASE k # n
    <3>1. k \in 1..(n - 1) /\ n - 1 + 1 = n
      BY <1>1, <2>2
    <3>2. Caused(k, c) /\ ~Between(Ends, k, n) /\ row.ie.is \notin Ends
      BY <1>2, <1>7, <3>1, BetweenGrows
    <3>3. k \in S
      <4>1. n - 1 - k <= WINDOW
        BY <1>1, <1>7, Window
      <4> QED BY <3>1, <3>2, <4>1 DEF Tracks
    <3>4. k \in Kept(S, n)
      <4>1. k # None
        BY <3>1, Levels
      <4> QED BY <1>7, <3>3, <4>1 DEF Kept, Recent
    <3> QED BY <3>2, <3>3, <3>4
  <2> QED BY <2>1, <2>2
<1> QED BY <1>6, <1>7 DEF Tracks

\* A failure finds `reported` still set exactly when it belongs to the run of an
\* earlier warning.
LEMMA StillIsLinked ==
  ASSUME NEW row, NEW n, NEW s, NEW o, FlashRow(row, n, s, o), IsFailure(row.ie)
  PROVE  StillReported(s, n) <=>
           \E j \in 1..(n - 1) :
             Said(j, "flash_catch") >= Medium /\ ~Between(Ends, j, n) /\ Linked(j, n)'
<1>1. /\ Typed /\ AddsRow(row) /\ n = Len(report) + 1 /\ FlashStateInv(s, n - 1)
      /\ \A j \in 1..(n - 1) : Said(j, "flash_catch") >= Medium => Failure(j)
  BY DEF FlashRow
<1>2. n \in Nat /\ n >= 1 /\ n - 1 + 1 = n
  BY <1>1, Growth
<1>3. Failure(n)' /\ \A k \in 1..(n - 1) : Failure(k)' <=> Failure(k)
  BY <1>1, FailureGrows
<1>4. /\ s.reported <=> \E j \in 1..(n - 1) : AlarmOf(j, n - 1)
      /\ Tracks(s.forged_challenges, "forged", n - 1) /\ Tracks(s.synch_failures, "synch", n - 1)
  BY <1>1 DEF FlashStateInv
<1>5. \A k : Failure(k) <=> Caused(k, "forged") \/ Caused(k, "synch")
  BY DEF Failure, Caused
<1>6. ASSUME StillReported(s, n)
      PROVE  \E j \in 1..(n - 1) :
               Said(j, "flash_catch") >= Medium /\ ~Between(Ends, j, n) /\ Linked(j, n)'
  <2>1. PICK j \in 1..(n - 1) : AlarmOf(j, n - 1)
    BY <1>4, <1>6 DEF StillReported
  <2>2. PICK z \in 1..(n - 1) : Failure(z) /\ n - z <= WINDOW
    <3>1. PICK z : z \in Kept(s.forged_challenges, n) \/ z \in Kept(s.synch_failures, n)
      BY <1>6 DEF StillReported
    <3>2. z \in 1..(n - 1) /\ Failure(z)
      BY <1>4, <1>5, <3>1 DEF Kept, Tracks
    <3>3. n - z <= WINDOW
      BY <3>1 DEF Kept, Recent
    <3> QED BY <3>2, <3>3
  <2>3. ASSUME NEW k \in j..(n - 1), Failure(k)'
        PROVE  \E l \in (k + 1)..n : Failure(l)' /\ l - k <= WINDOW
    <3>0. k \in Nat /\ k \in 1..(n - 1) /\ \A l \in (k + 1)..(n - 1) : l \in 1..(n - 1) /\ l \in (k + 1)..n
      BY <1>2
    <3>1. Failure(k)
      BY <1>3, <2>3, <3>0
    <3>2. \/ \E l \in (k + 1)..(n - 1) : Failure(l) /\ l - k <= WINDOW
          \/ \A l \in (k + 1)..(n - 1) : ~Failure(l)
      BY <2>1, <3>1 DEF AlarmOf, Chained
    <3>3. CASE \E l \in (k + 1)..(n - 1) : Failure(l) /\ l - k <= WINDOW
      BY <1>3, <3>0, <3>3
    <3>4. CASE \A l \in (k + 1)..(n - 1) : ~Failure(l)
      <4>1. z <= k
        BY <1>2, <2>2, <3>0, <3>4
      <4>2. n - k <= WINDOW /\ n \in (k + 1)..n
        BY <1>2, <2>2, <3>0, <4>1, Window
      <4> QED BY <1>3, <4>2
    <3> QED BY <3>2, <3>3, <3>4
  <2>4. Linked(j, n)'
    BY <2>3 DEF Linked
  <2> QED BY <1>2, <2>1, <2>4 DEF AlarmOf
<1>7. ASSUME NEW j \in 1..(n - 1), Said(j, "flash_catch") >= Medium, ~Between(Ends, j, n), Linked(j, n)'
      PROVE  StillReported(s, n)
  <2>1. s.reported
    <3>1. Chained(j, n - 1)
      BY <1>1, <1>7, ChainedGrows
    <3>2. AlarmOf(j, n - 1)
      BY <1>2, <1>7, <3>1 DEF AlarmOf
    <3> QED BY <1>4, <3>2
  <2> DEFINE F == {k \in j..(n - 1) : Failure(k)}
  <2>2. j \in F /\ F \subseteq (-1)..n /\ F \subseteq j..(n - 1)
    BY <1>1, <1>2, <1>7
  <2>3. PICK k \in F : \A l \in F : l <= k
    <3> HIDE DEF F
    <3> QED BY <1>2, <2>2, MaxIs
  <2>4. Failure(k) /\ k \in j..(n - 1) /\ k \in 1..(n - 1) /\ k \in Nat
    BY <1>2
  <2>5. PICK l \in (k + 1)..n : Failure(l)' /\ l - k <= WINDOW
    BY <1>3, <1>7, <2>4 DEF Linked
  <2>6. l = n
    <3> SUFFICES ASSUME l # n PROVE FALSE
      OBVIOUS
    <3>1. l \in j..(n - 1) /\ l \in 1..(n - 1) /\ ~(l <= k)
      BY <1>2, <2>4, <2>5
    <3>2. l \in F
      BY <1>3, <2>5, <3>1
    <3> QED BY <2>3, <3>1, <3>2
  <2>7. ~Between(Ends, k, n)
    <3>1. \A m \in (k + 1)..(n - 1) : m \in (j + 1)..(n - 1)
      BY <1>2, <2>4
    <3> QED BY <1>7, <3>1 DEF Between
  <2>8. n - k <= WINDOW /\ n - 1 - k <= WINDOW /\ k # None
    BY <1>2, <2>4, <2>5, <2>6, Window, Levels
  <2>9. k \in Kept(s.forged_challenges, n) \/ k \in Kept(s.synch_failures, n)
    <3>1. k \in s.forged_challenges \/ k \in s.synch_failures
      BY <1>2, <1>4, <1>5, <2>4, <2>7, <2>8 DEF Tracks
    <3> QED BY <2>8, <3>1 DEF Kept, Recent
  <2> QED BY <2>1, <2>9 DEF StillReported
<1> QED BY <1>6, <1>7

LEMMA AlarmGrows ==
  ASSUME NEW row, NEW n, NEW s, NEW o, FlashRow(row, n, s, o)
  PROVE  /\ row.ie.is \in Ends => \A j \in 1..n : ~AlarmOf(j, n)'
         /\ row.ie.is \notin Ends /\ ~IsFailure(row.ie) =>
              ((\E j \in 1..n : AlarmOf(j, n)') <=> \E j \in 1..(n - 1) : AlarmOf(j, n - 1))
         /\ IsFailure(row.ie) =>
              ((\E j \in 1..n : AlarmOf(j, n)') <=> StillReported(s, n) \/ o.ev >= Medium)
<1>1. /\ Typed /\ AddsRow(row) /\ n = Len(report) + 1 /\ FlashStateInv(s, n - 1)
      /\ FlashEffect(s, row.ie, n, o) /\ o.ev = Said(n, "flash_catch")'
  BY DEF FlashRow
<1>2. /\ n \in Nat /\ n >= 1 /\ n - 1 + 1 = n /\ n \in 1..n
      /\ \A j \in 1..n : j = n \/ j \in 1..(n - 1)
      /\ \A j \in 1..(n - 1) : j \in 1..n
      /\ \A j \in 1..(n - 1) : Said(j, "flash_catch")' = Said(j, "flash_catch")
  BY <1>1, Growth
<1>3. AlarmOf(n, n)' <=> o.ev >= Medium
  <2>1. Chained(n, n)'
    <3>1. \A k \in n..n : \A l \in (k + 1)..n : FALSE
      BY <1>2
    <3> QED BY <3>1 DEF Chained
  <2> QED BY <1>1, <2>1, BetweenGrows DEF AlarmOf
<1>4. \A j \in 1..(n - 1) : Between(Ends, j, n + 1)' <=> Between(Ends, j, n) \/ row.ie.is \in Ends
  BY <1>1, BetweenGrows
<1>5. CASE row.ie.is \in Ends
  <2>1. ~(o.ev >= Medium) /\ ~IsFailure(row.ie)
    BY <1>1, <1>5 DEF FlashEffect, IsFailure, Ends
  <2>2. \A j \in 1..(n - 1) : ~AlarmOf(j, n)'
    BY <1>4, <1>5 DEF AlarmOf
  <2> QED BY <1>2, <1>3, <1>5, <2>1, <2>2
<1>6. CASE row.ie.is \notin Ends /\ ~IsFailure(row.ie)
  <2>1. ~(o.ev >= Medium)
    BY <1>1, <1>6 DEF FlashEffect
  <2>2. ASSUME NEW j \in 1..(n - 1) PROVE AlarmOf(j, n)' <=> AlarmOf(j, n - 1)
    <3>1. Chained(j, n)' <=> Chained(j, n - 1)
      BY <1>1, <1>6, ChainedGrows
    <3> QED BY <1>2, <1>4, <1>6, <3>1 DEF AlarmOf
  <2> QED BY <1>2, <1>3, <1>6, <2>1, <2>2
<1>7. CASE IsFailure(row.ie)
  <2>1. row.ie.is \notin Ends
    BY <1>7 DEF IsFailure, Ends
  <2>2. ASSUME NEW j \in 1..(n - 1)
        PROVE  AlarmOf(j, n)' <=>
                 Said(j, "flash_catch") >= Medium /\ ~Between(Ends, j, n) /\ Linked(j, n)'
    <3>1. Chained(j, n)' <=> Linked(j, n)'
      BY <1>1, <1>7, ChainedGrows
    <3> QED BY <1>2, <1>4, <2>1, <3>1 DEF AlarmOf
  <2>3. StillReported(s, n) <=> \E j \in 1..(n - 1) : AlarmOf(j, n)'
    BY <1>7, <2>2, StillIsLinked
  <2> QED BY <1>2, <1>3, <1>7, <2>1, <2>3
<1> QED BY <1>5, <1>6, <1>7

LEMMA FlashStateStep ==
  ASSUME NEW row, NEW n, NEW s, NEW o, FlashRow(row, n, s, o)
  PROVE  FlashStateInv(o.st, n)'
<1>1. PICK u : u = o.st
  OBVIOUS
<1>2. /\ Typed /\ AddsRow(row) /\ n = Len(report) + 1 /\ FlashStateInv(s, n - 1)
      /\ FlashEffect(s, row.ie, n, o)
  BY DEF FlashRow
<1>3. IsFailure(row.ie) => row.ie.cause \in {"forged", "synch"} /\ row.ie.is \notin Ends
  BY DEF IsFailure, Ends
<1>4. Tracks(s.forged_challenges, "forged", n - 1) /\ Tracks(s.synch_failures, "synch", n - 1)
  BY <1>2 DEF FlashStateInv
<1>5. PICK S, T : S = s.forged_challenges /\ T = u.forged_challenges
  OBVIOUS
<1>6. PICK V, W : V = s.synch_failures /\ W = u.synch_failures
  OBVIOUS
<1>7. Tracks(T, "forged", n)'
  <2>1. /\ row.ie.is \in Ends => T = {}
        /\ row.ie.is \notin Ends /\ ~IsFailure(row.ie) => T = S
        /\ IsFailure(row.ie) /\ row.ie.cause = "forged" => T = Kept(S, n) \union {n}
        /\ IsFailure(row.ie) /\ row.ie.cause # "forged" => T = Kept(S, n)
    BY <1>1, <1>2, <1>3, <1>5 DEF FlashEffect
  <2> QED BY <1>2, <1>4, <1>5, <2>1, TracksStep
<1>8. Tracks(W, "synch", n)'
  <2>1. /\ row.ie.is \in Ends => W = {}
        /\ row.ie.is \notin Ends /\ ~IsFailure(row.ie) => W = V
        /\ IsFailure(row.ie) /\ row.ie.cause = "synch" => W = Kept(V, n) \union {n}
        /\ IsFailure(row.ie) /\ row.ie.cause # "synch" => W = Kept(V, n)
    BY <1>1, <1>2, <1>3, <1>6 DEF FlashEffect
  <2> QED BY <1>2, <1>4, <1>6, <2>1, TracksStep
<1>9. u.reported <=> \E j \in 1..n : AlarmOf(j, n)'
  <2>1. CASE row.ie.is \in Ends
    BY <1>1, <1>2, <2>1, AlarmGrows DEF FlashEffect
  <2>2. CASE row.ie.is \notin Ends /\ ~IsFailure(row.ie)
    BY <1>1, <1>2, <2>2, AlarmGrows DEF FlashEffect, FlashStateInv
  <2>3. CASE IsFailure(row.ie)
    BY <1>1, <1>2, <2>3, AlarmGrows DEF FlashEffect
  <2> QED BY <2>1, <2>2, <2>3
<1>10. DOMAIN u = FlashFields /\ u.reported \in BOOLEAN
  BY <1>1, <1>2 DEF FlashEffect
<1>11. FlashStateInv(u, n)'
  BY <1>5, <1>6, <1>7, <1>8, <1>9, <1>10 DEF FlashStateInv
<1> QED BY <1>1, <1>11

LEMMA FlashStep ==
  ASSUME Typed, FlashInv, NEW row, AddsRow(row)
  PROVE  FlashInv' /\ FlashCatchTold'
<1>0. PICK n : n = Len(report) + 1
  OBVIOUS
<1>1. /\ n \in Nat /\ n >= 1 /\ Len(report) = n - 1 /\ Len(report') = n /\ recording' = recording
      /\ \A j \in 1..(n - 1) : Said(j, "flash_catch")' = Said(j, "flash_catch")
      /\ report' # <<>>
  BY <1>0, Growth
<1> SUFFICES ASSUME "flash_catch" \in recording.on
             PROVE  FlashInv' /\ FlashCatchTold'
  BY <1>1 DEF FlashInv, FlashCatchTold, ForgedRunTold, OneAlarmPerRun, On
<1>2. PICK s, o : FlashRow(row, n, s, o)
  BY <1>0, FlashRowIs
<1>3. /\ o.st = analyzers'["flash_catch"] /\ o.ev = Said(n, "flash_catch")'
      /\ FlashEffect(s, row.ie, n, o) /\ FlashStateInv(s, n - 1)
      /\ \A j \in 1..(n - 1) : Said(j, "flash_catch") >= Medium => Failure(j)
  BY <1>2 DEF FlashRow
<1>4. PICK u : u = o.st
  OBVIOUS
<1>5. FlashStateInv(u, n)'
  BY <1>2, <1>4, FlashStateStep
<1>6. Failure(n)' <=> IsFailure(row.ie)
  BY <1>0, FailureGrows
<1>7. o.ev >= Medium => IsFailure(row.ie) /\ ~StillReported(s, n)
  BY <1>3 DEF FlashEffect
<1>8. \A j \in 1..n : Said(j, "flash_catch")' >= Medium => Failure(j)'
  <2>1. \A j \in 1..(n - 1) : Failure(j)' <=> Failure(j)
    BY <1>0, FailureGrows
  <2>2. \A j \in 1..n : j = n \/ j \in 1..(n - 1)
    BY <1>1
  <2> QED BY <1>1, <1>3, <1>6, <1>7, <2>1, <2>2
<1>9. FlashInv'
  <2>1. FlashStateInv(analyzers["flash_catch"], Len(report))'
    BY <1>1, <1>3, <1>4, <1>5 DEF FlashStateInv
  <2> QED BY <1>1, <1>8, <2>1 DEF FlashInv
<1>10. \A j \in 1..(n - 1) : SameRun(j, n)' <=> ~Between(Ends, j, n) /\ Linked(j, n)'
  <2>1. \A j \in 1..(n - 1) : Between(Ends, j, n)' <=> Between(Ends, j, n)
    BY <1>0, BetweenGrows
  <2> QED BY <2>1 DEF SameRun, Linked
<1>11. OneAlarmPerRun'
  <2>1. ASSUME Said(n, "flash_catch")' >= Medium, NEW j \in 1..(n - 1),
               Said(j, "flash_catch")' >= Medium
        PROVE  ~SameRun(j, n)'
    <3>1. IsFailure(row.ie) /\ ~StillReported(s, n) /\ Said(j, "flash_catch") >= Medium
      BY <1>1, <1>3, <1>7, <2>1
    <3> QED BY <1>2, <1>10, <3>1, StillIsLinked
  <2> QED BY <1>1, <2>1 DEF OneAlarmPerRun
<1> DEFINE Run == {j \in 1..n : /\ Failure(j)' /\ report'[j].ie.cause = "forged"
                                /\ n - j <= WINDOW /\ ~Between(Ends, j, n)'}
<1>12. ASSUME Failure(n)', report'[n].ie.cause = "forged",
              Cardinality(Run) >= FORGED_CHALLENGES_TO_WARN
       PROVE  \E j \in 1..n : Failure(j)' /\ SameRun(j, n)' /\ Said(j, "flash_catch")' >= Medium
  <2>1. IsFailure(row.ie) /\ row.ie.cause = "forged" /\ row.ie.is \notin Ends
    BY <1>0, <1>6, <1>12, Growth DEF IsFailure, Ends
  <2>2. CASE StillReported(s, n)
    <3>1. PICK j \in 1..(n - 1) :
            Said(j, "flash_catch") >= Medium /\ ~Between(Ends, j, n) /\ Linked(j, n)'
      BY <1>2, <2>1, <2>2, StillIsLinked
    <3>2. j \in 1..n
      BY <1>1
    <3> QED BY <1>1, <1>8, <1>10, <3>1, <3>2
  <2>3. CASE ~StillReported(s, n)
    <3>1. PICK S : S = u.forged_challenges
      OBVIOUS
    <3>2. Tracks(S, "forged", n)'
      BY <1>5, <3>1 DEF FlashStateInv
    <3>3. Run \subseteq S
      <4> SUFFICES ASSUME NEW j \in Run PROVE j \in S
        OBVIOUS
      <4>1. j \in 1..n /\ Caused(j, "forged")' /\ n - j <= WINDOW
        BY DEF Failure, Caused
      <4>2. ~Between(Ends, j, n + 1)'
        <5>1. CASE j = n
          BY <1>0, <5>1, BetweenGrows
        <5>2. CASE j # n
          <6>1. j \in 1..(n - 1) /\ ~Between(Ends, j, n)'
            BY <1>1, <4>1, <5>2
          <6> QED BY <1>0, <2>1, <6>1, BetweenGrows
        <5> QED BY <5>1, <5>2
      <4> QED BY <3>2, <4>1, <4>2 DEF Tracks
    <3>4. IsFiniteSet(S) /\ Cardinality(S) \in Nat
      <4>1. S \subseteq 1..n
        BY <3>2 DEF Tracks
      <4>2. IsFiniteSet(1..n)
        BY <1>1, FS_Interval
      <4> QED BY <4>1, <4>2, FS_Subset, FS_CardinalityType
    <3>5. Cardinality(Run) <= Cardinality(S) /\ Cardinality(Run) \in Nat
      <4> HIDE DEF Run
      <4>1. IsFiniteSet(Run) /\ Cardinality(Run) <= Cardinality(S)
        BY <3>3, <3>4, FS_Subset
      <4> QED BY <4>1, FS_CardinalityType
    <3>6. ~(Cardinality(S) < FORGED_CHALLENGES_TO_WARN)
      <4> HIDE DEF Run
      <4> QED BY <1>12, <3>4, <3>5, Window
    <3>7. o.ev >= Medium
      BY <1>3, <1>4, <2>1, <2>3, <3>1, <3>6 DEF FlashEffect
    <3>8. SameRun(n, n)'
      <4>1. \A k \in n..(n - 1) : FALSE
        BY <1>1
      <4>2. \A k \in (n + 1)..(n - 1) : FALSE
        BY <1>1
      <4> QED BY <4>1, <4>2 DEF SameRun, Between
    <3> QED BY <1>1, <1>3, <1>12, <3>7, <3>8
  <2> QED BY <2>2, <2>3
<1>13. ForgedRunTold'
  BY <1>1, <1>12 DEF ForgedRunTold
<1> QED BY <1>9, <1>11, <1>13 DEF FlashCatchTold

-----------------------------------------------------------------------------
(* Silence.  The report is a parameter here, called r. *)

TimedIn(r, n) == {k \in 1..n : r[k].timestamp # None}

\* l is the next packet with a timestamp after k.
Follows(r, k, l) ==
  /\ r[k].timestamp # None /\ r[l].timestamp # None /\ k < l
  /\ \A m \in (k + 1)..(l - 1) : r[m].timestamp = None

\* From j to n the clock neither goes back nor jumps.
SteadyIn(r, j, n) ==
  \A k, l \in 1..n : j <= k /\ Follows(r, k, l) =>
    r[l].timestamp - r[k].timestamp \in 0..(NAS_TIMEOUT - 1)

NoNasFields == {"first_timestamp", "latest_timestamp", "finished"}

\* While the detector watches, `latest_timestamp` is the last timestamp and
\* `first_timestamp` the earliest since which the clock has been steady.
WatchInv(s, r, n) ==
  /\ TimedIn(r, n) = {} => s.first_timestamp = None /\ s.latest_timestamp = None
  /\ TimedIn(r, n) # {} =>
       /\ \E k \in TimedIn(r, n) :
            /\ s.latest_timestamp = r[k].timestamp
            /\ \A l \in (k + 1)..n : r[l].timestamp = None
       /\ \E j \in TimedIn(r, n) : SteadyIn(r, j, n) /\ s.first_timestamp = r[j].timestamp
       /\ \A j \in TimedIn(r, n) : SteadyIn(r, j, n) => s.first_timestamp <= r[j].timestamp

SilenceInv ==
  "no_nas_messages" \in recording.on =>
    LET s == analyzers["no_nas_messages"] IN
    /\ DOMAIN s = NoNasFields /\ s.finished \in BOOLEAN
    /\ s.finished <=> \E k \in 1..Len(report) :
                        Is(k, NasMessages) \/ Said(k, "no_nas_messages") # Silent
    /\ ~s.finished => WatchInv(s, report, Len(report))

LEMMA NasTimeout == NAS_TIMEOUT \in Nat /\ NAS_TIMEOUT >= 1
BY DetectorsAssumption

\* The least packet after k with a timestamp is the one that follows it.
LEMMA SteadyIs ==
  ASSUME NEW r, NEW n \in Nat, NEW j \in 1..n
  PROVE  ( \A k \in TimedIn(r, n) : k >= j /\ {l \in TimedIn(r, n) : l > k} # {} =>
             r[Min({l \in TimedIn(r, n) : l > k})].timestamp - r[k].timestamp
               \in 0..(NAS_TIMEOUT - 1) )
         <=> SteadyIn(r, j, n)
<1> DEFINE Next1(k) == Min({l \in TimedIn(r, n) : l > k})
<1>1. ASSUME NEW k \in TimedIn(r, n), {l \in TimedIn(r, n) : l > k} # {}
      PROVE  /\ Next1(k) \in 1..n /\ Follows(r, k, Next1(k))
             /\ \A l \in 1..n : Follows(r, k, l) => l = Next1(k)
  <2>1. PICK A : A = {l \in TimedIn(r, n) : l > k}
    OBVIOUS
  <2>2. A \subseteq Nat /\ A # {} /\ k \in 1..n /\ r[k].timestamp # None
    BY <1>1, <2>1 DEF TimedIn
  <2>3. PICK m : m = Min(A)
    OBVIOUS
  <2>4. m \in A /\ \A y \in A : m <= y
    BY <2>2, <2>3, MinIs
  <2>5. m \in 1..n /\ r[m].timestamp # None /\ k < m
    BY <2>1, <2>2, <2>4 DEF TimedIn
  <2>6. ASSUME NEW x \in (k + 1)..(m - 1) PROVE r[x].timestamp = None
    <3>1. x \in 1..n /\ x > k /\ ~(m <= x)
      BY <2>2, <2>5
    <3> QED BY <2>1, <2>4, <3>1 DEF TimedIn
  <2>7. Follows(r, k, m)
    BY <2>2, <2>5, <2>6 DEF Follows
  <2>8. ASSUME NEW l \in 1..n, Follows(r, k, l) PROVE l = m
    <3>1. l \in A
      BY <2>1, <2>2, <2>8 DEF Follows, TimedIn
    <3>2. m <= l
      BY <2>4, <3>1
    <3>3. ~(m \in (k + 1)..(l - 1))
      BY <2>5, <2>8 DEF Follows
    <3> QED BY <2>2, <2>5, <3>2, <3>3
  <2> QED BY <2>1, <2>3, <2>5, <2>7, <2>8
<1>2. ASSUME NEW k \in 1..n, NEW l \in 1..n, Follows(r, k, l)
      PROVE  k \in TimedIn(r, n) /\ {x \in TimedIn(r, n) : x > k} # {}
  <2>1. l \in TimedIn(r, n) /\ l > k /\ k \in TimedIn(r, n)
    BY <1>2 DEF Follows, TimedIn
  <2> QED BY <2>1
<1>3. \A k \in TimedIn(r, n) : k \in 1..n
  BY DEF TimedIn
<1>4. \A k \in 1..n : k >= j <=> j <= k
  OBVIOUS
<1> HIDE DEF Next1
<1>5. ( \A k \in TimedIn(r, n) : k >= j /\ {l \in TimedIn(r, n) : l > k} # {} =>
          r[Next1(k)].timestamp - r[k].timestamp \in 0..(NAS_TIMEOUT - 1) )
      <=> SteadyIn(r, j, n)
  <2>1. ASSUME \A k \in TimedIn(r, n) : k >= j /\ {l \in TimedIn(r, n) : l > k} # {} =>
                 r[Next1(k)].timestamp - r[k].timestamp \in 0..(NAS_TIMEOUT - 1),
               NEW k \in 1..n, NEW l \in 1..n, j <= k, Follows(r, k, l)
        PROVE  r[l].timestamp - r[k].timestamp \in 0..(NAS_TIMEOUT - 1)
    <3>1. k \in TimedIn(r, n) /\ {x \in TimedIn(r, n) : x > k} # {}
      BY <1>2, <2>1
    <3>2. l = Next1(k)
      BY <1>1, <2>1, <3>1
    <3> QED BY <1>4, <2>1, <3>1, <3>2
  <2>2. ASSUME SteadyIn(r, j, n), NEW k \in TimedIn(r, n), k >= j,
               {l \in TimedIn(r, n) : l > k} # {}
        PROVE  r[Next1(k)].timestamp - r[k].timestamp \in 0..(NAS_TIMEOUT - 1)
    BY <1>1, <1>3, <1>4, <2>2 DEF SteadyIn
  <2> QED BY <2>1, <2>2 DEF SteadyIn
<1> QED BY <1>5 DEF Next1

\* What the clock does, by whether the detector still watches; o is the answer.
NoNasEffect(s, nas, t, o) ==
  /\ DOMAIN o.st = NoNasFields /\ o.st.finished \in BOOLEAN
  /\ s.finished \/ nas => o.st.finished /\ o.ev = Silent
  /\ ~(s.finished \/ nas) =>
       LET first == IF Discontinuous(s, t) \/ s.first_timestamp = None THEN t ELSE s.first_timestamp
       IN /\ o.st.first_timestamp = first /\ o.st.latest_timestamp = t
          /\ o.st.finished <=> t - first >= NAS_TIMEOUT
          /\ o.ev = IF t - first >= NAS_TIMEOUT THEN Low ELSE Silent

LEMMA NoNasClockIs ==
  ASSUME NEW s, NEW t, NEW o, DOMAIN s = NoNasFields, s.finished \in BOOLEAN,
         o = NoNasClock(s, t)
  PROVE  NoNasEffect(s, FALSE, t, o)
<1> DEFINE first == IF Discontinuous(s, t) \/ s.first_timestamp = None
                    THEN t ELSE s.first_timestamp
           late == t - first >= NAS_TIMEOUT
<1>1. CASE s.finished
  <2>1. o.st = s /\ o.ev = Silent
    BY <1>1, OutIs DEF NoNasClock
  <2> QED BY <1>1, <2>1 DEF NoNasEffect
<1>2. CASE ~s.finished
  <2>1. /\ o.st = [first_timestamp |-> first, latest_timestamp |-> t, finished |-> late]
        /\ o.ev = IF late THEN Low ELSE Silent
    BY <1>2, OutIs DEF NoNasClock
  <2>2. /\ DOMAIN o.st = NoNasFields /\ o.st.first_timestamp = first
        /\ o.st.latest_timestamp = t /\ o.st.finished = late
    BY <2>1 DEF NoNasFields
  <2>3. late \in BOOLEAN
    OBVIOUS
  <2> QED BY <1>2, <2>1, <2>2, <2>3 DEF NoNasEffect
<1> QED BY <1>1, <1>2

LEMMA NoNasEffectIs ==
  ASSUME NEW s, NEW ie, NEW t, NEW o, DOMAIN s = NoNasFields, s.finished \in BOOLEAN,
         \/ o = NoNasMessages(s, ie, t)
         \/ o = NoNasClock(s, t) /\ ie.is = "nothing"
  PROVE  NoNasEffect(s, ie.is \in NasMessages, t, o)
<1>1. CASE o = NoNasClock(s, t) /\ ie.is = "nothing"
  <2>1. ~(ie.is \in NasMessages)
    BY <1>1 DEF NasMessages
  <2>2. NoNasEffect(s, FALSE, t, o)
    BY <1>1, NoNasClockIs
  <2> QED BY <2>1, <2>2 DEF NoNasEffect
<1>2. CASE o = NoNasMessages(s, ie, t)
  <2>1. PICK q : q = [s EXCEPT !.finished = @ \/ ie.is \in NasMessages]
    OBVIOUS
  <2>2. /\ DOMAIN q = NoNasFields /\ q.finished \in BOOLEAN
        /\ q.finished <=> s.finished \/ ie.is \in NasMessages
        /\ q.first_timestamp = s.first_timestamp /\ q.latest_timestamp = s.latest_timestamp
    BY <2>1 DEF NoNasFields
  <2>3. NoNasEffect(q, FALSE, t, o)
    BY <1>2, <2>1, <2>2, NoNasClockIs DEF NoNasMessages
  <2>4. Discontinuous(q, t) <=> Discontinuous(s, t)
    BY <2>2 DEF Discontinuous
  <2> QED BY <2>2, <2>3, <2>4 DEF NoNasEffect
<1> QED BY <1>1, <1>2

\* q is r with a row more, the n-th.
Grown(r, q, n) ==
  /\ n \in Nat /\ n >= 1
  /\ \A k \in 1..(n - 1) : q[k] = r[k]
  /\ \A k \in 1..n : q[k].timestamp \in Nat \union {None}

LEMMA FollowsGrows ==
  ASSUME NEW r, NEW q, NEW n, Grown(r, q, n)
  PROVE  /\ \A k, l \in 1..(n - 1) : Follows(q, k, l) <=> Follows(r, k, l)
         /\ \A l \in 1..n : ~Follows(q, n, l)
         /\ q[n].timestamp = None => \A k \in 1..n : ~Follows(q, k, n)
         /\ q[n].timestamp = None => TimedIn(q, n) = TimedIn(r, n - 1)
         /\ q[n].timestamp # None => TimedIn(q, n) = TimedIn(r, n - 1) \union {n}
<1>1. n \in Nat /\ n >= 1 /\ \A k \in 1..(n - 1) : q[k] = r[k]
  BY DEF Grown
<1>2. ASSUME NEW k \in 1..(n - 1), NEW l \in 1..(n - 1)
      PROVE  Follows(q, k, l) <=> Follows(r, k, l)
  <2>1. \A m \in (k + 1)..(l - 1) : m \in 1..(n - 1)
    BY <1>1
  <2> QED BY <1>1, <2>1 DEF Follows
<1>3. \A l \in 1..n : ~Follows(q, n, l)
  BY <1>1 DEF Follows
<1>4. q[n].timestamp = None => \A k \in 1..n : ~Follows(q, k, n)
  BY DEF Follows
<1>5. \A k : k \in 1..n <=> k \in 1..(n - 1) \/ k = n
  BY <1>1
<1>6. q[n].timestamp = None => TimedIn(q, n) = TimedIn(r, n - 1)
  BY <1>1, <1>5 DEF TimedIn
<1>7. q[n].timestamp # None => TimedIn(q, n) = TimedIn(r, n - 1) \union {n}
  BY <1>1, <1>5 DEF TimedIn
<1> QED BY <1>2, <1>3, <1>4, <1>6, <1>7

\* A row without a timestamp changes nothing.
LEMMA SteadyKept ==
  ASSUME NEW r, NEW q, NEW n, Grown(r, q, n), q[n].timestamp = None, NEW j \in 1..(n - 1)
  PROVE  SteadyIn(q, j, n) <=> SteadyIn(r, j, n - 1)
<1>1. n \in Nat /\ n >= 1 /\ \A k \in 1..(n - 1) : q[k] = r[k]
  BY DEF Grown
<1>2. \A k : k \in 1..n <=> k \in 1..(n - 1) \/ k = n
  BY <1>1
<1>3. \A k, l \in 1..n : Follows(q, k, l) => k \in 1..(n - 1) /\ l \in 1..(n - 1)
  BY <1>2, FollowsGrows
<1>4. \A k, l \in 1..(n - 1) : /\ Follows(q, k, l) <=> Follows(r, k, l)
                               /\ q[k] = r[k] /\ q[l] = r[l] /\ k \in 1..n /\ l \in 1..n
  BY <1>1, <1>2, FollowsGrows
<1> QED BY <1>3, <1>4 DEF SteadyIn

\* One with a timestamp follows the last one that had any.
LEMMA SteadyGrows ==
  ASSUME NEW r, NEW q, NEW n, Grown(r, q, n), NEW t, q[n].timestamp = t, t # None,
         NEW m \in TimedIn(r, n - 1), \A l \in (m + 1)..(n - 1) : r[l].timestamp = None,
         NEW j \in TimedIn(r, n - 1)
  PROVE  SteadyIn(q, j, n) <=>
           SteadyIn(r, j, n - 1) /\ t - r[m].timestamp \in 0..(NAS_TIMEOUT - 1)
<1>1. n \in Nat /\ n >= 1 /\ \A k \in 1..(n - 1) : q[k] = r[k]
  BY DEF Grown
<1>2. \A k : k \in 1..n <=> k \in 1..(n - 1) \/ k = n
  BY <1>1
<1>3. m \in 1..(n - 1) /\ j \in 1..(n - 1) /\ r[m].timestamp # None /\ r[j].timestamp # None
  BY DEF TimedIn
<1>4. j <= m
  <2>1. ~(j \in (m + 1)..(n - 1))
    BY <1>3
  <2> QED BY <1>1, <1>3, <2>1
<1>5. Follows(q, m, n)
  <2>1. \A l \in (m + 1)..(n - 1) : l \in 1..(n - 1)
    BY <1>1, <1>3
  <2>2. m < n
    BY <1>1, <1>3
  <2> QED BY <1>1, <1>3, <2>1, <2>2 DEF Follows
<1>6. ASSUME NEW k \in 1..n, Follows(q, k, n) PROVE k = m
  <2>1. k \in 1..(n - 1) /\ r[k].timestamp # None
    BY <1>1, <1>2, <1>6 DEF Follows
  <2>2. ~(k \in (m + 1)..(n - 1))
    BY <2>1
  <2>3. ~(m \in (k + 1)..(n - 1))
    BY <1>1, <1>3, <1>6 DEF Follows
  <2> QED BY <1>1, <1>3, <2>1, <2>2, <2>3
<1>7. \A k, l \in 1..n : Follows(q, k, l) => k \in 1..(n - 1)
  BY <1>2, FollowsGrows
<1>8. \A k, l \in 1..(n - 1) : /\ Follows(q, k, l) <=> Follows(r, k, l)
                               /\ q[k] = r[k] /\ q[l] = r[l] /\ k \in 1..n /\ l \in 1..n
  BY <1>1, <1>2, FollowsGrows
<1>9. q[m] = r[m] /\ m \in 1..n /\ n \in 1..n
  BY <1>1, <1>3
<1>10. ASSUME SteadyIn(q, j, n)
       PROVE  SteadyIn(r, j, n - 1) /\ t - r[m].timestamp \in 0..(NAS_TIMEOUT - 1)
  <2>1. SteadyIn(r, j, n - 1)
    BY <1>8, <1>10 DEF SteadyIn
  <2>2. q[n].timestamp - q[m].timestamp \in 0..(NAS_TIMEOUT - 1)
    BY <1>4, <1>5, <1>9, <1>10 DEF SteadyIn
  <2> QED BY <1>9, <2>1, <2>2
<1>11. ASSUME SteadyIn(r, j, n - 1), t - r[m].timestamp \in 0..(NAS_TIMEOUT - 1),
              NEW k \in 1..n, NEW l \in 1..n, j <= k, Follows(q, k, l)
       PROVE  q[l].timestamp - q[k].timestamp \in 0..(NAS_TIMEOUT - 1)
  <2>1. k \in 1..(n - 1)
    BY <1>7, <1>11
  <2>2. CASE l = n
    BY <1>6, <1>9, <1>11, <2>2
  <2>3. CASE l \in 1..(n - 1)
    BY <1>8, <1>11, <2>1, <2>3 DEF SteadyIn
  <2> QED BY <1>2, <2>2, <2>3
<1> QED BY <1>10, <1>11 DEF SteadyIn

\* Without a timestamp the detector goes on watching as it was.
LEMMA WatchKept ==
  ASSUME NEW r, NEW q, NEW n, Grown(r, q, n), q[n].timestamp = None,
         NEW s, WatchInv(s, r, n - 1)
  PROVE  WatchInv(s, q, n)
<1>1. n \in Nat /\ n >= 1 /\ \A k \in 1..(n - 1) : q[k] = r[k]
  BY DEF Grown
<1>2. TimedIn(q, n) = TimedIn(r, n - 1) /\ \A k \in TimedIn(r, n - 1) : k \in 1..(n - 1)
  BY FollowsGrows DEF TimedIn
<1>3. \A j \in 1..(n - 1) : SteadyIn(q, j, n) <=> SteadyIn(r, j, n - 1)
  BY SteadyKept
<1>4. \A k \in 1..(n - 1) : (\A l \in (k + 1)..(n - 1) : r[l].timestamp = None) =>
                              \A l \in (k + 1)..n : q[l].timestamp = None
  <2>1. \A k \in 1..(n - 1) : \A l \in (k + 1)..n :
          l = n \/ (l \in (k + 1)..(n - 1) /\ l \in 1..(n - 1))
    BY <1>1
  <2> QED BY <1>1, <2>1
<1> QED BY <1>1, <1>2, <1>3, <1>4 DEF WatchInv

\* A timestamp: the watch goes on, or starts again where the clock is not steady.
LEMMA WatchGrows ==
  ASSUME NEW r, NEW q, NEW n, Grown(r, q, n), NEW t \in Nat, q[n].timestamp = t,
         NEW s, WatchInv(s, r, n - 1), NEW u, u.latest_timestamp = t,
         Discontinuous(s, t) \/ s.first_timestamp = None => u.first_timestamp = t,
         ~(Discontinuous(s, t) \/ s.first_timestamp = None) =>
           u.first_timestamp = s.first_timestamp
  PROVE  WatchInv(u, q, n)
<1>1. /\ n \in Nat /\ n >= 1 /\ n \in 1..n /\ \A k \in 1..(n - 1) : q[k] = r[k]
      /\ t # None
  BY Levels DEF Grown
<1>2. TimedIn(q, n) = TimedIn(r, n - 1) \union {n}
  BY <1>1, FollowsGrows
<1>3. \A k \in TimedIn(r, n - 1) : /\ k \in 1..(n - 1) /\ r[k].timestamp \in Nat
                                   /\ q[k].timestamp = r[k].timestamp
  <2>1. \A k \in 1..(n - 1) : k \in 1..n
    BY <1>1
  <2> QED BY <2>1, <1>1 DEF Grown, TimedIn
<1>4. SteadyIn(q, n, n)
  BY <1>1 DEF SteadyIn, Follows
<1>5. \A l \in (n + 1)..n : q[l].timestamp = None
  BY <1>1
<1>6. CASE TimedIn(r, n - 1) = {}
  <2>1. u.first_timestamp = t /\ TimedIn(q, n) = {n}
    BY <1>2, <1>6 DEF WatchInv
  <2> QED BY <1>1, <1>4, <1>5, <2>1 DEF WatchInv
<1>7. CASE TimedIn(r, n - 1) # {}
  <2>1. PICK m \in TimedIn(r, n - 1) : /\ s.latest_timestamp = r[m].timestamp
                                       /\ \A l \in (m + 1)..(n - 1) : r[l].timestamp = None
    BY <1>7 DEF WatchInv
  <2>2. PICK b \in TimedIn(r, n - 1) : SteadyIn(r, b, n - 1) /\ s.first_timestamp = r[b].timestamp
    BY <1>7 DEF WatchInv
  <2>3. \A j \in TimedIn(r, n - 1) : SteadyIn(r, j, n - 1) => s.first_timestamp <= r[j].timestamp
    BY <1>7 DEF WatchInv
  <2>4. /\ m \in 1..(n - 1) /\ r[m].timestamp \in Nat /\ r[b].timestamp \in Nat
        /\ s.first_timestamp # None /\ s.latest_timestamp # None
    BY <1>3, <2>1, <2>2, Levels
  <2>5. \A j \in TimedIn(r, n - 1) :
          SteadyIn(q, j, n) <=>
            SteadyIn(r, j, n - 1) /\ t - r[m].timestamp \in 0..(NAS_TIMEOUT - 1)
    BY <1>1, <2>1, SteadyGrows
  <2>6. Discontinuous(s, t) <=> ~(t - r[m].timestamp \in 0..(NAS_TIMEOUT - 1))
    BY <2>1, <2>4, NasTimeout DEF Discontinuous
  <2>7. n \in TimedIn(q, n) /\ TimedIn(q, n) # {}
    BY <1>2
  <2>8. CASE Discontinuous(s, t)
    <3>1. u.first_timestamp = t
      BY <2>8
    <3>2. \A j \in TimedIn(q, n) : SteadyIn(q, j, n) => j = n
      BY <1>2, <2>5, <2>6, <2>8
    <3>3. \A j \in TimedIn(q, n) : SteadyIn(q, j, n) => u.first_timestamp <= q[j].timestamp
      BY <3>1, <3>2
    <3> QED BY <1>4, <1>5, <2>7, <3>1, <3>3 DEF WatchInv
  <2>9. CASE ~Discontinuous(s, t)
    <3>1. u.first_timestamp = s.first_timestamp
      BY <2>4, <2>9
    <3>2. SteadyIn(q, b, n) /\ b \in TimedIn(q, n) /\ u.first_timestamp = q[b].timestamp
      BY <1>2, <1>3, <2>2, <2>5, <2>6, <2>9, <3>1
    <3>3. s.first_timestamp <= t
      <4>1. SteadyIn(r, m, n - 1)
        <5>1. ASSUME NEW k \in 1..(n - 1), NEW l \in 1..(n - 1), m <= k PROVE ~Follows(r, k, l)
          <6> SUFFICES ASSUME Follows(r, k, l) PROVE FALSE
            OBVIOUS
          <6>1. l \in (m + 1)..(n - 1) /\ r[l].timestamp # None
            BY <1>1, <2>4, <5>1 DEF Follows
          <6> QED BY <2>1, <6>1
        <5> QED BY <5>1 DEF SteadyIn
      <4>2. s.first_timestamp <= r[m].timestamp
        BY <2>3, <4>1
      <4>3. t - r[m].timestamp >= 0
        BY <2>6, <2>9, NasTimeout
      <4> QED BY <2>2, <2>4, <4>2, <4>3
    <3>4. \A j \in TimedIn(q, n) : SteadyIn(q, j, n) => u.first_timestamp <= q[j].timestamp
      BY <1>2, <1>3, <2>3, <2>5, <3>1, <3>3
    <3> QED BY <1>5, <2>7, <3>2, <3>4 DEF WatchInv
  <2> QED BY <2>8, <2>9
<1> QED BY <1>6, <1>7

LEMMA SilenceStep ==
  ASSUME Typed, SilenceInv, NEW row, AddsRow(row)
  PROVE  SilenceInv' /\ SilenceIsReal'
<1>0. PICK n : n = Len(report) + 1
  OBVIOUS
<1>1. /\ n \in Nat /\ n >= 1 /\ Len(report) = n - 1 /\ Len(report') = n /\ recording' = recording
      /\ report' # <<>> /\ report'[n] = row
      /\ \A k \in 1..(n - 1) : report'[k] = report[k] /\ report[k] \in Rows
      /\ \A k \in 1..(n - 1) : Said(k, "no_nas_messages")' = Said(k, "no_nas_messages")
      /\ Said(n, "no_nas_messages")' = SaidIn(row, "no_nas_messages")
  BY <1>0, Growth
<1> SUFFICES ASSUME "no_nas_messages" \in recording.on
             PROVE  SilenceInv' /\ SilenceIsReal'
  BY <1>1 DEF SilenceInv, SilenceIsReal, On
<1>2. PICK s, u, o : /\ s = analyzers["no_nas_messages"] /\ u = analyzers'["no_nas_messages"]
                     /\ o = Answer("no_nas_messages", row)
  OBVIOUS
<1>3. PICK r, q : r = report /\ q = report'
  OBVIOUS
<1>4. u = o.st /\ Said(n, "no_nas_messages")' = o.ev
  BY <1>1, <1>2, AnswerIs
<1> DEFINE nas == row.ie.is \in NasMessages
           Heard == \E k \in 1..(n - 1) : Is(k, NasMessages) \/ Said(k, "no_nas_messages") # Silent
           HeardNow == \E k \in 1..n : Is(k, NasMessages)' \/ Said(k, "no_nas_messages")' # Silent
<1>5. /\ DOMAIN s = NoNasFields /\ s.finished \in BOOLEAN /\ (s.finished <=> Heard)
      /\ ~s.finished => WatchInv(s, r, n - 1)
  BY <1>1, <1>2, <1>3 DEF SilenceInv
<1>6. /\ \A k : k \in 1..n <=> k \in 1..(n - 1) \/ k = n
      /\ \A k \in 1..(n - 1) : Is(k, NasMessages)' <=> Is(k, NasMessages)
      /\ Is(n, NasMessages)' <=> nas
  BY <1>0, <1>1, BetweenGrows
<1>7. HeardNow <=> Heard \/ nas \/ o.ev # Silent
  BY <1>1, <1>4, <1>6
<1>8. Grown(r, q, n)
  <2>1. \A k \in 1..n : q[k] \in Rows
    BY <1>1, <1>3, <1>6 DEF AddsRow
  <2>2. \A x \in Rows : x.timestamp \in Nat \union {None}
    BY ElementsAssumption DEF Rows, Typed, TypeOK
  <2> QED BY <1>1, <1>3, <2>1, <2>2 DEF Grown
<1>9. q[n] = row /\ (row.ie = Garbled <=> row.timestamp = None)
  BY <1>1, <1>3 DEF AddsRow
<1> HIDE DEF Heard, HeardNow
<1>10. SilenceInv' <=> /\ DOMAIN u = NoNasFields /\ u.finished \in BOOLEAN
                       /\ u.finished <=> HeardNow
                       /\ ~u.finished => WatchInv(u, q, n)
  BY <1>1, <1>2, <1>3 DEF SilenceInv, HeardNow
<1>11. SilenceIsReal' <=>
         ( q[n].timestamp # None =>
             ( o.ev = Low
               <=> /\ \A k \in 1..n : ~Is(k, NasMessages)'
                   /\ \A k \in 1..(n - 1) : Said(k, "no_nas_messages")' = Silent
                   /\ \E j \in TimedIn(q, n) :
                        SteadyIn(q, j, n) /\ q[n].timestamp - q[j].timestamp >= NAS_TIMEOUT ) )
  <2> DEFINE After(k) == {l \in TimedIn(q, n) : l > k}
             Steady(j) == \A k \in TimedIn(q, n) : k >= j /\ After(k) # {} =>
                            q[Min(After(k))].timestamp - q[k].timestamp \in 0..(NAS_TIMEOUT - 1)
  <2>1. \A j \in TimedIn(q, n) : Steady(j) <=> SteadyIn(q, j, n)
    <3> SUFFICES ASSUME NEW j \in TimedIn(q, n) PROVE Steady(j) <=> SteadyIn(q, j, n)
      OBVIOUS
    <3>1. j \in 1..n
      BY DEF TimedIn
    <3> QED BY <1>1, <3>1, SteadyIs
  <2>2. n \in TimedIn(q, n) <=> q[n].timestamp # None
    BY <1>6 DEF TimedIn
  <2>3. SilenceIsReal' <=>
         ( n \in TimedIn(q, n) =>
             ( o.ev = Low
               <=> /\ \A k \in 1..n : ~Is(k, NasMessages)'
                   /\ \A k \in 1..(n - 1) : Said(k, "no_nas_messages")' = Silent
                   /\ \E j \in TimedIn(q, n) :
                        Steady(j) /\ q[n].timestamp - q[j].timestamp >= NAS_TIMEOUT ) )
    BY <1>1, <1>3, <1>4 DEF SilenceIsReal, On, TimedIn
  <2> HIDE DEF Steady
  <2> QED BY <2>1, <2>2, <2>3
<1>12. CASE row.ie = Garbled
  <2>1. u = s /\ o.ev = Silent /\ ~nas
    BY <1>2, <1>4, <1>12, OutIs DEF Answer, Garbled, NasMessages
  <2>2. ~s.finished => WatchInv(s, q, n)
    BY <1>5, <1>8, <1>9, <1>12, WatchKept
  <2> QED BY <1>5, <1>7, <1>9, <1>10, <1>11, <1>12, <2>1, <2>2
<1>13. CASE row.ie # Garbled
  <2>1. PICK t : t = row.timestamp
    OBVIOUS
  <2>2. t \in Nat /\ q[n].timestamp = t /\ t # None
    <3>1. q[n].timestamp \in Nat \union {None}
      BY <1>1, <1>8 DEF Grown
    <3> QED BY <1>9, <1>13, <2>1, <3>1
  <2>3. NoNasEffect(s, nas, t, o)
    <3>1. row.ie \in recording.ies \union {Nothing, Garbled}
      BY DEF AddsRow, Rows
    <3>2. CASE row.ie \in recording.ies
      <4>1. o = NoNasMessages(s, row.ie, t)
        BY <1>2, <2>1, <3>2, AnswerIs DEF Analyze
      <4> QED BY <1>5, <4>1, NoNasEffectIs
    <3>3. CASE row.ie = Nothing
      <4>1. o = NoNasClock(s, t) /\ row.ie.is = "nothing"
        BY <1>2, <1>13, <2>1, <3>3 DEF Answer, Skip, Nothing
      <4> QED BY <1>5, <4>1, NoNasEffectIs
    <3> QED BY <1>13, <3>1, <3>2, <3>3
  <2>4. (\A k \in 1..n : ~Is(k, NasMessages)') /\ (\A k \in 1..(n - 1) : Said(k, "no_nas_messages")' = Silent)
          <=> ~(s.finished \/ nas)
    BY <1>1, <1>5, <1>6 DEF Heard
  <2>5. CASE s.finished \/ nas
    <3>1. DOMAIN u = NoNasFields /\ u.finished \in BOOLEAN /\ u.finished /\ o.ev = Silent
      BY <1>4, <2>3, <2>5 DEF NoNasEffect
    <3>2. ~(o.ev = Low)
      BY <3>1, Levels
    <3> QED BY <1>5, <1>7, <1>10, <1>11, <2>4, <2>5, <3>1, <3>2
  <2>6. CASE ~(s.finished \/ nas)
    <3>1. PICK f : f = IF Discontinuous(s, t) \/ s.first_timestamp = None
                       THEN t ELSE s.first_timestamp
      OBVIOUS
    <3>2. /\ DOMAIN u = NoNasFields /\ u.finished \in BOOLEAN
          /\ u.first_timestamp = f /\ u.latest_timestamp = t
          /\ u.finished <=> t - f >= NAS_TIMEOUT
          /\ o.ev = IF t - f >= NAS_TIMEOUT THEN Low ELSE Silent
      BY <1>4, <2>3, <2>6, <3>1 DEF NoNasEffect
    <3>3. WatchInv(u, q, n)
      BY <1>5, <1>8, <2>2, <2>6, <3>1, <3>2, WatchGrows
    <3>4. /\ o.ev = Low <=> t - f >= NAS_TIMEOUT
          /\ o.ev # Silent <=> t - f >= NAS_TIMEOUT
      BY <3>2, Levels
    <3>5. SilenceInv'
      BY <1>5, <1>7, <1>10, <2>6, <3>2, <3>3, <3>4
    <3>6. (\E j \in TimedIn(q, n) : SteadyIn(q, j, n) /\ t - q[j].timestamp >= NAS_TIMEOUT)
            <=> t - f >= NAS_TIMEOUT
      <4>1. TimedIn(q, n) # {} /\ \A j \in TimedIn(q, n) : q[j].timestamp \in Nat
        BY <1>6, <1>8, <2>2 DEF TimedIn, Grown
      <4>2. PICK b \in TimedIn(q, n) : SteadyIn(q, b, n) /\ f = q[b].timestamp
        BY <3>2, <3>3, <4>1 DEF WatchInv
      <4>3. \A j \in TimedIn(q, n) : SteadyIn(q, j, n) => f <= q[j].timestamp
        BY <3>2, <3>3, <4>1 DEF WatchInv
      <4>4. ASSUME NEW j \in TimedIn(q, n), SteadyIn(q, j, n), t - q[j].timestamp >= NAS_TIMEOUT
            PROVE  t - f >= NAS_TIMEOUT
        <5>1. f \in Nat /\ q[j].timestamp \in Nat /\ f <= q[j].timestamp
          BY <4>1, <4>2, <4>3, <4>4
        <5> QED BY <2>2, <4>4, <5>1, NasTimeout
      <4> QED BY <4>2, <4>4
    <3>7. SilenceIsReal'
      BY <1>11, <2>2, <2>4, <2>6, <3>4, <3>6
    <3> QED BY <3>5, <3>7
  <2> QED BY <2>5, <2>6
<1> QED BY <1>12, <1>13

-----------------------------------------------------------------------------
(* The theorems. *)

\* What every analyzer that keeps a state knows of the report.
IInv ==
  /\ Typed
  /\ ImsiInv /\ FlashInv /\ RequestInv /\ TrackingInv
  /\ DowngradeInv /\ TimingInv /\ SilenceInv

\* What the newest row says, but for the notes of unanswered identity requests,
\* which follow from what the analyzer knows.
RowTold ==
  /\ DisconnectTold /\ FlashCatchTold /\ LocationWarnedOnce
  /\ DowngradeJudged /\ JumpIsOneCell /\ SilenceIsReal

LEMMA EmptyReport ==
  ASSUME Init
  PROVE  IInv /\ RowTold
<1>1. Typed /\ recording \in Recordings /\ report = <<>> /\ Len(report) = 0 /\ 1..0 = {}
  BY TypedInit DEF Init
<1>2. \A a \in recording.on : analyzers[a] = Start(a)
  BY DEF Init
<1>3. ImsiInv
  <2>1. ASSUME "imsi_requested" \in recording.on
        PROVE  /\ DOMAIN analyzers["imsi_requested"] = ImsiFields
               /\ analyzers["imsi_requested"].timeout_counter \in 0..(TIMEOUT_THRESHHOLD - 1)
    <3>1. analyzers["imsi_requested"] = ImsiStart
      BY <1>2, <2>1 DEF Start
    <3> QED BY <3>1, Threshold DEF ImsiStart, ImsiFields
  <2> QED BY <1>1, <2>1 DEF ImsiInv, ImsiStateInv, ImsiTowerInv, ImsiPhoneInv, ImsiCounterInv
<1>4. FlashInv
  <2>1. ASSUME "flash_catch" \in recording.on
        PROVE  FlashStateInv(analyzers["flash_catch"], 0)
    <3>1. PICK s : s = analyzers["flash_catch"]
      OBVIOUS
    <3>2. s = FlashStart
      BY <1>2, <2>1, <3>1 DEF Start
    <3>3. /\ DOMAIN s = FlashFields /\ s.reported = FALSE
          /\ s.forged_challenges = {} /\ s.synch_failures = {}
      BY <3>2 DEF FlashStart, FlashFields
    <3>4. FlashStateInv(s, 0)
      BY <1>1, <3>3 DEF FlashStateInv, Tracks
    <3> QED BY <3>1, <3>4
  <2> QED BY <1>1, <2>1 DEF FlashInv
<1>5. RequestInv
  <2>1. "lpp_location_request" \in recording.on => analyzers["lpp_location_request"] = {}
    BY <1>2 DEF Start
  <2> QED BY <1>1, <2>1 DEF RequestInv
<1>6. TrackingInv
  BY <1>1 DEF TrackingInv
<1>7. DowngradeInv
  <2>1. ASSUME "lte_sib6_and_7_downgrade" \in recording.on
        PROVE  /\ analyzers["lte_sib6_and_7_downgrade"].lte_priority = None
               /\ analyzers["lte_sib6_and_7_downgrade"].legacy_priority = None
    BY <1>2, <2>1 DEF Start, Sib67Start
  <2>2. LteSince(0) = {} /\ LegacySince(0) = {}
    BY <1>1 DEF LteSince, LegacySince, SinceSib1
  <2> QED BY <1>1, <2>1, <2>2 DEF DowngradeInv, Highest
<1>8. TimingInv
  <2>1. ASSUME "timing_advance" \in recording.on
        PROVE  /\ DOMAIN analyzers["timing_advance"] = {"current_cell", "cells", "any_non_zero"}
               /\ analyzers["timing_advance"].current_cell = None
               /\ DOMAIN analyzers["timing_advance"].cells = {}
    BY <1>2, <2>1 DEF Start, TimingStart
  <2>2. CampedAt(0) = None
    BY <1>1 DEF CampedAt
  <2> QED BY <1>1, <2>1, <2>2 DEF TimingInv
<1>9. SilenceInv
  <2>1. ASSUME "no_nas_messages" \in recording.on
        PROVE  /\ DOMAIN analyzers["no_nas_messages"] = NoNasFields
               /\ analyzers["no_nas_messages"].finished = FALSE
               /\ analyzers["no_nas_messages"].first_timestamp = None
               /\ analyzers["no_nas_messages"].latest_timestamp = None
    BY <1>2, <2>1 DEF Start, NoNasStart, NoNasFields
  <2>2. TimedIn(report, 0) = {}
    BY <1>1 DEF TimedIn
  <2> QED BY <1>1, <2>1, <2>2 DEF SilenceInv, WatchInv
<1>10. IInv
  BY <1>1, <1>3, <1>4, <1>5, <1>6, <1>7, <1>8, <1>9 DEF IInv
<1>11. \A a : ~On(a)
  BY <1>1 DEF On
<1>12. RowTold
  BY <1>11 DEF RowTold, DisconnectTold, FlashCatchTold, ForgedRunTold, OneAlarmPerRun,
               LocationWarnedOnce, DowngradeJudged, JumpIsOneCell, SilenceIsReal
<1> QED BY <1>10, <1>12

LEMMA RowStep ==
  ASSUME IInv, RowTold, [Next]_vars
  PROVE  IInv' /\ RowTold'
<1>0. Typed
  BY DEF IInv
<1>1. CASE UNCHANGED vars
  <2>1. /\ recording' = recording /\ packet_num' = packet_num
        /\ analyzers' = analyzers /\ report' = report
    BY <1>1 DEF vars
  <2>2. Typed'
    BY <1>0, <2>1 DEF Typed, TypeOK, Rows
  <2>3. ImsiInv' /\ DisconnectTold'
    <3>1. \A n : ImsiStateInv(analyzers["imsi_requested"], n)' <=> ImsiStateInv(analyzers["imsi_requested"], n)
      BY <2>1 DEF ImsiStateInv, Is, Between
    <3>2. \A n : ImsiTowerInv(analyzers["imsi_requested"], n)' <=> ImsiTowerInv(analyzers["imsi_requested"], n)
      BY <2>1 DEF ImsiTowerInv, Is, Between
    <3>3. \A n : ImsiPhoneInv(analyzers["imsi_requested"], n)' <=> ImsiPhoneInv(analyzers["imsi_requested"], n)
      BY <2>1 DEF ImsiPhoneInv, Is
    <3>4. \A n : ImsiCounterInv(analyzers["imsi_requested"], n)' <=> ImsiCounterInv(analyzers["imsi_requested"], n)
      BY <2>1 DEF ImsiCounterInv, CountedTo, Is, Said, Between
    <3>5. ImsiInv'
      BY <2>1, <3>1, <3>2, <3>3, <3>4 DEF IInv, ImsiInv
    <3>6. DisconnectTold'
      BY <2>1 DEF RowTold, DisconnectTold, OnHomeNetwork, On, Is, Said, Between
    <3> QED BY <3>5, <3>6
  <2>4. FlashInv' /\ FlashCatchTold'
    BY <2>1 DEF IInv, RowTold, FlashInv, FlashStateInv, Tracks, Caused, AlarmOf, Chained,
                FlashCatchTold, ForgedRunTold, OneAlarmPerRun, SameRun, Failure,
                On, Is, Said, Between
  <2>5. RequestInv' /\ TrackingInv' /\ LocationWarnedOnce'
    BY <2>1 DEF IInv, RowTold, RequestInv, TrackingInv, OpenAt, EndsIn, LocationWarnedOnce,
                SameTransaction, EndedSince, MovesLocation, On, Is, Said
  <2>6. DowngradeInv' /\ DowngradeJudged'
    <3>1. DowngradeInv'
      BY <2>1 DEF IInv, DowngradeInv, LteSince, LegacySince, SinceSib1, Is, Between
    <3>2. DowngradeJudged'
      <4>1. PICK i : i = Len(report)
        OBVIOUS
      <4> DEFINE Since == {j \in 1..(i - 1) : Is(j, {"SystemInformation"}) /\ ~Between({"SIB1"}, j, i)}
                 SinceNow == {j \in 1..(i - 1) : Is(j, {"SystemInformation"})' /\ ~Between({"SIB1"}, j, i)'}
                 Judged(S) ==
                   LET Lte == UNION {report[j].ie.lte : j \in S}
                       Legacy == UNION {report[j].ie.legacy : j \in S}
                   IN On("lte_sib6_and_7_downgrade") =>
                        ( Said(i, "lte_sib6_and_7_downgrade") = High
                          <=> Is(i, {"SIB1"}) /\ Lte # {} /\ \E p \in Legacy : \A q \in Lte : p > q )
      <4>2. SinceNow = Since
        BY <2>1 DEF Is, Between
      <4>3. DowngradeJudged <=> Judged(Since)
        BY <4>1 DEF DowngradeJudged
      <4>4. DowngradeJudged' <=> Judged(SinceNow)
        BY <2>1, <4>1 DEF DowngradeJudged, On, Said, Is
      <4> HIDE DEF Since, SinceNow, Judged
      <4> QED BY <4>2, <4>3, <4>4 DEF RowTold
    <3> QED BY <3>1, <3>2
  <2>7. TimingInv' /\ JumpIsOneCell'
    <3>1. \A j : CampedAt(j)' = CampedAt(j)
      BY <2>1 DEF CampedAt, Is
    <3>2. TimingInv'
      BY <2>1, <3>1 DEF IInv, TimingInv, Is
    <3>3. JumpIsOneCell'
      BY <2>1 DEF RowTold, JumpIsOneCell, On, Is, Said
    <3> QED BY <3>2, <3>3
  <2>8. SilenceInv' /\ SilenceIsReal'
    BY <2>1 DEF IInv, RowTold, SilenceInv, SilenceIsReal, On, Is, Said
  <2> QED BY <2>2, <2>3, <2>4, <2>5, <2>6, <2>7, <2>8 DEF IInv, RowTold
<1>2. ASSUME NEW row, AddsRow(row) PROVE IInv' /\ RowTold'
  <2>1. Typed'
    BY <1>0, <1>2, TypedStep
  <2>2. ImsiInv' /\ DisconnectTold'
    BY <1>2, ImsiStep DEF IInv
  <2>3. FlashInv' /\ FlashCatchTold'
    BY <1>2, FlashStep DEF IInv
  <2>4. RequestInv' /\ TrackingInv' /\ LocationWarnedOnce'
    BY <1>2, RequestStep, TrackingStep DEF IInv, LocationWarnedOnce
  <2>5. DowngradeInv' /\ DowngradeJudged'
    BY <1>2, DowngradeStep DEF IInv
  <2>6. TimingInv' /\ JumpIsOneCell'
    BY <1>2, TimingStep DEF IInv
  <2>7. SilenceInv' /\ SilenceIsReal'
    BY <1>2, SilenceStep DEF IInv
  <2> QED BY <2>1, <2>2, <2>3, <2>4, <2>5, <2>6, <2>7 DEF IInv, RowTold
<1> QED BY <1>0, <1>1, <1>2, StepAddsRow

LEMMA AlwaysTold == Spec => [](IInv /\ RowTold)
<1>1. Init => IInv /\ RowTold
  BY EmptyReport
<1>2. (IInv /\ RowTold) /\ [Next]_vars => (IInv /\ RowTold)'
  BY RowStep
<1> QED BY <1>1, <1>2, PTL DEF Spec

\* A tower that asks for the identity and lets the phone go is warned about, on
\* the home network with a high warning; an unanswered request is noted in time;
\* the report has a row for every packet (imsi_requested.rs, analyzer.rs).
THEOREM IdentityRequestsAlwaysTold == Spec => []IdentityRequestsTold
<1>1. IInv /\ RowTold => IdentityRequestsTold
  BY CounterNotes DEF IInv, RowTold, IdentityRequestsTold, Typed
<1> QED BY <1>1, AlwaysTold, PTL

\* A run of rejected challenges has its warning, and has it once
\* (flash_catch.rs `on_forged_challenge`, `on_synch_failure`, `prune`).
THEOREM FlashCatchAlwaysTold == Spec => []FlashCatchTold
<1>1. IInv /\ RowTold => FlashCatchTold
  BY DEF RowTold
<1> QED BY <1>1, AlwaysTold, PTL

\* A transaction that moves location information is warned about exactly once by
\* the request analyzer, and never twice by the tracking one (lpp.rs).
THEOREM LocationAlwaysWarnedOnce == Spec => []LocationWarnedOnce
<1>1. IInv /\ RowTold => LocationWarnedOnce
  BY DEF RowTold
<1> QED BY <1>1, AlwaysTold, PTL

\* A cell is judged by all its broadcasts since the last SIB1, however many
\* (priority_2g_downgrade.rs).
THEOREM DowngradeAlwaysJudged == Spec => []DowngradeJudged
<1>1. IInv /\ RowTold => DowngradeJudged
  BY DEF RowTold
<1> QED BY <1>1, AlwaysTold, PTL

\* A change of distance is only ever told of one cell heard from both distances,
\* though the detector forgets cells at its limit (timing_advance.rs `observe`).
THEOREM JumpIsAlwaysOneCell == Spec => []JumpIsOneCell
<1>1. IInv /\ RowTold => JumpIsOneCell
  BY DEF RowTold
<1> QED BY <1>1, AlwaysTold, PTL

\* The silence of the network is told when it has lasted NAS_TIMEOUT of steady
\* time, only then, and once (no_nas_messages.rs).
THEOREM SilenceIsAlwaysReal == Spec => []SilenceIsReal
<1>1. IInv /\ RowTold => SilenceIsReal
  BY DEF RowTold
<1> QED BY <1>1, AlwaysTold, PTL
==============================================================================
