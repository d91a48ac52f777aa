------------------------------ MODULE MCHarness ------------------------------
(***************************************************************************)
(* Recordings for model checking: one for each detector that keeps state,  *)
(* with the messages it tells apart, and one with all of them on.          *)
(***************************************************************************)
EXTENDS Harness

Other == [is |-> "other"]
SIB1(plmns, cell) == [is |-> "SIB1", plmns |-> plmns, cell |-> cell, scheduled |-> cell]
Attach(plmn) == [is |-> "AttachRequest", plmn |-> plmn]
Identity(imsi) == [is |-> "IdentityRequest", imsi |-> imsi]
Rejected(na) == [is |-> "AttachReject", not_allowed |-> na, exposes |-> TRUE]
Detached == [is |-> "Reject", exposes |-> FALSE]
Authenticated == [is |-> "AuthenticationResponse"]
Failed(cause) == [is |-> "AuthenticationFailure", cause |-> cause]
CheckIn == [is |-> "CheckIn"]
SecurityMode(null) == [is |-> "SecurityModeCommand", eea0 |-> null]
LppMessage(down, body, detail, txn, end) ==
  [is |-> "GenericTransport", lpp |-> TRUE, down |-> down, body |-> body, detail |-> detail,
   transaction |-> txn, end_transaction |-> end]
NotLpp == [is |-> "GenericTransport", lpp |-> FALSE]
Priorities(lte, legacy) == [is |-> "SystemInformation", lte |-> lte, legacy |-> legacy]
Rar(ta) == [is |-> "MacRar", timing_advance |-> ta]

Recording(on, ies, times, unread, packets) ==
  [on |-> on, ies |-> ies, times |-> times, unread |-> unread, packets |-> packets]

ImsiRecording ==
  Recording({"imsi_requested", "diagnostic_analyzer"},
            {Other, SIB1({1}, 1), SIB1({2}, 2), Attach(2), Identity(FALSE), Rejected(TRUE),
             Detached, Authenticated},
            {0}, FALSE, 6)

FlashRecording ==
  Recording({"flash_catch"},
            {Other, CheckIn, Identity(TRUE), Failed("forged"), Failed("synch"), Authenticated},
            {0}, FALSE, 7)

LppRecording ==
  Recording({"lpp_location_request", "lpp_location_tracking"},
            { LppMessage(TRUE, "RequestLocationInformation", "periodic", 1, FALSE),
              LppMessage(TRUE, "RequestLocationInformation", "once", 1, TRUE),
              LppMessage(TRUE, "RequestLocationInformation", "unreadable", 1, FALSE),
              LppMessage(FALSE, "ProvideLocationInformation", "position", 1, FALSE),
              LppMessage(FALSE, "ProvideLocationInformation", "declined", 1, TRUE),
              LppMessage(FALSE, "ProvideLocationInformation", "position", None, FALSE),
              LppMessage(FALSE, "RequestLocationInformation", "once", 2, FALSE),
              LppMessage(TRUE, "ProvideLocationInformation", "position", 2, TRUE),
              LppMessage(TRUE, "Abort", "Other", 1, FALSE),
              LppMessage(TRUE, "unreadable", "unreadable", None, FALSE),
              NotLpp },
            {0}, FALSE, 5)

SibRecording ==
  Recording({"lte_sib6_and_7_downgrade", "incomplete_sib", "test_analyzer"},
            {Other, SIB1({1}, 1), Priorities({2}, {}), Priorities({0}, {}), Priorities({1}, {2}),
             Priorities({}, {1, 3})},
            {0}, FALSE, 6)

TimingRecording ==
  Recording({"timing_advance"},
            {SIB1({1}, 1), SIB1({1}, 2), SIB1({1}, 3), Rar(0), Rar(1), Rar(3)},
            {0}, FALSE, 7)

NoNasRecording ==
  Recording({"no_nas_messages"}, {Authenticated}, 0..4, TRUE, 5)

\* Every analyzer at once, with a message for each of those that keep no state.
AllRecording ==
  Recording(Analyzers,
            {Other, SIB1({1}, 1), Identity(TRUE), Detached, SecurityMode(TRUE),
             SecurityMode(FALSE), NotLpp, Rar(3),
             [is |-> "RrcConnectionRequest"], [is |-> "AttachComplete"], [is |-> "Accept"],
             [is |-> "ExtServiceRequest"], Failed("other"), Attach(None), Rejected(FALSE),
             [is |-> "RrcConnectionRelease", redirect |-> "Geran"],
             [is |-> "RrcConnectionRelease", redirect |-> "other"],
             [is |-> "RrcConnectionRelease", redirect |-> "none"],
             [is |-> "DlDcchSecurity", eea0 |-> TRUE], [is |-> "DlDcchSecurity", eea0 |-> FALSE],
             [is |-> "GSM", component |-> "MeasurePositionRequest"],
             [is |-> "GSM", component |-> "AssistanceData"],
             [is |-> "GSM", component |-> "not RRLP"]},
            {0}, TRUE, 3)

AllRecordings ==
  {ImsiRecording, FlashRecording, LppRecording, SibRecording, TimingRecording,
   NoNasRecording, AllRecording}
==============================================================================
