-------------------------- MODULE MCRecordingStore --------------------------
(***************************************************************************)
(* Instances of RecordingStore for TLC.                                    *)
(***************************************************************************)
EXTENDS RecordingStore

MCTwoNames == 1..2
MCMarks == {"uploaded"}
MCNothing == {}
=============================================================================
