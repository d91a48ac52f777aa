----------------------------- MODULE MCDiagTask -----------------------------
(***************************************************************************)
(* Instances of DiagTask for TLC.  The two directories are alike.          *)
(***************************************************************************)
EXTENDS DiagTask, TLC

MCTwoNames == 1..2
MCReasons == {"automatic"}
MCUploadMarks == {"uploaded", "labelled"}
PathSymmetry == Permutations(Paths)
=============================================================================
