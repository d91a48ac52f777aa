------------------------- MODULE MCAnalysisPipeline -------------------------
(***************************************************************************)
(* Instances of AnalysisPipeline for TLC.                                  *)
(***************************************************************************)
EXTENDS AnalysisPipeline

MCTwoNames == 1..2
MCOne == {1}
MCTwoClients == {"c1", "c2"}
MCOneClient == {"c1"}
=============================================================================
