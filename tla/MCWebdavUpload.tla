--------------------------- MODULE MCWebdavUpload ---------------------------
(***************************************************************************)
(* Instances of WebdavUpload for TLC.  Two of the four kinds of file: the  *)
(* worker treats all but the capture alike.                                *)
(***************************************************************************)
EXTENDS WebdavUpload

MCNames == 1..2
MCKinds == <<"qmdl", "analysis">>
MCMarks == {"uploaded"}
MCNothing == {}
=============================================================================
