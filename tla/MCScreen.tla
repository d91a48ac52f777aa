------------------------------ MODULE MCScreen ------------------------------
(* Browsers are interchangeable.                                           *)
EXTENDS Screen, TLC

Symmetry == Permutations(Browsers)
=============================================================================
