------------------------------ MODULE MCCodes ------------------------------
(* Small instances of Codes for TLC.                                       *)
EXTENDS Codes, TLC

Symmetry == Permutations(Requests)
=============================================================================
