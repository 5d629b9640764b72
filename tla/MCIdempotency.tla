---------------------------- MODULE MCIdempotency ----------------------------
(* A small instance of Idempotency for TLC.                                *)
EXTENDS Idempotency, TLC

Symmetry == Permutations(Requests) \cup Permutations(Bodies)
=============================================================================
