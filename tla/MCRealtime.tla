----------------------------- MODULE MCRealtime -----------------------------
(* A small instance of Realtime for TLC.                                   *)
EXTENDS Realtime
=============================================================================
