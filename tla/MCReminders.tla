----------------------------- MODULE MCReminders -----------------------------
(* A small instance of Reminders for TLC.                                  *)
EXTENDS Reminders, TLC

CONSTANTS b1, b2, c1, c2

OwnerOf == b1 :> c1 @@ b2 :> c2

Symmetry == Permutations(Devices)
=============================================================================
