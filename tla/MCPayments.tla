----------------------------- MODULE MCPayments -----------------------------
(* Small instances of Payments for TLC.                                    *)
EXTENDS Dashboard, TLC

AlwaysOpen == [round_the_clock |-> TRUE, schedule |-> [d \in Weekdays |-> NULL]]

OnlyAlwaysOpen == {AlwaysOpen}

Symmetry ==
    Permutations(Bookings) \cup Permutations(PaymentIds) \cup Permutations(Postamats)
=============================================================================
