----------------------------- MODULE MCBooking -----------------------------
(* Small instances of Booking for TLC.                                     *)
EXTENDS Booking

AlwaysOpen == [round_the_clock |-> TRUE, schedule |-> [d \in Weekdays |-> NULL]]

(* Open in the first part of every day.                                    *)
Mornings ==
    [round_the_clock |-> FALSE,
     schedule |-> [d \in Weekdays |-> [opens_at |-> 0, closes_at |-> 1]]]

NeverOpen == [round_the_clock |-> FALSE, schedule |-> [d \in Weekdays |-> NULL]]

AllHours == {AlwaysOpen, Mornings, NeverOpen}
=============================================================================
