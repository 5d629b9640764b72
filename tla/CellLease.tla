------------------------------ MODULE CellLease ------------------------------
(***************************************************************************)
(* What the booking system promises about the doors of a postamat: a cell  *)
(* is leased to one booking at a time; while a parcel is inside, the lease *)
(* ends only by the parcel being taken out.  Stages, payments, deadlines   *)
(* and the administrator's flags do not show at this level.                *)
(***************************************************************************)
CONSTANTS Bookings, Cells, NULL

VARIABLES
    holder,         \* the booking a cell is leased to, or NULL
    full            \* the cells with a parcel inside

vars == <<holder, full>>

TypeOK ==
    /\ holder \in [Cells -> Bookings \cup {NULL}]
    /\ full \subseteq {c \in Cells : holder[c] # NULL}

Init ==
    /\ holder = [c \in Cells |-> NULL]
    /\ full = {}

(* A booking without a cell leases a free one.                             *)
Lease(b, c) ==
    /\ holder[c] = NULL
    /\ \A other \in Cells : holder[other] # b
    /\ holder' = [holder EXCEPT ![c] = b]
    /\ UNCHANGED full

PutIn(c) ==
    /\ holder[c] # NULL
    /\ c \notin full
    /\ full' = full \cup {c}
    /\ UNCHANGED holder

(* The recipient or the staff take the parcel out, which ends the lease.   *)
TakeOut(c) ==
    /\ c \in full
    /\ full' = full \ {c}
    /\ holder' = [holder EXCEPT ![c] = NULL]

(* Leases of empty cells may end at any time, several of them at once.     *)
GiveUp(S) ==
    /\ S # {}
    /\ S \cap full = {}
    /\ \A c \in S : holder[c] # NULL
    /\ holder' = [c \in Cells |-> IF c \in S THEN NULL ELSE holder[c]]
    /\ UNCHANGED full

Next ==
    \/ \E c \in Cells : (\E b \in Bookings : Lease(b, c)) \/ PutIn(c) \/ TakeOut(c)
    \/ \E S \in SUBSET Cells : GiveUp(S)

Spec == Init /\ [][Next]_vars
=============================================================================
