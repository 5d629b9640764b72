------------------------------ MODULE Dashboard ------------------------------
(***************************************************************************)
(* The figures an operator acts on: app/modules/stats/service.py behind    *)
(* the routes of app/api/admin/stats.py.  They are queries over the tables *)
(* that Booking and Payments move, and are computed anew for every call.   *)
(*                                                                         *)
(* Every payment is of one amount, so that a sum is a count, and the       *)
(* window of a chart is all of the past.  Terminals, series by the day and *)
(* peak hours, which count bookings by their creation, are left out.       *)
(***************************************************************************)
EXTENDS Payments, FiniteSets

(* The tables have finitely many rows.                                     *)
ASSUME DashboardAssumption ==
    IsFiniteSet(Bookings) /\ IsFiniteSet(Cells) /\ IsFiniteSet(PaymentIds)

(* Mutant: a parcel waiting to be pulled is not counted.                   *)
OccupiedShort == {"awaiting_pickup", "expired", "grace", "overdue"}

BOOKED_STATUSES == {"pending_payment", "awaiting_deposit"}

OCCUPIED_STATUSES == {"awaiting_pickup", "expired", "grace", "overdue", "to_remove"}

InStatus(statuses) == {b \in Bookings : status[b] \in statuses}

overview ==
    [postamat_count    |-> Cardinality(Postamats),
     cell_count        |-> Cardinality(Cells),
     occupied_count    |-> Cardinality(InStatus(OCCUPIED_STATUSES)),
     booked_count      |-> Cardinality(InStatus(BOOKED_STATUSES)),
     blocked_count     |-> Cardinality(blocked),
     maintenance_count |-> Cardinality(maintenance)]

(* What is waiting on a person.                                            *)
attention_queue ==
    [overdue_bookings   |-> Cardinality(InStatus({"overdue"})),
     to_remove_bookings |-> Cardinality(InStatus({"to_remove"})),
     blocked_cells      |-> Cardinality(blocked)]

(* Mutant: only money that found its booking is counted.                   *)
RevenueOfPaid(scope) ==
    Cardinality({p \in PaymentIds : /\ payment[p] = "succeeded"
                                    /\ "paid_at" \in stamps[payee[p]]
                                    /\ scope = NULL \/ site[payee[p]] = scope})

(* Settled payments, of all postamats or of the one their bookings are at. *)
revenue(scope) ==
    Cardinality({p \in PaymentIds : /\ payment[p] = "succeeded"
                                    /\ scope = NULL \/ site[payee[p]] = scope})
-----------------------------------------------------------------------------
(* Properties.                                                             *)

(* A parcel is behind the door from the deposit to the collection or the   *)
(* act of removal.                                                         *)
Inside == {b \in Bookings : /\ Deposited(b)
                            /\ "collected_at" \notin stamps[b]
                            /\ custody[b] = NULL}

CellsOf(bs) == {cell[b] : b \in bs}

(* "The tiles count them apart": a tile that counts bookings counts cells, *)
(* `occupied` those with "a parcel behind the door" and `booked` the empty *)
(* ones, which together are what allocation may not give away.  Every      *)
(* cell that staff are asked to empty is one of the occupied.              *)
TilesAddUp ==
    LET tiles == overview
        queue == attention_queue
        inUse == tiles.booked_count + tiles.occupied_count
    IN  /\ tiles.occupied_count = Cardinality(CellsOf(Inside))
        /\ inUse = Cardinality({c \in Cells : ~IndexAdmits(c)})
        /\ inUse + tiles.maintenance_count <= tiles.cell_count
        /\ queue.overdue_bookings + queue.to_remove_bookings <= tiles.occupied_count

(* The chart agrees with the bank: it counts each charge this server was   *)
(* told of once, unless the customer had cancelled the session; and with   *)
(* the bookings: what it counts was credited to a booking or flagged for a *)
(* human.                                                                  *)
RevenueAddsUp ==
    /\ revenue(NULL) = Cardinality({p \in answered :
                            bank[p] = "charged" /\ payment[p] # "cancelled"})
    /\ revenue(NULL) = Cardinality({b \in Bookings : "paid_at" \in stamps[b]})
                           + Cardinality(attention)

(* What an operator reads off the dashboard is so, however payments,       *)
(* deposits, escalations, removals and work on the cells interleave.       *)
FiguresAreTrue == TilesAddUp /\ RevenueAddsUp
=============================================================================
