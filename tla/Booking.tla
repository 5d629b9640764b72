------------------------------- MODULE Booking -------------------------------
(***************************************************************************)
(* The life of a booking and of the cell it holds: the service functions   *)
(* of app/modules/booking/service.py, the two workers that move bookings   *)
(* on a timer (app/workers), the custody acts (app/modules/custody) and    *)
(* the administrator's operations on cells (app/api/admin/cells.py).       *)
(*                                                                         *)
(* Every action is one committed transaction.  Nearly all of them read and *)
(* then write in one SQLite transaction, which commits only if no other    *)
(* writer has committed since its first read (core/db.py), so they are     *)
(* atomic; allocation takes the write lock first.                          *)
(*                                                                         *)
(* A column is a function from bookings or cells.  A nullable timestamp    *)
(* whose value is never compared is a member of stamps[b]; the others keep *)
(* their value, or NULL.  The kiosk that reports deposits and collections  *)
(* is not in the repository: Deposit and Collect are its calls to          *)
(* mark_deposited and mark_collected.                                      *)
(***************************************************************************)
EXTENDS Schedule

CONSTANTS
    Bookings,           \* booking ids
    Cells,              \* cells, named by their door number
    Postamats,
    Serviced,           \* bound: the cells administrators work on
    Hours,              \* schedules an operator may set
    Durations,          \* duration_hours on sale
    HoldLength,         \* hold_minutes
    HoldExtensionsMax,  \* hold_extensions_max
    ReminderBefore,     \* reminder_hours_before
    RemovalAfter,       \* removal_after_hours
    DisposalWait,       \* custody_disposal_days
    LastStart,          \* bound: no hold or storage starts after it
    Horizon             \* bound: the clock stops here, when nothing waits for it

BookingStatus ==
    {"pending_payment", "awaiting_deposit", "awaiting_pickup", "completed",
     "cancelled", "expired", "grace", "overdue", "to_remove", "removed",
     "closed", "payment_failed"}

CustodyStatus == {"at_counter", "handed_over", "returned_to_sender", "disposed"}

ASSUME BookingAssumption ==
    /\ Cells \subseteq Nat
    /\ Serviced \subseteq Cells
    /\ NULL \notin Bookings \cup Postamats
    /\ NULL \notin BookingStatus \cup CustodyStatus
    /\ Hours \subseteq PostamatHours
    /\ Durations \subseteq Nat \ {0}
    /\ HoldLength \in Nat \ {0}
    /\ HoldExtensionsMax \in Nat
    /\ ReminderBefore \in Nat
    /\ RemovalAfter \in Nat
    /\ DisposalWait \in Nat
    /\ LastStart \in Nat
    /\ Horizon \in Nat

VARIABLES
    now,            \* utcnow()
    status,         \* bookings.status, NULL before the row exists
    cell,           \* bookings.cell_id
    site,           \* bookings.postamat_id
    duration,       \* bookings.duration_hours
    holdUntil,      \* bookings.hold_expires_at
    extensions,     \* bookings.hold_extensions
    stamps,         \* which of paid_at, deposited_at, ... are set
    expires,        \* bookings.expires_at, set together with deposited_at
    removeAfter,    \* bookings.remove_after
    custody,        \* custody_records.status, NULL before an act is filed
    disposalDue,    \* custody_records.disposal_due_at
    cellSite,       \* cells.postamat_id
    blocked,        \* cells with is_blocked
    maintenance,    \* cells with is_maintenance
    hours           \* opening hours of each postamat

holdVars    == <<holdUntil, extensions>>
storageVars == <<expires, removeAfter>>
custodyVars == <<custody, disposalDue>>
rowVars     == <<cell, site, duration>>
cellVars    == <<cellSite, blocked, maintenance>>
bookingVars == <<status, rowVars, holdVars, stamps, storageVars, custodyVars>>
vars        == <<now, bookingVars, cellVars, hours>>

(* Mutant: the flag for removal already gives the cell back.               *)
HeldStatusesShort ==
    {"pending_payment", "awaiting_deposit", "awaiting_pickup", "expired",
     "grace", "overdue"}

CELL_HELD_STATUSES ==
    {"pending_payment", "awaiting_deposit", "awaiting_pickup", "expired",
     "grace", "overdue", "to_remove"}

FINISHED_STATUSES ==
    {"completed", "cancelled", "payment_failed", "removed", "closed"}

ALLOWED_TRANSITIONS == [s \in BookingStatus |->
    CASE s = "pending_payment"  -> {"awaiting_deposit", "cancelled", "payment_failed"}
      [] s = "awaiting_deposit" -> {"awaiting_pickup", "cancelled"}
      [] s = "awaiting_pickup"  -> {"completed", "expired"}
      [] s = "expired"          -> {"completed", "grace"}
      [] s = "grace"            -> {"completed", "overdue"}
      [] s = "overdue"          -> {"completed", "to_remove"}
      [] s = "to_remove"        -> {"completed", "removed"}
      [] s = "removed"          -> {"closed"}
      [] OTHER                  -> {}]

(* Mutant: a parcel at the counter may still be reported collected.        *)
TransitionOrCollected(current, target) ==
    \/ target \in ALLOWED_TRANSITIONS[current]
    \/ current = "removed" /\ target = "completed"

(* Mutant: the kiosk's report of a deposit overtakes the payment.          *)
TransitionOrDeposited(current, target) ==
    \/ target \in ALLOWED_TRANSITIONS[current]
    \/ current = "pending_payment" /\ target = "awaiting_pickup"

(* Mutant: any booking that still holds its cell may be cancelled.         *)
TransitionOrCancelled(current, target) ==
    \/ target \in ALLOWED_TRANSITIONS[current]
    \/ current \in CELL_HELD_STATUSES /\ target = "cancelled"

can_transition(current, target) == target \in ALLOWED_TRANSITIONS[current]

Stamp == {"paid_at", "deposited_at", "reminded_at", "collected_at"}

Held(b) == status[b] \in CELL_HELD_STATUSES

Deposited(b) == "deposited_at" \in stamps[b]

(* _move: the transition is refused, or the status changes.                *)
Move(b, target) ==
    /\ status[b] # NULL
    /\ can_transition(status[b], target)
    /\ status' = [status EXCEPT ![b] = target]

Init ==
    /\ now = 0
    /\ status = [b \in Bookings |-> NULL]
    /\ cell = [b \in Bookings |-> NULL]
    /\ site = [b \in Bookings |-> NULL]
    /\ duration = [b \in Bookings |-> NULL]
    /\ holdUntil = [b \in Bookings |-> NULL]
    /\ extensions = [b \in Bookings |-> 0]
    /\ stamps = [b \in Bookings |-> {}]
    /\ expires = [b \in Bookings |-> NULL]
    /\ removeAfter = [b \in Bookings |-> NULL]
    /\ custody = [b \in Bookings |-> NULL]
    /\ disposalDue = [b \in Bookings |-> NULL]
    /\ cellSite \in [Cells -> Postamats]
    /\ blocked = {}
    /\ maintenance = {}
    /\ hours \in [Postamats -> Hours]
-----------------------------------------------------------------------------
(* Allocation.                                                             *)

(* _held_cell_ids: looked up by the postamat of the bookings, which is not *)
(* always the postamat the cell belongs to now (see MoveCell).             *)
held_cell_ids(p) == {cell[b] : b \in {x \in Bookings : site[x] = p /\ Held(x)}}

(* Mutant: cells under maintenance are sold too.                           *)
FreeIgnoringMaintenance(p) ==
    {c \in Cells : /\ cellSite[c] = p
                   /\ c \notin blocked
                   /\ c \notin held_cell_ids(p)}

free_cell_ids(p) ==
    {c \in Cells : /\ cellSite[c] = p
                   /\ c \notin blocked
                   /\ c \notin maintenance
                   /\ c \notin held_cell_ids(p)}

(* Mutant: no unique index.                                                *)
NoIndex(c) == c \in Cells

(* uq_active_booking_per_cell refuses a second live booking of a cell.     *)
IndexAdmits(c) == \A b \in Bookings : Held(b) => cell[b] # c

create_booking(b, p, d) ==
    /\ now <= LastStart
    /\ status[b] = NULL
    /\ \E c \in free_cell_ids(p) :
          /\ \A other \in free_cell_ids(p) : c <= other
          /\ IndexAdmits(c)
          /\ cell' = [cell EXCEPT ![b] = c]
    /\ status' = [status EXCEPT ![b] = "pending_payment"]
    /\ site' = [site EXCEPT ![b] = p]
    /\ duration' = [duration EXCEPT ![b] = d]
    /\ holdUntil' = [holdUntil EXCEPT ![b] = now + HoldLength]
    /\ UNCHANGED <<now, extensions, stamps, storageVars, custodyVars, cellVars, hours>>
-----------------------------------------------------------------------------
(* Payment and cancellation.                                               *)

HoldRunning(b) == holdUntil[b] # NULL /\ holdUntil[b] > now

(* Mutant: one extension too many.                                         *)
OneExtensionMore(b) == extensions[b] <= HoldExtensionsMax

ExtensionsLeft(b) == extensions[b] < HoldExtensionsMax

extend_hold(b) ==
    /\ status[b] = "pending_payment"
    /\ HoldRunning(b)
    /\ ExtensionsLeft(b)
    /\ extensions' = [extensions EXCEPT ![b] = @ + 1]
    /\ holdUntil' = [holdUntil EXCEPT ![b] = @ + HoldLength]
    /\ UNCHANGED <<now, status, rowVars, stamps, storageVars, custodyVars, cellVars, hours>>

(* settle on a successful callback for a booking that still waits for it.  *)
mark_paid(b) ==
    /\ status[b] = "pending_payment"
    /\ Move(b, "awaiting_deposit")
    /\ stamps' = [stamps EXCEPT ![b] = @ \cup {"paid_at"}]
    /\ holdUntil' = [holdUntil EXCEPT ![b] = NULL]
    /\ UNCHANGED <<now, rowVars, extensions, storageVars, custodyVars, cellVars, hours>>

(* settle on a refusal by the bank.                                        *)
payment_failed(b) ==
    /\ status[b] = "pending_payment"
    /\ Move(b, "payment_failed")
    /\ UNCHANGED <<now, rowVars, holdVars, stamps, storageVars, custodyVars, cellVars, hours>>

CANCELLABLE == {"pending_payment", "awaiting_deposit"}

cancel(b) ==
    /\ Move(b, "cancelled")
    /\ UNCHANGED <<now, rowVars, holdVars, stamps, storageVars, custodyVars, cellVars, hours>>

ClientCancel(b) == status[b] \in CANCELLABLE /\ cancel(b)

AdminCancel(b) == cancel(b)

(* Mutant: only holds without a deadline are swept.                        *)
StaleNever == {b \in Bookings : status[b] = "pending_payment" /\ holdUntil[b] = NULL}

(* Mutant: a hold that was lifted by its payment counts as run out.        *)
StaleLifted == {b \in Bookings : /\ status[b] \in CANCELLABLE
                                 /\ holdUntil[b] = NULL \/ holdUntil[b] <= now}

Stale == {b \in Bookings : /\ status[b] = "pending_payment"
                           /\ holdUntil[b] # NULL
                           /\ holdUntil[b] <= now}

release_expired_holds ==
    /\ Stale # {}
    /\ \A b \in Stale : can_transition(status[b], "cancelled")
    /\ status' = [b \in Bookings |-> IF b \in Stale THEN "cancelled" ELSE status[b]]
    /\ UNCHANGED <<now, rowVars, holdVars, stamps, storageVars, custodyVars, cellVars, hours>>
-----------------------------------------------------------------------------
(* The parcel.                                                             *)

mark_deposited(b) ==
    /\ now <= LastStart
    /\ Move(b, "awaiting_pickup")
    /\ stamps' = [stamps EXCEPT ![b] = @ \cup {"deposited_at"}]
    /\ expires' = [expires EXCEPT ![b] =
                      storage_expiry(hours[site[b]], now, duration[b])]
    /\ UNCHANGED <<now, rowVars, holdVars, removeAfter, custodyVars, cellVars, hours>>

mark_collected(b) ==
    /\ Move(b, "completed")
    /\ stamps' = [stamps EXCEPT ![b] = @ \cup {"collected_at"}]
    /\ UNCHANGED <<now, rowVars, holdVars, storageVars, custodyVars, cellVars, hours>>

WATCHED == {"awaiting_pickup", "expired", "grace", "overdue"}

Watched(b) == status[b] \in WATCHED /\ expires[b] # NULL

ExpiryDue(b) == status[b] = "awaiting_pickup" /\ now >= expires[b]

GraceDue(b) == status[b] = "expired" /\ now >= grace_ends(hours[site[b]], expires[b])

(* Mutant: the second grace period is not waited for.                      *)
OverdueAfterGrace(b) ==
    status[b] = "grace" /\ now >= grace_ends(hours[site[b]], expires[b])

OverdueDue(b) == status[b] = "grace" /\ now >= overdue_at(hours[site[b]], expires[b])

RemovalDue(b) ==
    /\ status[b] = "overdue"
    /\ removeAfter[b] # NULL
    /\ now >= removeAfter[b]

(* Mutant: an overdue parcel stays overdue.                                *)
NextStageStuck(b) ==
    IF ~Watched(b) THEN status[b]
    ELSE CASE ExpiryDue(b)  -> "expired"
           [] GraceDue(b)   -> "grace"
           [] OverdueDue(b) -> "overdue"
           [] OTHER         -> status[b]

(* One tick of the overdue worker moves every due parcel one stage on.     *)
NextStage(b) ==
    IF ~Watched(b) THEN status[b]
    ELSE CASE ExpiryDue(b)  -> "expired"
           [] GraceDue(b)   -> "grace"
           [] OverdueDue(b) -> "overdue"
           [] RemovalDue(b) -> "to_remove"
           [] OTHER         -> status[b]

ReminderDue(b) ==
    /\ Watched(b)
    /\ status[b] = "awaiting_pickup"
    /\ now < expires[b]
    /\ now >= expires[b] - ReminderBefore
    /\ "reminded_at" \notin stamps[b]

run_escalation ==
    /\ \E b \in Bookings : NextStage(b) # status[b] \/ ReminderDue(b)
    /\ \A b \in Bookings :
          NextStage(b) # status[b] => can_transition(status[b], NextStage(b))
    /\ status' = [b \in Bookings |-> NextStage(b)]
    /\ stamps' = [b \in Bookings |->
          IF ReminderDue(b) THEN stamps[b] \cup {"reminded_at"} ELSE stamps[b]]
    /\ removeAfter' = [b \in Bookings |->
          IF NextStage(b) = "overdue" /\ status[b] # "overdue" THEN now + RemovalAfter ELSE removeAfter[b]]
    /\ UNCHANGED <<now, rowVars, holdVars, expires, custodyVars, cellVars, hours>>
-----------------------------------------------------------------------------
(* Custody: the act of removal and what becomes of the parcel.             *)

REMOVABLE == {"to_remove"}

file_removal(b) ==
    /\ status[b] \in REMOVABLE
    /\ custody[b] = NULL
    /\ Move(b, "removed")
    /\ custody' = [custody EXCEPT ![b] = "at_counter"]
    /\ disposalDue' = [disposalDue EXCEPT ![b] = now + DisposalWait]
    /\ UNCHANGED <<now, rowVars, holdVars, stamps, storageVars, cellVars, hours>>

hand_over(b) ==
    /\ custody[b] = "at_counter"
    /\ Move(b, "closed")
    /\ custody' = [custody EXCEPT ![b] = "handed_over"]
    /\ UNCHANGED <<now, rowVars, holdVars, stamps, storageVars, disposalDue, cellVars, hours>>

DisposalAllowed(b) == disposalDue[b] # NULL => now >= disposalDue[b]

dispose(b, outcome) ==
    /\ custody[b] = "at_counter"
    /\ DisposalAllowed(b)
    /\ Move(b, "closed")
    /\ custody' = [custody EXCEPT ![b] = outcome]
    /\ UNCHANGED <<now, rowVars, holdVars, stamps, storageVars, disposalDue, cellVars, hours>>
-----------------------------------------------------------------------------
(* The administrator's operations.                                         *)

block_cell(c) ==
    /\ blocked' = blocked \cup {c}
    /\ UNCHANGED <<now, bookingVars, cellSite, maintenance, hours>>

unblock_cell(c) ==
    /\ blocked' = blocked \ {c}
    /\ UNCHANGED <<now, bookingVars, cellSite, maintenance, hours>>

(* _live_booking: by cell, and by what is not finished.                    *)
LiveBooking(c) ==
    \E b \in Bookings : /\ cell[b] = c
                        /\ status[b] # NULL
                        /\ status[b] \notin FINISHED_STATUSES

StartMaintenance(c) ==
    /\ ~LiveBooking(c)
    /\ maintenance' = maintenance \cup {c}
    /\ UNCHANGED <<now, bookingVars, cellSite, blocked, hours>>

EndMaintenance(c) ==
    /\ maintenance' = maintenance \ {c}
    /\ UNCHANGED <<now, bookingVars, cellSite, blocked, hours>>

(* update_cell with another postamat: nothing looks at the cell's booking. *)
MoveCell(c, p) ==
    /\ cellSite' = [cellSite EXCEPT ![c] = p]
    /\ UNCHANGED <<now, bookingVars, blocked, maintenance, hours>>

set_schedule(p, h) ==
    /\ hours' = [hours EXCEPT ![p] = h]
    /\ UNCHANGED <<now, bookingVars, cellVars>>

(* The instants something of a booking's may still be waiting for; a       *)
(* deadline pushed to an opening moves by less than a week and a day.      *)
Awaited(b) ==
    ({holdUntil[b], removeAfter[b], disposalDue[b]} \ {NULL})
        \cup {t + 2 * GraceLength + (WeekDays + 1) * DayLength : t \in {expires[b]} \ {NULL}}

Tick ==
    /\ now < Horizon \/ \E b \in Bookings : \E t \in Awaited(b) : now < t
    /\ now' = now + 1
    /\ UNCHANGED <<bookingVars, cellVars, hours>>
-----------------------------------------------------------------------------
(* What staff do with a parcel nobody collected.                           *)
CustodyStep(b) ==
    \/ file_removal(b)
    \/ hand_over(b)
    \/ \E outcome \in {"returned_to_sender", "disposed"} : dispose(b, outcome)

(* What a booking does of its own accord, and what a bank's answer does.   *)
OwnStep(b) ==
    \/ \E p \in Postamats, d \in Durations : create_booking(b, p, d)
    \/ extend_hold(b)
    \/ ClientCancel(b)
    \/ AdminCancel(b)
    \/ mark_deposited(b)
    \/ mark_collected(b)
    \/ CustodyStep(b)

BookingStep(b) == OwnStep(b) \/ mark_paid(b) \/ payment_failed(b)

Workers == release_expired_holds \/ run_escalation

AdminStep ==
    \/ \E c \in Serviced : \/ block_cell(c)
                           \/ unblock_cell(c)
                           \/ StartMaintenance(c)
                           \/ EndMaintenance(c)
                           \/ \E p \in Postamats : MoveCell(c, p)
    \/ \E p \in Postamats, h \in Hours : set_schedule(p, h)

Next == (\E b \in Bookings : BookingStep(b)) \/ Workers \/ AdminStep \/ Tick

Spec == Init /\ [][Next]_vars

(* The clock runs, and the loop of main.py ticks both workers for ever.    *)
(* Customers, staff, banks and the kiosk need not act.                     *)
FairSpec ==
    /\ Spec
    /\ WF_vars(Tick)
    /\ WF_vars(release_expired_holds)
    /\ WF_vars(run_escalation)
-----------------------------------------------------------------------------
(* Properties.                                                             *)

TypeOK ==
    /\ now \in Nat
    /\ status \in [Bookings -> BookingStatus \cup {NULL}]
    /\ cell \in [Bookings -> Cells \cup {NULL}]
    /\ site \in [Bookings -> Postamats \cup {NULL}]
    /\ duration \in [Bookings -> Durations \cup {NULL}]
    /\ holdUntil \in [Bookings -> Nat \cup {NULL}]
    /\ extensions \in [Bookings -> 0 .. HoldExtensionsMax]
    /\ stamps \in [Bookings -> SUBSET Stamp]
    /\ expires \in [Bookings -> Nat \cup {NULL}]
    /\ removeAfter \in [Bookings -> Nat \cup {NULL}]
    /\ custody \in [Bookings -> CustodyStatus \cup {NULL}]
    /\ disposalDue \in [Bookings -> Nat \cup {NULL}]
    /\ cellSite \in [Cells -> Postamats]
    /\ blocked \subseteq Cells
    /\ maintenance \subseteq Cells
    /\ hours \in [Postamats -> Hours]

(* No two bookings hold one cell, whatever the administrator moves between *)
(* postamats: the promise of create_booking and uq_active_booking_per_cell.*)
CellExclusive ==
    \A b1, b2 \in Bookings :
        Held(b1) /\ Held(b2) /\ cell[b1] = cell[b2] => b1 = b2

(* A parcel is in its cell from the deposit until it is collected or an    *)
(* act says that staff took it out.                                        *)
ParcelInside(b) ==
    Deposited(b) /\ "collected_at" \notin stamps[b] /\ custody[b] = NULL

(* No parcel is lost: while it is inside, its booking is in a stage from   *)
(* which it can still be collected, and so holds the cell.                 *)
ParcelTraceable ==
    \A b \in Bookings : ParcelInside(b) =>
        status[b] \in {"awaiting_pickup", "expired", "grace", "overdue", "to_remove"}

(* The act and the booking tell one story: a parcel is at the counter      *)
(* exactly while its booking is removed, and the case is closed in both or *)
(* in neither.                                                             *)
CustodyMatchesBooking ==
    \A b \in Bookings :
        /\ custody[b] = "at_counter" <=> status[b] = "removed"
        /\ custody[b] \in CustodyStatus \ {"at_counter"} <=> status[b] = "closed"

(* Planned work never happens on a cell that somebody holds.               *)
MaintenanceIsEmpty ==
    \A b \in Bookings : Held(b) => cell[b] \notin maintenance

(* Nobody's parcel is taken out, or disposed of, before the whole of its   *)
(* storage, both grace periods and the waits that follow have passed, also *)
(* when the schedule or the due dates shift underneath.                    *)
FullWait ==
    \A b \in Bookings :
        /\ status[b] \in {"to_remove", "removed", "closed"} =>
              now >= expires[b] + 2 * GraceLength + RemovalAfter
        /\ custody[b] \in {"returned_to_sender", "disposed"} =>
              now >= expires[b] + 2 * GraceLength + RemovalAfter + DisposalWait

(* A parcel is paid for before it is deposited, and what is collected was  *)
(* deposited: the timeline the client sees never has a gap.                *)
StepsInOrder ==
    \A b \in Bookings :
        /\ Deposited(b) => "paid_at" \in stamps[b] /\ expires[b] # NULL
        /\ status[b] = "completed" => Deposited(b) /\ "collected_at" \in stamps[b]
        /\ "collected_at" \in stamps[b] => status[b] = "completed"

(* The booking a cell is leased to, and the cells with a parcel inside.    *)
Holder(c) ==
    IF \E b \in Bookings : Held(b) /\ cell[b] = c
    THEN CHOOSE b \in Bookings : Held(b) /\ cell[b] = c
    ELSE NULL

Holders == [c \in Cells |-> Holder(c)]

FullCells == {c \in Cells : \E b \in Bookings : ParcelInside(b) /\ cell[b] = c}

Lease == INSTANCE CellLease WITH holder <- Holders, full <- FullCells

(* Behind all stages, timers and administrators' actions a booking is a    *)
(* lease of one cell that ends only with the cell empty: freeing a cell    *)
(* "would hand someone else a door with a stranger's parcel behind it".    *)
LeaseSpec == Lease!Spec

(* An unpaid booking does not keep its cell: it is paid, refused or        *)
(* released, at the latest when the last extension has run out.            *)
HoldEnds ==
    \A b \in Bookings :
        status[b] = "pending_payment" ~> status[b] # "pending_payment"

(* A parcel nobody collects reaches the queue staff remove parcels from.   *)
ParcelEscalates ==
    \A b \in Bookings :
        status[b] = "awaiting_pickup" ~>
            status[b] \in {"completed", "to_remove", "removed", "closed"}
=============================================================================
