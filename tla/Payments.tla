------------------------------ MODULE Payments ------------------------------
(***************************************************************************)
(* Payments for bookings: app/modules/payments/service.py with the routes  *)
(* of app/api/mobile/payments.py and the acquirer's callback of            *)
(* app/api/webhooks/payments.py, composed with the bookings they settle.   *)
(*                                                                         *)
(* The bank is not in the repository: a session it opened ends with the    *)
(* customer charged or refused, and its callback comes late, repeatedly,   *)
(* or never.  It is not told when the customer gives a session up here.  A *)
(* callback with a bad signature, an unknown id or a wrong amount is       *)
(* refused before anything changes and is left out.                        *)
(***************************************************************************)
EXTENDS Booking

CONSTANTS PaymentIds        \* rows of the payments table

PaymentStatus ==
    {"pending", "authorized", "succeeded", "failed", "cancelled", "expired"}

Outcome == {"charged", "refused"}

ASSUME PaymentsAssumption == NULL \notin PaymentStatus \cup Outcome \cup {"open"}

VARIABLES
    payment,        \* payments.status, NULL before the row exists
    payee,          \* payments.booking_id
    attention,      \* payments with an entry payment.needs_attention
    bank,           \* the bank's side of the session
    answered,       \* callbacks this server has answered with 200
    byHand          \* bookings cancelled by a person: the actor of the event

paymentVars == <<payment, payee, attention, bank, answered>>

PaymentsInit ==
    /\ Init
    /\ payment = [p \in PaymentIds |-> NULL]
    /\ payee = [p \in PaymentIds |-> NULL]
    /\ attention = {}
    /\ bank = [p \in PaymentIds |-> NULL]
    /\ answered = {}
    /\ byHand = {}

LIVE_STATUSES == {"pending", "authorized"}

Live(p) == payment[p] \in LIVE_STATUSES

(* Mutant: only a session the bank has authorized is in the way.           *)
OpenAuthorizedOnly(b) == \E p \in PaymentIds : payee[p] = b /\ payment[p] = "authorized"

OpenPayment(b) == \E p \in PaymentIds : payee[p] = b /\ Live(p)

HoldOver(b) == holdUntil[b] # NULL /\ holdUntil[b] <= now

(* Mutant: opening a session lifts the hold before anything is paid.       *)
StartLiftingHold(b, p) ==
    /\ payment[p] = NULL
    /\ status[b] = "pending_payment"
    /\ ~HoldOver(b)
    /\ ~OpenPayment(b)
    /\ payment' = [payment EXCEPT ![p] = "pending"]
    /\ payee' = [payee EXCEPT ![p] = b]
    /\ bank' = [bank EXCEPT ![p] = "open"]
    /\ holdUntil' = [holdUntil EXCEPT ![b] = NULL]
    /\ UNCHANGED <<now, status, rowVars, extensions, stamps, storageVars,
                   custodyVars, cellVars, hours, attention, answered>>

start_payment(b, p) ==
    /\ payment[p] = NULL
    /\ status[b] = "pending_payment"
    /\ "paid_at" \notin stamps[b]
    /\ ~HoldOver(b)
    /\ ~OpenPayment(b)
    /\ payment' = [payment EXCEPT ![p] = "pending"]
    /\ payee' = [payee EXCEPT ![p] = b]
    /\ bank' = [bank EXCEPT ![p] = "open"]
    /\ UNCHANGED <<vars, attention, answered>>

(* Mutant: a settled payment may be cancelled too.                         *)
CancelSettled(p) ==
    /\ payment[p] \in PaymentStatus
    /\ payment' = [payment EXCEPT ![p] = "cancelled"]
    /\ UNCHANGED <<vars, payee, attention, bank, answered>>

(* The customer backs out of the bank's page.                              *)
cancel_payment(p) ==
    /\ payment[p] = "pending"
    /\ payment' = [payment EXCEPT ![p] = "cancelled"]
    /\ UNCHANGED <<vars, payee, attention, bank, answered>>

BankDecides(p, outcome) ==
    /\ bank[p] = "open"
    /\ bank' = [bank EXCEPT ![p] = outcome]
    /\ UNCHANGED <<vars, payment, payee, attention, answered>>
-----------------------------------------------------------------------------
(* settle.                                                                 *)

Callback(p, outcome) ==
    /\ bank[p] = outcome
    /\ answered' = answered \cup {p}

Waiting(p) == status[payee[p]] = "pending_payment"

(* A redelivery, or the answer to a session that was cancelled here.       *)
SettleAgain(p) ==
    /\ payment[p] # NULL
    /\ ~Live(p)
    /\ \E outcome \in Outcome : Callback(p, outcome)
    /\ UNCHANGED <<vars, payment, payee, attention, bank>>

SettleRefusal(p) ==
    /\ Callback(p, "refused")
    /\ Live(p)
    /\ payment' = [payment EXCEPT ![p] = "failed"]
    /\ IF Waiting(p) THEN payment_failed(payee[p]) ELSE UNCHANGED vars
    /\ UNCHANGED <<payee, attention, bank>>

(* Mutant: a redelivered success is settled once more.                     *)
SettleSuccessTwice(p) ==
    /\ Callback(p, "charged")
    /\ payment[p] # NULL
    /\ payment' = [payment EXCEPT ![p] = "succeeded"]
    /\ IF Waiting(p)
       THEN mark_paid(payee[p]) /\ UNCHANGED attention
       ELSE attention' = attention \cup {p} /\ UNCHANGED vars
    /\ UNCHANGED <<payee, bank>>

(* Mutant: money for a booking that is gone is not flagged.                *)
SettleSuccessSilently(p) ==
    /\ Callback(p, "charged")
    /\ Live(p)
    /\ payment' = [payment EXCEPT ![p] = "succeeded"]
    /\ IF Waiting(p) THEN mark_paid(payee[p]) ELSE UNCHANGED vars
    /\ UNCHANGED <<payee, attention, bank>>

(* Money for a booking that no longer waits for it is flagged for a human. *)
SettleSuccess(p) ==
    /\ Callback(p, "charged")
    /\ Live(p)
    /\ payment' = [payment EXCEPT ![p] = "succeeded"]
    /\ IF Waiting(p)
       THEN mark_paid(payee[p]) /\ UNCHANGED attention
       ELSE attention' = attention \cup {p} /\ UNCHANGED vars
    /\ UNCHANGED <<payee, bank>>
-----------------------------------------------------------------------------
(* What the mobile application asks for.                                   *)
CustomerStep(p) == (\E b \in Bookings : start_payment(b, p)) \/ cancel_payment(p)

PaymentStep(p) ==
    \/ CustomerStep(p)
    \/ \E outcome \in Outcome : BankDecides(p, outcome)
    \/ SettleAgain(p)
    \/ SettleRefusal(p)
    \/ SettleSuccess(p)

(* The holds worker cancels as "system", and is not a person.              *)
OwnStepOf(b) ==
    /\ OwnStep(b)
    /\ byHand' = IF status'[b] = "cancelled" THEN byHand \cup {b} ELSE byHand

(* Only the bank's answer settles a booking; the rest goes on beside it.   *)
PaymentsNext ==
    \/ (\E p \in PaymentIds : PaymentStep(p)) /\ UNCHANGED byHand
    \/ (\E b \in Bookings : OwnStepOf(b)) /\ UNCHANGED paymentVars
    \/ (Workers \/ AdminStep \/ Tick) /\ UNCHANGED <<paymentVars, byHand>>

PaymentsSpec == PaymentsInit /\ [][PaymentsNext]_<<vars, paymentVars, byHand>>
-----------------------------------------------------------------------------
(* Properties.                                                             *)

PaymentsTypeOK ==
    /\ payment \in [PaymentIds -> PaymentStatus \cup {NULL}]
    /\ payee \in [PaymentIds -> Bookings \cup {NULL}]
    /\ attention \subseteq PaymentIds
    /\ bank \in [PaymentIds -> Outcome \cup {"open", NULL}]
    /\ answered \subseteq PaymentIds
    /\ byHand \subseteq Bookings
    /\ \A p \in PaymentIds :
          (payment[p] = NULL <=> payee[p] = NULL) /\ (payment[p] = NULL <=> bank[p] = NULL)

(* A booking is never a way to take the same money twice: of its payments  *)
(* all but one were given up by the customer.                              *)
OneUncancelledPayment ==
    \A p, q \in PaymentIds :
        /\ payment[p] \notin {NULL, "cancelled"}
        /\ payment[q] \notin {NULL, "cancelled"}
        /\ payee[p] = payee[q]
        => p = q

Credited(p) == payment[p] = "succeeded" /\ p \notin attention

(* A booking is paid if and only if one payment of its own was credited to *)
(* it, however callbacks, cancellations and the hold worker interleave.    *)
PaidByOnePayment ==
    \A b \in Bookings :
        /\ "paid_at" \in stamps[b] <=> \E p \in PaymentIds : payee[p] = b /\ Credited(p)
        /\ \A p, q \in PaymentIds :
              payee[p] = b /\ payee[q] = b /\ Credited(p) /\ Credited(q) => p = q

(* "Apply a provider callback exactly once": a redelivery, also after the  *)
(* booking has moved on, changes neither a settled payment nor its flag.   *)
SettledOnce ==
    [][\A p \in PaymentIds :
          payment[p] # NULL /\ ~Live(p) =>
              payment'[p] = payment[p] /\ (p \in attention' <=> p \in attention)
      ]_<<vars, paymentVars, byHand>>

(* Its money pays for a booking that goes on, or went its way to the end.  *)
Serves(p) ==
    /\ Credited(p)
    /\ "paid_at" \in stamps[payee[p]]
    /\ status[payee[p]] \notin {"cancelled", "payment_failed"}

(* Once the bank has been told 200, money it took pays for a booking or is *)
(* flagged in the journal, with two exceptions: the customer had given the *)
(* session up, or a person cancelled the booking afterwards, of which the  *)
(* code makes no entry although README.md promises one.  A timer or a      *)
(* second callback never takes it: "a paid booking holds its cell because  *)
(* it was paid for" (workers/holds.py).                                    *)
MoneyAccountedFor ==
    \A p \in answered : bank[p] = "charged" =>
        \/ p \in attention
        \/ Serves(p)
        \/ payment[p] = "cancelled"
        \/ payment[p] = "succeeded" /\ status[payee[p]] = "cancelled" /\ payee[p] \in byHand

LeavesTrace(p) == p \in attention \/ (Credited(p) /\ "paid_at" \in stamps[payee[p]])

(* The promise without the first exception: money taken "must never        *)
(* disappear quietly" (tests/payments/test_flow.py).                       *)
MoneyNeverDisappears ==
    \A p \in answered : bank[p] = "charged" => LeavesTrace(p)

(* With the payments the bookings still behave as Booking says.            *)
BookingSpec == Spec
=============================================================================
