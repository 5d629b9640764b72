-------------------------- MODULE Payments_proofs --------------------------
(***************************************************************************)
(* The payments leave the bookings' specification intact, so what is       *)
(* proved of Booking holds with them; money is credited exactly once; and  *)
(* the dashboard shows the figures of the rows it counts.                  *)
(***************************************************************************)
EXTENDS Booking_proofs, Dashboard

PaymentsTypeInv == TypeInv /\ PaymentsTypeOK

(* Of the steps of a payment only the bank's answer touches a booking.     *)
LEMMA OnlySettleMoves ==
    ASSUME PaymentsTypeInv, NEW p \in PaymentIds, PaymentStep(p)
    PROVE  UNCHANGED vars \/ \E b \in Bookings : mark_paid(b) \/ payment_failed(b)
<1>1. CASE SettleRefusal(p) \/ SettleSuccess(p)
    <2>1. payee[p] \in Bookings
        BY <1>1, PaymentsAssumption DEF PaymentsTypeInv, PaymentsTypeOK, SettleRefusal,
            SettleSuccess, Live, LIVE_STATUSES, PaymentStatus
    <2>2. UNCHANGED vars \/ mark_paid(payee[p]) \/ payment_failed(payee[p])
        BY <1>1 DEF SettleRefusal, SettleSuccess
    <2> QED BY <2>1, <2>2
<1>2. CASE ~(SettleRefusal(p) \/ SettleSuccess(p))
    BY <1>2 DEF PaymentStep, CustomerStep, start_payment, cancel_payment, BankDecides, SettleAgain
<1> QED BY <1>1, <1>2

(* Every step of the composition is a step of the bookings or none at all. *)
LEMMA StepIsBooking ==
    ASSUME PaymentsTypeInv, [PaymentsNext]_<<vars, paymentVars, byHand>>
    PROVE  [Next]_vars
<1>1. CASE (\E b \in Bookings : OwnStep(b)) \/ Workers \/ AdminStep \/ Tick
    BY <1>1 DEF Next, BookingStep
<1>2. CASE \E p \in PaymentIds : PaymentStep(p)
    BY <1>2, OnlySettleMoves DEF Next, BookingStep
<1>3. CASE UNCHANGED <<vars, paymentVars, byHand>>
    BY <1>3
<1> QED BY <1>1, <1>2, <1>3 DEF PaymentsNext, OwnStepOf
-----------------------------------------------------------------------------
(* What a step does to one payment.                                        *)
Untroubled(p) ==
    /\ payment'[p] = payment[p] /\ payee'[p] = payee[p] /\ bank'[p] = bank[p]
    /\ p \in attention' <=> p \in attention
    /\ p \in answered' <=> p \in answered

Started(p) ==
    /\ payment[p] = NULL /\ payment'[p] = "pending"
    /\ payee'[p] \in Bookings /\ status[payee'[p]] = "pending_payment"
    /\ ~OpenPayment(payee'[p])
    /\ bank'[p] = "open"
    /\ p \in attention' <=> p \in attention
    /\ p \in answered' <=> p \in answered

Abandoned(p) ==
    /\ payment[p] = "pending" /\ payment'[p] = "cancelled"
    /\ payee'[p] = payee[p] /\ bank'[p] = bank[p]
    /\ p \in attention' <=> p \in attention
    /\ p \in answered' <=> p \in answered

Decided(p) ==
    /\ bank[p] = "open" /\ bank'[p] \in Outcome
    /\ payment'[p] = payment[p] /\ payee'[p] = payee[p]
    /\ p \in attention' <=> p \in attention
    /\ p \in answered' <=> p \in answered

Repeated(p) ==
    /\ payment[p] # NULL /\ ~Live(p)
    /\ payment'[p] = payment[p] /\ payee'[p] = payee[p] /\ bank'[p] = bank[p]
    /\ p \in attention' <=> p \in attention
    /\ p \in answered'

Refused(p) ==
    /\ Live(p) /\ payment'[p] = "failed" /\ bank[p] = "refused"
    /\ payee'[p] = payee[p] /\ bank'[p] = bank[p]
    /\ p \in attention' <=> p \in attention
    /\ p \in answered'
    /\ Waiting(p) => status'[payee[p]] = "payment_failed"

Settled(p) ==
    /\ Live(p) /\ payment'[p] = "succeeded" /\ bank[p] = "charged"
    /\ payee'[p] = payee[p] /\ bank'[p] = bank[p]
    /\ p \in answered'
    /\ IF Waiting(p)
       THEN /\ p \in attention' <=> p \in attention
            /\ status'[payee[p]] = "awaiting_deposit"
            /\ "paid_at" \in stamps'[payee[p]]
       ELSE p \in attention'

(* The paid_at stamps move only with the payment that is credited.         *)
PaidOnly(b) == \A x \in Bookings \ {b} : "paid_at" \in stamps'[x] <=> "paid_at" \in stamps[x]

PaidSame == \A x \in Bookings : "paid_at" \in stamps'[x] <=> "paid_at" \in stamps[x]

Others(p) == \A q \in PaymentIds \ {p} : Untroubled(q)

PaymentShape ==
    \/ PaidSame /\ \A p \in PaymentIds : Untroubled(p)
    \/ /\ PaidSame
       /\ \E p \in PaymentIds :
             /\ Started(p) \/ Abandoned(p) \/ Decided(p) \/ Repeated(p) \/ Refused(p)
             /\ Others(p)
    \/ \E p \in PaymentIds :
          /\ Settled(p) /\ Others(p)
          /\ IF Waiting(p) THEN PaidOnly(payee[p]) ELSE PaidSame

LEMMA OwnKeepsPaid ==
    ASSUME TypeInv, (\E b \in Bookings : OwnStep(b)) \/ Workers \/ AdminStep \/ Tick
    PROVE  PaidSame
<1> USE DEF TypeInv, TypeOK, PaidSame
<1>1. ASSUME NEW b \in Bookings, OwnStep(b) PROVE PaidSame
    <2>1. CASE mark_deposited(b) \/ mark_collected(b)
        BY <2>1 DEF mark_deposited, mark_collected
    <2>2. CASE ~(mark_deposited(b) \/ mark_collected(b))
        BY <1>1, <2>2 DEF OwnStep, CustodyStep, create_booking, extend_hold, ClientCancel, AdminCancel,
            cancel, file_removal, hand_over, dispose
    <2> QED BY <2>1, <2>2
<1>2. ASSUME Workers PROVE PaidSame
    BY <1>2 DEF Workers, release_expired_holds, run_escalation
<1>3. ASSUME AdminStep \/ Tick PROVE PaidSame
    BY <1>3 DEF AdminStep, Tick, block_cell, unblock_cell, StartMaintenance, EndMaintenance,
        MoveCell, set_schedule, bookingVars
<1> QED BY <1>1, <1>2, <1>3

LEMMA PaymentShapes ==
    ASSUME PaymentsTypeInv, [PaymentsNext]_<<vars, paymentVars, byHand>>
    PROVE  PaymentShape
<1> USE DEF PaymentsTypeInv, PaymentsTypeOK
<1>1. CASE UNCHANGED paymentVars /\ (UNCHANGED vars \/ (\E b \in Bookings : OwnStep(b))
                                      \/ Workers \/ AdminStep \/ Tick)
    <2>1. PaidSame
        BY <1>1, OwnKeepsPaid DEF PaidSame, vars, bookingVars
    <2> QED BY <1>1, <2>1 DEF PaymentShape, Untroubled, paymentVars
<1>2. ASSUME NEW p \in PaymentIds, PaymentStep(p), ~SettleRefusal(p), ~SettleSuccess(p)
      PROVE  PaymentShape
    <2>1. PaidSame
        BY <1>2 DEF PaymentStep, CustomerStep, start_payment, cancel_payment, BankDecides, SettleAgain,
            PaidSame, vars, bookingVars
    <2>2. Others(p)
        BY <1>2 DEF PaymentStep, CustomerStep, start_payment, cancel_payment, BankDecides, SettleAgain,
            Callback, Others, Untroubled
    <2>3. CASE \E b \in Bookings : start_payment(b, p)
        <3>1. Started(p)
            BY <2>3 DEF start_payment, Started
        <3> QED BY <2>1, <2>2, <3>1 DEF PaymentShape
    <2>4. CASE cancel_payment(p)
        <3>1. Abandoned(p)
            BY <2>4 DEF cancel_payment, Abandoned
        <3> QED BY <2>1, <2>2, <3>1 DEF PaymentShape
    <2>5. CASE \E outcome \in Outcome : BankDecides(p, outcome)
        <3>1. Decided(p)
            BY <2>5 DEF BankDecides, Decided
        <3> QED BY <2>1, <2>2, <3>1 DEF PaymentShape
    <2>6. CASE SettleAgain(p)
        <3>1. Repeated(p)
            BY <2>6 DEF SettleAgain, Callback, Repeated
        <3> QED BY <2>1, <2>2, <3>1 DEF PaymentShape
    <2> QED BY <1>2, <2>3, <2>4, <2>5, <2>6 DEF PaymentStep, CustomerStep
<1>3. ASSUME NEW p \in PaymentIds, SettleRefusal(p) PROVE PaymentShape
    <2>1. payee[p] \in Bookings
        BY <1>3, PaymentsAssumption DEF SettleRefusal, Live, LIVE_STATUSES, PaymentStatus
    <2>2. PaidSame
        BY <1>3 DEF SettleRefusal, payment_failed, PaidSame, vars, bookingVars
    <2>3. Others(p)
        BY <1>3 DEF SettleRefusal, Callback, Others, Untroubled
    <2>4. Waiting(p) => status'[payee[p]] = "payment_failed"
        BY <1>3, <2>1 DEF SettleRefusal, payment_failed, Move, TypeInv, TypeOK
    <2>5. Refused(p)
        BY <1>3, <2>4 DEF SettleRefusal, Callback, Refused
    <2> QED BY <2>2, <2>3, <2>5 DEF PaymentShape
<1>4. ASSUME NEW p \in PaymentIds, SettleSuccess(p) PROVE PaymentShape
    <2>1. payee[p] \in Bookings
        BY <1>4, PaymentsAssumption DEF SettleSuccess, Live, LIVE_STATUSES, PaymentStatus
    <2>2. Others(p)
        BY <1>4 DEF SettleSuccess, Callback, Others, Untroubled
    <2>3. CASE Waiting(p)
        <3>1. PaidOnly(payee[p]) /\ "paid_at" \in stamps'[payee[p]]
            BY <1>4, <2>1, <2>3 DEF SettleSuccess, mark_paid, PaidOnly, TypeInv, TypeOK
        <3>2. status'[payee[p]] = "awaiting_deposit"
            BY <1>4, <2>1, <2>3 DEF SettleSuccess, mark_paid, Move, TypeInv, TypeOK
        <3>3. Settled(p)
            BY <1>4, <2>3, <3>1, <3>2 DEF SettleSuccess, Callback, Settled
        <3> QED BY <2>2, <2>3, <3>1, <3>3 DEF PaymentShape
    <2>4. CASE ~Waiting(p)
        <3>1. PaidSame
            BY <1>4, <2>4 DEF SettleSuccess, PaidSame, vars, bookingVars
        <3>2. Settled(p)
            BY <1>4, <2>4 DEF SettleSuccess, Callback, Settled
        <3> QED BY <2>2, <2>4, <3>1, <3>2 DEF PaymentShape
    <2> QED BY <2>3, <2>4
<1> QED BY <1>1, <1>2, <1>3, <1>4 DEF PaymentsNext, OwnStepOf
-----------------------------------------------------------------------------
LEMMA PaymentsTypeInit == PaymentsInit => PaymentsTypeInv
BY TypeInit DEF PaymentsInit, PaymentsTypeInv, PaymentsTypeOK

LEMMA PaymentStepType ==
    ASSUME PaymentsTypeInv, NEW p \in PaymentIds, PaymentStep(p), UNCHANGED byHand
    PROVE  PaymentsTypeOK'
<1> USE PaymentsAssumption DEF PaymentsTypeOK, PaymentStatus, Outcome
<1>1. CASE \E b \in Bookings : start_payment(b, p)
    BY <1>1, BookingAssumption DEF start_payment, PaymentsTypeInv
<1>2. CASE cancel_payment(p)
    BY <1>2 DEF cancel_payment, PaymentsTypeInv
<1>3. CASE \E outcome \in Outcome : BankDecides(p, outcome)
    BY <1>3 DEF BankDecides, PaymentsTypeInv
<1>4. CASE SettleAgain(p)
    BY <1>4 DEF SettleAgain, Callback, PaymentsTypeInv
<1>5. CASE SettleRefusal(p) \/ SettleSuccess(p)
    BY <1>5 DEF SettleRefusal, SettleSuccess, Callback, Live, LIVE_STATUSES,
        PaymentsTypeInv
<1> QED BY <1>1, <1>2, <1>3, <1>4, <1>5 DEF PaymentStep, CustomerStep

LEMMA PaymentsTypeStep ==
    ASSUME PaymentsTypeInv, [PaymentsNext]_<<vars, paymentVars, byHand>>
    PROVE  PaymentsTypeInv'
<1>1. TypeInv'
    BY StepIsBooking, TypeStep DEF PaymentsTypeInv
<1>2. ASSUME \E p \in PaymentIds : PaymentStep(p), UNCHANGED byHand PROVE PaymentsTypeOK'
    BY <1>2, PaymentStepType
<1>3. ASSUME UNCHANGED paymentVars, byHand' \subseteq Bookings PROVE PaymentsTypeOK'
    <2>1. PaymentsTypeOK
        BY DEF PaymentsTypeInv
    <2> QED BY <1>3, <2>1 DEF PaymentsTypeOK, paymentVars
<1>4. \/ (\E p \in PaymentIds : PaymentStep(p)) /\ UNCHANGED byHand
      \/ UNCHANGED paymentVars /\ byHand' \subseteq Bookings
    BY DEF PaymentsNext, OwnStepOf, PaymentsTypeInv, PaymentsTypeOK
<1> QED BY <1>1, <1>2, <1>3, <1>4 DEF PaymentsTypeInv

(* Types, and that a payment's row names its booking and its bank session. *)
THEOREM PaymentsTypeCorrect == PaymentsSpec => []PaymentsTypeOK
<1>1. PaymentsTypeInv => PaymentsTypeOK
    BY DEF PaymentsTypeInv
<1> QED BY PaymentsTypeInit, PaymentsTypeStep, <1>1, PTL DEF PaymentsSpec

(* With the payments, the bookings do only what Booking allows: every      *)
(* theorem about Spec holds of the composition.                            *)
THEOREM PaymentsImplementBooking == PaymentsSpec => BookingSpec
<1>1. PaymentsInit => Init
    BY DEF PaymentsInit
<1> QED
    BY PaymentsTypeInit, PaymentsTypeStep, StepIsBooking, <1>1, PTL
       DEF PaymentsSpec, BookingSpec, Spec

(* Callbacks are applied exactly once (settle).                            *)
THEOREM CallbacksApplyOnce == PaymentsSpec => SettledOnce
<1>1. ASSUME PaymentsTypeInv, [PaymentsNext]_<<vars, paymentVars, byHand>>,
             NEW p \in PaymentIds, payment[p] # NULL, ~Live(p)
      PROVE  payment'[p] = payment[p] /\ (p \in attention' <=> p \in attention)
    BY <1>1, PaymentShapes DEF PaymentShape, Untroubled, Started, Abandoned, Decided,
        Repeated, Refused, Settled, Others, Live, LIVE_STATUSES
<1>2. PaymentsTypeInv /\ [PaymentsNext]_<<vars, paymentVars, byHand>> =>
        [\A p \in PaymentIds :
            payment[p] # NULL /\ ~Live(p) =>
              payment'[p] = payment[p] /\ (p \in attention' <=> p \in attention)
        ]_<<vars, paymentVars, byHand>>
    BY <1>1
<1> QED
    BY PaymentsTypeInit, PaymentsTypeStep, <1>2, PTL DEF PaymentsSpec, SettledOnce
-----------------------------------------------------------------------------
(* The ledger: how far a payment, its bank session and its booking have    *)
(* come agree.  A payment that ended at the bank has moved its booking out *)
(* of pending_payment for good, which is why no second session can open.   *)
Ledger(p) ==
    /\ payment[p] \in {NULL, "pending", "succeeded", "failed", "cancelled"}
    /\ payment[p] # NULL => status[payee[p]] # NULL
    /\ payment[p] = "failed" => bank[p] = "refused"
    /\ payment[p] \in {"succeeded", "failed"} =>
          status[payee[p]] \notin {NULL, "pending_payment"}
    /\ payment[p] = "succeeded" => bank[p] = "charged" /\ p \in answered
    /\ p \in attention => payment[p] = "succeeded"
    /\ p \in answered => payment[p] \in {"succeeded", "failed", "cancelled"}

PaidIsCredited ==
    \A b \in Bookings :
        "paid_at" \in stamps[b] <=> \E p \in PaymentIds : payee[p] = b /\ Credited(p)

LedgerInv ==
    /\ \A p \in PaymentIds : Ledger(p)
    /\ OneUncancelledPayment
    /\ PaidIsCredited

LEMMA LedgerInit == PaymentsInit => LedgerInv
BY PaymentsAssumption, BookingAssumption
   DEF PaymentsInit, Init, LedgerInv, Ledger, OneUncancelledPayment, PaidIsCredited,
       Credited, PaymentStatus

(* A booking never waits for its payment a second time.                    *)
LEMMA WaitsOnce ==
    ASSUME TypeInv, [Next]_vars, NEW b \in Bookings,
           status[b] \notin {NULL, "pending_payment"}
    PROVE  status'[b] \notin {NULL, "pending_payment"}
<1>1. Effect(b)
    BY Effects
<1> QED BY <1>1, BookingAssumption DEF Effect, Idle, Created, Paid, GivenUp, Stored,
        Collected, Escalated, Removed, Closed, BookingStatus

LEMMA RowStays ==
    ASSUME TypeInv, [Next]_vars, NEW b \in Bookings, status[b] # NULL
    PROVE  status'[b] # NULL
<1>1. Effect(b)
    BY Effects
<1> QED BY <1>1, BookingAssumption DEF Effect, Idle, Created, Paid, GivenUp, Stored,
        Collected, Escalated, Removed, Closed, BookingStatus

LEMMA LedgerStep ==
    ASSUME PaymentsTypeInv, LedgerInv, [PaymentsNext]_<<vars, paymentVars, byHand>>,
           NEW p \in PaymentIds
    PROVE  Ledger(p)'
<1>1. Ledger(p)
    BY DEF LedgerInv
<1>2. payment[p] \in {"succeeded", "failed"} =>
          payee[p] \in Bookings /\ status'[payee[p]] \notin {NULL, "pending_payment"}
    BY <1>1, StepIsBooking, WaitsOnce, PaymentsAssumption
       DEF Ledger, PaymentsTypeInv, PaymentsTypeOK, PaymentStatus
<1>3. payment[p] # NULL => payee[p] \in Bookings
    BY DEF PaymentsTypeInv, PaymentsTypeOK
<1>12. payment[p] # NULL => status'[payee[p]] # NULL
    BY <1>1, <1>3, StepIsBooking, RowStays DEF Ledger, PaymentsTypeInv
<1>4. \/ Untroubled(p) \/ Started(p) \/ Abandoned(p) \/ Decided(p) \/ Repeated(p)
      \/ Refused(p) \/ Settled(p)
    BY PaymentShapes DEF PaymentShape, Others
<1> USE PaymentsAssumption, BookingAssumption DEF Ledger, PaymentStatus, BookingStatus
<1>5. CASE Untroubled(p) \/ Abandoned(p)
    BY <1>1, <1>2, <1>12, <1>5 DEF Untroubled, Abandoned
<1>6. CASE Started(p)
    <2>1. status'[payee'[p]] # NULL
        BY <1>6, StepIsBooking, RowStays DEF Started, PaymentsTypeInv
    <2> QED BY <1>1, <1>6, <2>1 DEF Started
<1>7. CASE Decided(p)
    BY <1>1, <1>2, <1>12, <1>7 DEF Decided
<1>8. CASE Repeated(p)
    BY <1>1, <1>2, <1>12, <1>8 DEF Repeated, Live, LIVE_STATUSES
<1>9. ASSUME Refused(p) \/ Settled(p)
      PROVE  payee[p] \in Bookings /\ status'[payee[p]] \notin {NULL, "pending_payment"}
    <2>1. payee[p] \in Bookings
        BY <1>3, <1>9 DEF Refused, Settled, Live, LIVE_STATUSES
    <2>2. CASE Waiting(p)
        BY <1>9, <2>1, <2>2 DEF Refused, Settled
    <2>3. CASE ~Waiting(p)
        <3>1. status[payee[p]] # NULL
            BY <1>1, <1>9 DEF Refused, Settled, Live, LIVE_STATUSES
        <3> QED BY <2>1, <2>3, <3>1, StepIsBooking, WaitsOnce DEF Waiting, PaymentsTypeInv
    <2> QED BY <2>1, <2>2, <2>3
<1>10. CASE Refused(p)
    BY <1>1, <1>9, <1>10 DEF Refused, Live, LIVE_STATUSES
<1>11. CASE Settled(p)
    BY <1>1, <1>9, <1>11 DEF Settled, Live, LIVE_STATUSES
<1> QED BY <1>4, <1>5, <1>6, <1>7, <1>8, <1>10, <1>11

LEMMA OnePaymentStep ==
    ASSUME PaymentsTypeInv, LedgerInv, [PaymentsNext]_<<vars, paymentVars, byHand>>
    PROVE  OneUncancelledPayment'
<1>1. PaymentShape
    BY PaymentShapes
<1>2. ASSUME NEW p \in PaymentIds, payment'[p] \notin {NULL, "cancelled"}
      PROVE  \/ payment[p] \notin {NULL, "cancelled"} /\ payee'[p] = payee[p]
             \/ Started(p) /\ Others(p)
    <2>1. NULL \notin LIVE_STATUSES
        BY PaymentsAssumption DEF LIVE_STATUSES, PaymentStatus
    <2> QED
        BY <1>1, <1>2, <2>1 DEF PaymentShape, Others, Untroubled, Abandoned, Decided,
            Repeated, Refused, Settled, Live, LIVE_STATUSES
<1>3. ASSUME NEW p \in PaymentIds, NEW q \in PaymentIds, p # q,
             Started(p), Others(p),
             payment'[q] \notin {NULL, "cancelled"}, payee'[q] = payee'[p]
      PROVE  FALSE
    <2>1. Ledger(q) /\ Untroubled(q)
        BY <1>3 DEF LedgerInv, Others
    <2>2. payment[q] = "pending"
        BY <1>3, <2>1 DEF Ledger, Started, Untroubled
    <2>3. OpenPayment(payee'[p])
        BY <1>3, <2>1, <2>2 DEF OpenPayment, Live, LIVE_STATUSES, Untroubled
    <2> QED BY <1>3, <2>3 DEF Started
<1>4. OneUncancelledPayment
    BY DEF LedgerInv
<1> QED BY <1>2, <1>3, <1>4 DEF OneUncancelledPayment

CreditKept(p) ==
    /\ payment'[p] = "succeeded" /\ p \notin attention' <=> Credited(p)
    /\ Credited(p) => payee'[p] = payee[p]

Unpaying(p) ==
    \/ Untroubled(p) \/ Started(p) \/ Abandoned(p) \/ Decided(p) \/ Repeated(p)
    \/ Refused(p)
    \/ Settled(p) /\ ~Waiting(p)

(* A payment is credited by the callback that pays its booking, and by     *)
(* nothing else.                                                           *)
LEMMA CreditStep ==
    ASSUME PaymentsTypeInv, LedgerInv, [PaymentsNext]_<<vars, paymentVars, byHand>>
    PROVE  PaidIsCredited'
<1>1. PaymentShape /\ PaidIsCredited
    BY PaymentShapes DEF LedgerInv
<1>2. ASSUME NEW p \in PaymentIds, Unpaying(p)
      PROVE  CreditKept(p)
    <2>1. Ledger(p)
        BY DEF LedgerInv
    <2>2. NULL # "succeeded"
        BY PaymentsAssumption DEF PaymentStatus
    <2>3. CASE Repeated(p)
        BY <2>1, <2>3 DEF CreditKept, Credited, Ledger, Repeated
    <2>4. CASE Settled(p) /\ ~Waiting(p)
        BY <2>4 DEF CreditKept, Credited, Settled, Live, LIVE_STATUSES
    <2>5. CASE Refused(p)
        BY <2>5 DEF CreditKept, Credited, Refused, Live, LIVE_STATUSES
    <2> QED BY <1>2, <2>2, <2>3, <2>4, <2>5 DEF Unpaying, CreditKept, Credited, Untroubled,
        Started, Abandoned, Decided
<1>4. ASSUME NEW p \in PaymentIds, Settled(p), Others(p), Waiting(p), PaidOnly(payee[p])
      PROVE  PaidIsCredited'
    <2>1. Ledger(p) /\ payee[p] \in Bookings
        BY <1>4, PaymentsAssumption DEF LedgerInv, Settled, Live, LIVE_STATUSES,
            PaymentsTypeInv, PaymentsTypeOK, PaymentStatus
    <2>2. /\ Credited(p)' /\ ~Credited(p) /\ payee'[p] = payee[p]
          /\ "paid_at" \in stamps'[payee[p]]
        BY <1>4, <2>1 DEF Settled, Credited, Ledger, Live, LIVE_STATUSES
    <2>3. \A q \in PaymentIds \ {p} :
              (Credited(q)' <=> Credited(q)) /\ payee'[q] = payee[q]
        BY <1>4 DEF Others, Untroubled, Credited
    <2> QED BY <1>1, <1>4, <2>1, <2>2, <2>3 DEF PaidIsCredited, PaidOnly
<1>5. CASE PaidSame /\ \A p \in PaymentIds : Untroubled(p)
    BY <1>1, <1>5 DEF PaidIsCredited, PaidSame, Credited, Untroubled
<1>6. ASSUME PaidSame, NEW p \in PaymentIds, Others(p), Unpaying(p)
      PROVE  PaidIsCredited'
    <2>1. CreditKept(p)
        BY <1>2, <1>6
    <2>2. ASSUME NEW q \in PaymentIds \ {p} PROVE CreditKept(q)
        BY <1>2, <1>6 DEF Others, Unpaying
    <2> QED BY <1>1, <1>6, <2>1, <2>2 DEF PaidIsCredited, PaidSame, CreditKept, Credited
<1>7. ASSUME NEW p \in PaymentIds, Settled(p), Others(p),
             IF Waiting(p) THEN PaidOnly(payee[p]) ELSE PaidSame
      PROVE  PaidIsCredited'
    <2>1. CASE Waiting(p)
        BY <1>4, <1>7, <2>1
    <2>2. CASE ~Waiting(p)
        BY <1>6, <1>7, <2>2 DEF Unpaying
    <2> QED BY <2>1, <2>2
<1>8. PaymentShape
    BY <1>1
<1> QED BY <1>5, <1>6, <1>7, <1>8 DEF PaymentShape, Unpaying

LEMMA LedgerHolds == PaymentsSpec => [](PaymentsTypeInv /\ LedgerInv)
<1>1. PaymentsTypeInv /\ LedgerInv /\ [PaymentsNext]_<<vars, paymentVars, byHand>> => LedgerInv'
    BY LedgerStep, OnePaymentStep, CreditStep DEF LedgerInv
<1> QED
    BY PaymentsTypeInit, LedgerInit, PaymentsTypeStep, <1>1, PTL DEF PaymentsSpec

(* No booking takes the customer's money twice (start_payment, settle).    *)
THEOREM OnePayment == PaymentsSpec => []OneUncancelledPayment
<1>1. LedgerInv => OneUncancelledPayment
    BY DEF LedgerInv
<1> QED BY LedgerHolds, <1>1, PTL

(* Paid and credited are one thing, in spite of late callbacks (settle).   *)
THEOREM PaidOnce == PaymentsSpec => []PaidByOnePayment
<1>1. PaymentsTypeInv /\ LedgerInv => PaidByOnePayment
    BY PaymentsAssumption DEF LedgerInv, PaidIsCredited, OneUncancelledPayment,
        PaidByOnePayment, Credited, PaymentStatus
<1> QED BY LedgerHolds, <1>1, PTL

(* A booking whose money is credited is cancelled only by hand.            *)
LapsedByHand(b) ==
    "paid_at" \in stamps[b] =>
        /\ status[b] # "payment_failed"
        /\ status[b] = "cancelled" => b \in byHand

HandInv == \A b \in Bookings : LapsedByHand(b)

(* The timer and the bank leave a booking alone that does not wait.        *)
LEMMA LapsesOnItsOwn ==
    ASSUME TypeInv, NEW b \in Bookings, status[b] \notin {NULL, "pending_payment"},
           \/ \E x \in Bookings : mark_paid(x) \/ payment_failed(x)
           \/ Workers \/ AdminStep \/ Tick \/ UNCHANGED vars
    PROVE  status'[b] \in {"cancelled", "payment_failed"} => status'[b] = status[b]
<1> USE DEF TypeInv, TypeOK
<1>1. ASSUME NEW x \in Bookings, mark_paid(x) \/ payment_failed(x)
      PROVE  status'[b] = status[b]
    BY <1>1 DEF mark_paid, payment_failed, Move
<1>2. CASE release_expired_holds
    BY <1>2 DEF release_expired_holds, Stale
<1>3. CASE run_escalation
    <2>1. status'[b] = NextStage(b)
        BY <1>3 DEF run_escalation
    <2> QED BY <2>1 DEF NextStage
<1>4. CASE AdminStep \/ Tick \/ UNCHANGED vars
    BY <1>4 DEF AdminStep, Tick, block_cell, unblock_cell, StartMaintenance, EndMaintenance,
        MoveCell, set_schedule, bookingVars, vars
<1> QED BY <1>1, <1>2, <1>3, <1>4 DEF Workers

LEMMA OwnLapse ==
    ASSUME TypeInv, NEW b \in Bookings, NEW x \in Bookings, OwnStep(x)
    PROVE  /\ x # b => status'[b] = status[b]
           /\ status'[b] = "payment_failed" => status[b] = "payment_failed"
<1> USE DEF TypeInv, TypeOK
<1>1. CASE (\E p \in Postamats, d \in Durations : create_booking(x, p, d)) \/ extend_hold(x)
    BY <1>1 DEF create_booking, extend_hold
<1>2. CASE ClientCancel(x) \/ AdminCancel(x)
    BY <1>2 DEF ClientCancel, AdminCancel, cancel, Move
<1>3. CASE mark_deposited(x) \/ mark_collected(x)
    BY <1>3 DEF mark_deposited, mark_collected, Move
<1>4. CASE CustodyStep(x)
    BY <1>4 DEF CustodyStep, file_removal, hand_over, dispose, Move
<1> QED BY <1>1, <1>2, <1>3, <1>4 DEF OwnStep

LEMMA HandStep ==
    ASSUME PaymentsTypeInv, LedgerInv, HandInv, [PaymentsNext]_<<vars, paymentVars, byHand>>,
           NEW b \in Bookings
    PROVE  LapsedByHand(b)'
<1> SUFFICES ASSUME "paid_at" \in stamps'[b]
             PROVE  /\ status'[b] # "payment_failed"
                    /\ status'[b] = "cancelled" => b \in byHand'
    BY DEF LapsedByHand
<1>1. LapsedByHand(b) /\ TypeInv
    BY DEF HandInv, PaymentsTypeInv
<1>2. byHand \subseteq byHand'
    BY DEF PaymentsNext, OwnStepOf
<1>3. CASE "paid_at" \in stamps[b]
    <2>1. PICK p \in PaymentIds : payee[p] = b /\ payment[p] = "succeeded"
        BY <1>3 DEF LedgerInv, PaidIsCredited, Credited
    <2>2. status[b] \notin {NULL, "pending_payment"}
        BY <2>1 DEF LedgerInv, Ledger
    <2>3. ASSUME NEW x \in Bookings, OwnStepOf(x)
          PROVE  /\ status'[b] # "payment_failed"
                 /\ status'[b] = "cancelled" => b \in byHand'
        BY <1>1, <1>2, <1>3, <2>3, OwnLapse DEF OwnStepOf, LapsedByHand
    <2>4. ASSUME \/ \E x \in Bookings : mark_paid(x) \/ payment_failed(x)
                 \/ Workers \/ AdminStep \/ Tick \/ UNCHANGED vars
          PROVE  /\ status'[b] # "payment_failed"
                 /\ status'[b] = "cancelled" => b \in byHand'
        BY <1>1, <1>2, <1>3, <2>2, <2>4, LapsesOnItsOwn DEF LapsedByHand
    <2> QED BY <2>3, <2>4, OnlySettleMoves DEF PaymentsNext
<1>4. CASE "paid_at" \notin stamps[b]
    <2>1. \E p \in PaymentIds : Settled(p) /\ Waiting(p) /\ payee[p] = b
        BY <1>4, PaymentShapes DEF PaymentShape, PaidSame, PaidOnly
    <2> QED BY <2>1 DEF Settled
<1> QED BY <1>3, <1>4

LEMMA HandHolds == PaymentsSpec => [](PaymentsTypeInv /\ LedgerInv /\ HandInv)
<1>1. PaymentsInit => HandInv
    BY DEF PaymentsInit, Init, HandInv, LapsedByHand
<1>2. PaymentsTypeInv /\ LedgerInv /\ HandInv /\ [PaymentsNext]_<<vars, paymentVars, byHand>>
        => HandInv'
    BY HandStep DEF HandInv
<1> QED BY LedgerHolds, <1>1, <1>2, PTL DEF PaymentsSpec

(* Money the bank took pays for a booking or is flagged (settle), unless   *)
(* the session or, by a person, the booking was cancelled.                 *)
THEOREM MoneyAccounted == PaymentsSpec => []MoneyAccountedFor
<1>1. ASSUME PaymentsTypeInv, LedgerInv, HandInv, NEW p \in answered, bank[p] = "charged",
             payment[p] # "cancelled", p \notin attention
      PROVE  \/ Serves(p)
             \/ payment[p] = "succeeded" /\ status[payee[p]] = "cancelled" /\ payee[p] \in byHand
    <2>1. p \in PaymentIds
        BY <1>1 DEF PaymentsTypeInv, PaymentsTypeOK
    <2>2. Ledger(p)
        BY <2>1, <1>1 DEF LedgerInv
    <2>3. payment[p] = "succeeded" /\ Credited(p)
        BY <1>1, <2>2 DEF Ledger, Credited
    <2>4. payee[p] \in Bookings
        BY <1>1, <2>1, <2>3, PaymentsAssumption
           DEF PaymentsTypeInv, PaymentsTypeOK, PaymentStatus
    <2>5. "paid_at" \in stamps[payee[p]]
        BY <1>1, <2>1, <2>3, <2>4 DEF LedgerInv, PaidIsCredited
    <2> QED BY <1>1, <2>3, <2>4, <2>5 DEF Serves, HandInv, LapsedByHand
<1>2. PaymentsTypeInv /\ LedgerInv /\ HandInv => MoneyAccountedFor
    BY <1>1 DEF MoneyAccountedFor
<1> QED BY HandHolds, <1>2, PTL
-----------------------------------------------------------------------------
(* The dashboard.                                                          *)

LEMMA ImageCounts ==
    ASSUME NEW S, IsFiniteSet(S), NEW f, \A x, y \in S : f[x] = f[y] => x = y
    PROVE  Cardinality({f[x] : x \in S}) = Cardinality(S)
<1> DEFINE g == [x \in S |-> f[x]]
           T == {f[x] : x \in S}
<1>1. g \in Bijection(S, T)
    BY DEF Bijection, Injection, IsInjective, Surjection
<1>2. ExistsBijection(S, T)
    BY <1>1 DEF ExistsBijection
<1> HIDE DEF T
<1>3. Cardinality(T) = Cardinality(S)
    BY <1>2, FS_Bijection
<1> QED BY <1>3 DEF T

LEMMA DisjointCounts ==
    ASSUME NEW S, NEW T, IsFiniteSet(S), IsFiniteSet(T), S \cap T = {}
    PROVE  Cardinality(S \cup T) = Cardinality(S) + Cardinality(T)
<1>1. Cardinality(S \cup T) = Cardinality(S) + Cardinality(T) - Cardinality(S \cap T)
    BY FS_Union
<1>2. Cardinality(S \cap T) = 0
    BY FS_EmptySet
<1>3. Cardinality(S) \in Nat /\ Cardinality(T) \in Nat
    BY FS_CardinalityType
<1> QED BY <1>1, <1>2, <1>3

FiguresInv ==
    /\ TypeInv /\ StoryInv /\ CellExclusive /\ MaintenanceIsEmpty
    /\ PaymentsTypeInv /\ LedgerInv

LEMMA FiguresInvHolds == PaymentsSpec => []FiguresInv
<1>1. BookingSpec => Spec
    BY DEF BookingSpec
<1>2. PaymentsSpec => Spec
    BY <1>1, PaymentsImplementBooking
<1> QED
    BY <1>2, StoryHolds, CellsExclusive, MaintainedCellsEmpty, LedgerHolds, PTL
       DEF FiguresInv

LEMMA TilesHold == FiguresInv => TilesAddUp
<1> SUFFICES ASSUME FiguresInv PROVE TilesAddUp
    OBVIOUS
<1> DEFINE occupied == InStatus(OCCUPIED_STATUSES)
           booked == InStatus(BOOKED_STATUSES)
           held == {b \in Bookings : Held(b)}
           used == {c \in Cells : ~IndexAdmits(c)}
<1>1. /\ occupied \in SUBSET Bookings /\ booked \in SUBSET Bookings
      /\ occupied \cup booked = held /\ occupied \cap booked = {}
    BY DEF InStatus, OCCUPIED_STATUSES, BOOKED_STATUSES, Held, CELL_HELD_STATUSES
<1>2. occupied = Inside
    <2> SUFFICES ASSUME NEW b \in Bookings
                 PROVE  status[b] \in OCCUPIED_STATUSES <=>
                            Deposited(b) /\ "collected_at" \notin stamps[b] /\ custody[b] = NULL
        BY DEF InStatus, Inside
    <2>1. Story(b) /\ custody[b] \in CustodyStatus \cup {NULL}
        BY DEF FiguresInv, StoryInv, TypeInv, TypeOK
    <2>2. NULL \notin CustodyStatus
        BY BookingAssumption
    <2>3. ASSUME status[b] \in OCCUPIED_STATUSES PROVE custody[b] = NULL
        BY <2>1, <2>3 DEF Story, OCCUPIED_STATUSES
    <2>4. ASSUME status[b] \in OCCUPIED_STATUSES
          PROVE  Deposited(b) /\ "collected_at" \notin stamps[b]
        BY <2>1, <2>4 DEF Story, OCCUPIED_STATUSES
    <2> QED BY <2>1, <2>3, <2>4 DEF Story, ParcelInside, OCCUPIED_STATUSES
<1>3. \A b \in held : cell[b] \in Cells
    BY BookingAssumption DEF FiguresInv, TypeInv, RowsFilled, Held, CELL_HELD_STATUSES,
        BookingStatus
<1>4. \A b, d \in held : cell[b] = cell[d] => b = d
    BY DEF FiguresInv, CellExclusive
<1>5. used = {cell[b] : b \in held}
    BY <1>3 DEF IndexAdmits
<1>6. IsFiniteSet(occupied) /\ IsFiniteSet(booked) /\ IsFiniteSet(held)
    <2>1. held \in SUBSET Bookings
        OBVIOUS
    <2> HIDE DEF held, occupied, booked
    <2> QED BY <1>1, <2>1, DashboardAssumption, FS_Subset
<1>7. maintenance \in SUBSET Cells /\ used \cap maintenance = {}
    BY <1>5 DEF FiguresInv, TypeInv, TypeOK, MaintenanceIsEmpty
<1>8. Cardinality(CellsOf(Inside)) = Cardinality(occupied)
    <2>1. \A b, d \in occupied : cell[b] = cell[d] => b = d
        BY <1>1, <1>4
    <2> HIDE DEF occupied
    <2> QED BY <1>2, <1>6, <2>1, ImageCounts DEF CellsOf
<1>9. Cardinality(used) = Cardinality(occupied) + Cardinality(booked)
    <2> HIDE DEF held, occupied, booked, used
    <2>1. Cardinality(used) = Cardinality(held)
        BY <1>4, <1>5, <1>6, ImageCounts
    <2> QED BY <1>1, <1>6, <2>1, DisjointCounts
<1>10. Cardinality(used) + Cardinality(maintenance) <= Cardinality(Cells)
    <2>1. used \in SUBSET Cells
        OBVIOUS
    <2> HIDE DEF used
    <2>2. IsFiniteSet(used) /\ IsFiniteSet(maintenance) /\ used \cup maintenance \in SUBSET Cells
        BY <1>7, <2>1, DashboardAssumption, FS_Subset
    <2>3. Cardinality(used \cup maintenance) <= Cardinality(Cells)
        BY <2>2, DashboardAssumption, FS_Subset
    <2> QED BY <1>7, <2>2, <2>3, DisjointCounts
<1>11. Cardinality(InStatus({"overdue"})) + Cardinality(InStatus({"to_remove"}))
            <= Cardinality(occupied)
    <2> DEFINE late == InStatus({"overdue"})
               gone == InStatus({"to_remove"})
    <2>1. late \cup gone \in SUBSET occupied /\ late \cap gone = {}
        BY DEF InStatus, OCCUPIED_STATUSES
    <2> HIDE DEF late, gone, occupied
    <2>2. late \in SUBSET occupied /\ gone \in SUBSET occupied
        BY <2>1
    <2>3. IsFiniteSet(late) /\ IsFiniteSet(gone)
        BY <1>6, <2>2, FS_Subset
    <2>4. Cardinality(late \cup gone) <= Cardinality(occupied)
        BY <1>6, <2>1, FS_Subset
    <2>5. Cardinality(late) + Cardinality(gone) <= Cardinality(occupied)
        BY <2>1, <2>3, <2>4, DisjointCounts
    <2> QED BY <2>5 DEF late, gone
<1>12. /\ overview.occupied_count = Cardinality(occupied)
       /\ overview.booked_count = Cardinality(booked)
       /\ overview.maintenance_count = Cardinality(maintenance)
       /\ overview.cell_count = Cardinality(Cells)
       /\ attention_queue.overdue_bookings = Cardinality(InStatus({"overdue"}))
       /\ attention_queue.to_remove_bookings = Cardinality(InStatus({"to_remove"}))
    BY DEF overview, attention_queue
<1>13. /\ Cardinality(occupied) \in Nat /\ Cardinality(booked) \in Nat
    <2> HIDE DEF occupied, booked
    <2> QED BY <1>6, FS_CardinalityType
<1>14. Cardinality(booked) + Cardinality(occupied) = Cardinality(used)
    BY <1>9, <1>13
<1> HIDE DEF occupied, booked
<1> QED BY <1>8, <1>10, <1>11, <1>12, <1>14 DEF TilesAddUp

LEMMA RevenueHolds == FiguresInv => RevenueAddsUp
<1> SUFFICES ASSUME FiguresInv PROVE RevenueAddsUp
    OBVIOUS
<1> DEFINE settled == {p \in PaymentIds : payment[p] = "succeeded"}
           credited == {p \in PaymentIds : Credited(p)}
           paid == {b \in Bookings : "paid_at" \in stamps[b]}
<1>1. /\ \A p \in PaymentIds : Ledger(p)
      /\ attention \subseteq PaymentIds /\ answered \subseteq PaymentIds
      /\ PaidIsCredited /\ OneUncancelledPayment
    BY DEF FiguresInv, LedgerInv, PaymentsTypeInv, PaymentsTypeOK
<1>2. revenue(NULL) = Cardinality(settled)
    BY DEF revenue
<1>3. settled = {p \in answered : bank[p] = "charged" /\ payment[p] # "cancelled"}
    BY <1>1 DEF Ledger
<1>4. settled = credited \cup attention /\ credited \cap attention = {}
    BY <1>1 DEF Ledger, Credited
<1>5. IsFiniteSet(credited) /\ IsFiniteSet(attention)
    <2>1. credited \in SUBSET PaymentIds
        OBVIOUS
    <2> HIDE DEF credited
    <2> QED BY <1>1, <2>1, DashboardAssumption, FS_Subset
<1>6. \A p, q \in credited : payee[p] = payee[q] => p = q
    BY <1>1, PaymentsAssumption DEF OneUncancelledPayment, Credited, PaymentStatus
<1>7. paid = {payee[p] : p \in credited}
    <2>1. \A p \in credited : payee[p] \in Bookings
        BY PaymentsAssumption DEF FiguresInv, PaymentsTypeInv, PaymentsTypeOK, Credited,
            PaymentStatus
    <2> QED BY <1>1, <2>1 DEF PaidIsCredited
<1> HIDE DEF settled, credited, paid
<1>8. Cardinality(paid) = Cardinality(credited)
    BY <1>5, <1>6, <1>7, ImageCounts
<1>9. Cardinality(settled) = Cardinality(paid) + Cardinality(attention)
    BY <1>4, <1>5, <1>8, DisjointCounts
<1> QED BY <1>2, <1>3, <1>9 DEF RevenueAddsUp, paid

(* The dashboard tells the truth for any number of cells, bookings and     *)
(* payments: what its tiles add up to is what the doors and the bank say.  *)
THEOREM DashboardTrue == PaymentsSpec => []FiguresAreTrue
<1>1. FiguresInv => FiguresAreTrue
    BY TilesHold, RevenueHolds DEF FiguresAreTrue
<1> QED BY <1>1, FiguresInvHolds, PTL
=============================================================================
