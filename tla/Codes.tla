------------------------------- MODULE Codes --------------------------------
(***************************************************************************)
(* The codes that open a door: app/modules/booking/codes.py, the routes of *)
(* app/api/mobile/bookings.py that issue, rotate and transfer them, the    *)
(* SMS they travel by (app/modules/notify) and its delivery reports.       *)
(*                                                                         *)
(* A rotation or transfer reads its booking, writes the new code and only  *)
(* then sends the message: the query behind the message flushes the write  *)
(* (SQLAlchemy's autoflush), so the one write lock of SQLite is held from  *)
(* there to the commit.  A booking's first code is committed before its    *)
(* message is sent, and the row of that message afterwards.                *)
(*                                                                         *)
(* Codes are numbered in the order of issue: that two random codes are the *)
(* same digits is left out, and so is the window that makes rotations wait *)
(* for one another, which only refuses requests.  A booking is "open"      *)
(* until the deposit, "inside" in all stages of storage, and then          *)
(* collected, removed or cancelled.  The kiosk, which reports deposits and *)
(* sends the first pickup code, the phones and the SMS gateway are not in  *)
(* the repository.                                                         *)
(***************************************************************************)
EXTENDS Integers, FiniteSets

CONSTANTS
    NULL,
    Bookings,
    Phones,
    Sender,     \* the client's phone, in Phones
    Recipients, \* bound: whom a booking names first, in Phones
    Couriers,   \* bound: whom it names as the courier, in Phones
    Requests,   \* bound: requests under way at once
    MaxCodes,   \* bound: codes ever issued
    MaxTrouble  \* bound: messages that do not simply arrive

Purpose == {"deposit", "pickup"}

Stage == {"open", "inside", "collected", "removed", "cancelled"}

CodeIds == 1 .. MaxCodes

Rotation == {"rotate_deposit", "rotate_pickup", "transfer"}

(* send: the gateway accepts a message, which arrives or is lost; refuses  *)
(* it; or takes it and names no id, or the answer is lost: an error too.   *)
(* A message may as well arrive at once: what a phone knows it keeps.      *)
SmsOutcome == {"arrives", "accepted", "refused", "unsure"}

(* What the gateway was given, and what became of it.                      *)
Message == [phone : Phones, outcome : SmsOutcome]

(* What a request that holds the write lock has done so far.               *)
Sending ==
    [op : {"flushed"}, of : Rotation, booking : Bookings, asked : Phones \cup {NULL},
     phone : Phones, code : CodeIds]
    \cup [op : {"sent"}, of : Rotation, booking : Bookings, asked : Phones \cup {NULL},
          phone : Phones, code : CodeIds, outcome : SmsOutcome]

ASSUME CodesAssumption ==
    /\ {Sender} \cup Recipients \cup Couriers \subseteq Phones
    /\ NULL \notin Phones \cup Stage \cup Int \cup Requests \cup Message \cup Sending
    /\ MaxCodes \in Nat
    /\ MaxTrouble \in Nat

VARIABLES
    stage,      \* what bookings.status says of the door
    recipient,  \* bookings.recipient_phone
    courier,    \* bookings.courier_phone
    grants,     \* access_codes: booking, purpose and code
    rows,       \* the notification that carried a code: NULL, or its columns
    request,    \* requests under way
    lock,       \* the request that holds the write lock
    issued,     \* codes issued so far
    gateway,    \* the message with a code: to whom, and with what outcome
    known,      \* who knows a code: phone and code
    written,    \* history: codes that were committed
    lost        \* history: codes whose request died with the process

bookingVars == <<stage, recipient, courier>>
codeVars    == <<grants, rows>>
outside     == <<gateway, known, written, lost>>
vars        == <<bookingVars, codeVars, request, lock, issued, outside>>

Init ==
    /\ stage = [b \in Bookings |-> NULL]
    /\ recipient = [b \in Bookings |-> NULL]
    /\ courier = [b \in Bookings |-> NULL]
    /\ grants = {}
    /\ rows = [c \in CodeIds |-> NULL]
    /\ request = [r \in Requests |-> NULL]
    /\ lock = NULL
    /\ issued = 0
    /\ gateway = [c \in CodeIds |-> NULL]
    /\ known = {}
    /\ written = {}
    /\ lost = {}
-----------------------------------------------------------------------------
(* Transactions.                                                           *)

OVERTAKEN == [op |-> "overtaken"]

(* Only what a request has read can be overtaken.                          *)
Reading(r) == request[r] # NULL /\ request[r].op # "created"

(* A commit leaves every other snapshot too old to be written from.        *)
Overtaken(r) ==
    [x \in Requests |-> IF x = r THEN NULL
                        ELSE IF Reading(x) THEN OVERTAKEN ELSE request[x]]

Unlocked == lock = NULL

(* Anybody else commits anything.                                          *)
OtherWriter ==
    /\ Unlocked
    /\ \E r \in Requests : Reading(r) /\ request[r] # OVERTAKEN
    /\ request' = Overtaken(NULL)
    /\ UNCHANGED <<bookingVars, codeVars, lock, issued, outside>>

Refused(r) ==
    /\ request[r] = OVERTAKEN
    /\ request' = [request EXCEPT ![r] = NULL]
    /\ UNCHANGED <<bookingVars, codeVars, lock, issued, outside>>

(* Requests whose message may be out while their commit is not.            *)
InSending(r) == request[r] # NULL /\ request[r].op \in {"flushed", "sent"}

Crash ==
    /\ \E r \in Requests : request[r] # NULL
    /\ request' = [r \in Requests |-> NULL]
    /\ lock' = NULL
    /\ lost' = lost \cup {request[r].code : r \in {x \in Requests : InSending(x)}}
    /\ UNCHANGED <<bookingVars, codeVars, issued, gateway, known, written>>
-----------------------------------------------------------------------------
(* Codes.                                                                  *)

Grant(b, purpose, c) == [booking |-> b, purpose |-> purpose, code |-> c]

(* Mutant: the old code is left beside the new one.                        *)
IssueBeside(b, purpose, c) == grants \cup {Grant(b, purpose, c)}

(* issue_code: the code of a purpose is overwritten.                       *)
issue_code(b, purpose, c) ==
    {g \in grants : ~(g.booking = b /\ g.purpose = purpose)} \cup {Grant(b, purpose, c)}

(* find_code: what opens a door, as long as its booking holds the cell.    *)
find_code(c) == {g \in grants : g.code = c /\ stage[g.booking] \in {"open", "inside"}}

NewCode(c) == c = issued + 1 /\ c \in CodeIds /\ issued' = c

Learn(phone, c) == known \cup {<<phone, c>>}

Arrived(outcome) == outcome \in {"arrives", "unsure"}

Row(phone, outcome) ==
    [phone |-> phone, sent |-> outcome \in {"arrives", "accepted"},
     error |-> outcome \in {"refused", "unsure"}, delivered |-> FALSE]

Troubled == {c \in CodeIds : gateway[c] # NULL /\ gateway[c].outcome # "arrives"}

SendSms(c, phone, outcome) ==
    /\ outcome = "arrives" \/ Cardinality(Troubled) < MaxTrouble
    /\ gateway' = [gateway EXCEPT ![c] = [phone |-> phone, outcome |-> outcome]]
    /\ known' = IF Arrived(outcome) THEN Learn(phone, c) ELSE known

(* create_booking commits the booking with its deposit code.               *)
create_booking(r, b, to, by, c) ==
    /\ stage[b] = NULL
    /\ request[r] = NULL
    /\ Unlocked
    /\ NewCode(c)
    /\ stage' = [stage EXCEPT ![b] = "open"]
    /\ recipient' = [recipient EXCEPT ![b] = to]
    /\ courier' = [courier EXCEPT ![b] = by]
    /\ grants' = issue_code(b, "deposit", c)
    /\ request' = [Overtaken(NULL) EXCEPT ![r] =
                      [op |-> "created", booking |-> b, phone |-> by, code |-> c]]
    /\ written' = written \cup {c}
    /\ UNCHANGED <<rows, lock, gateway, known, lost>>

(* Without a courier nothing is left to write, and the sender is answered. *)
AnswerCreated(r) ==
    /\ request[r] # NULL /\ request[r].op = "created" /\ request[r].phone = NULL
    /\ known' = Learn(Sender, request[r].code)
    /\ request' = [request EXCEPT ![r] = NULL]
    /\ UNCHANGED <<bookingVars, codeVars, lock, issued, gateway, written, lost>>

(* A courier is sent the code in a second transaction, which has read.     *)
SendToCourier(r, outcome) ==
    /\ request[r] # NULL /\ request[r].op = "created" /\ request[r].phone # NULL
    /\ SendSms(request[r].code, request[r].phone, outcome)
    /\ request' = [request EXCEPT ![r] =
          [op |-> "told", booking |-> @.booking, phone |-> @.phone, code |-> @.code,
           outcome |-> outcome]]
    /\ UNCHANGED <<bookingVars, codeVars, lock, issued, written, lost>>

CommitCreated(r) ==
    /\ request[r] # NULL /\ request[r].op = "told"
    /\ Unlocked
    /\ rows' = [rows EXCEPT ![request[r].code] = Row(request[r].phone, request[r].outcome)]
    /\ known' = Learn(Sender, request[r].code)
    /\ request' = Overtaken(r)
    /\ UNCHANGED <<bookingVars, grants, lock, issued, gateway, written, lost>>
-----------------------------------------------------------------------------
(* Rotation and transfer.                                                  *)

Ask(r, op, b, phone) ==
    /\ request[r] = NULL
    /\ request' = [request EXCEPT ![r] = [op |-> op, booking |-> b, phone |-> phone]]
    /\ UNCHANGED <<bookingVars, codeVars, lock, issued, outside>>

(* The code goes to another courier, to the one there is, or to the sender.*)
rotate_deposit_code(r, b, to) ==
    /\ stage[b] = "open"
    /\ Ask(r, "rotate_deposit", b, to)

PickupCodeSent(b) == stage[b] \in {"inside", "collected", "removed"}

(* Asked for until the collection, also when staff have taken the parcel.  *)
rotate_pickup_code(r, b) ==
    /\ PickupCodeSent(b) /\ stage[b] # "collected"
    /\ Ask(r, "rotate_pickup", b, recipient[b])

transfer_pickup(r, b, to) ==
    /\ PickupCodeSent(b) /\ stage[b] # "collected"
    /\ to # recipient[b]
    /\ Ask(r, "transfer", b, to)

Target(r) ==
    IF request[r].op # "rotate_deposit" \/ request[r].phone # NULL THEN request[r].phone
    ELSE IF courier[request[r].booking] # NULL THEN courier[request[r].booking]
    ELSE Sender

(* Mutant: the message is sent on a snapshot, and the code written after.  *)
FlushLate(r, c) ==
    /\ request[r] # NULL
    /\ request[r].op \in Rotation
    /\ Unlocked
    /\ NewCode(c)
    /\ request' = [request EXCEPT ![r] =
          [op |-> "flushed", of |-> @.op, booking |-> @.booking, asked |-> @.phone,
           phone |-> Target(r), code |-> c]]
    /\ UNCHANGED <<bookingVars, codeVars, lock, outside>>

(* load_context flushes the new code: from here the write lock is held.    *)
Flush(r, c) ==
    /\ request[r] # NULL
    /\ request[r].op \in Rotation
    /\ Unlocked
    /\ NewCode(c)
    /\ lock' = r
    /\ request' = [request EXCEPT ![r] =
          [op |-> "flushed", of |-> @.op, booking |-> @.booking, asked |-> @.phone,
           phone |-> Target(r), code |-> c]]
    /\ UNCHANGED <<bookingVars, codeVars, outside>>

SendCode(r, outcome) ==
    /\ request[r] # NULL /\ request[r].op = "flushed"
    /\ SendSms(request[r].code, request[r].phone, outcome)
    /\ request' = [request EXCEPT ![r] =
          [op |-> "sent", of |-> @.of, booking |-> @.booking, asked |-> @.asked,
           phone |-> @.phone, code |-> @.code, outcome |-> outcome]]
    /\ UNCHANGED <<bookingVars, codeVars, lock, issued, written, lost>>

PurposeOf(op) == IF op = "rotate_deposit" THEN "deposit" ELSE "pickup"

Record(r) ==
    [rows EXCEPT ![request[r].code] = Row(request[r].phone, request[r].outcome)]

(* A rotation answers with the digits, a transfer does not.                *)
CommitCode(r) ==
    /\ request[r] # NULL /\ request[r].op = "sent"
    /\ LET b == request[r].booking
           op == request[r].of
       IN  /\ grants' = issue_code(b, PurposeOf(op), request[r].code)
           /\ recipient' = IF op = "transfer"
                           THEN [recipient EXCEPT ![b] = request[r].asked] ELSE recipient
           /\ courier' = IF op = "rotate_deposit" /\ request[r].asked # NULL
                         THEN [courier EXCEPT ![b] = request[r].asked] ELSE courier
           /\ known' = IF op = "transfer" THEN known ELSE Learn(Sender, request[r].code)
    /\ rows' = Record(r)
    /\ written' = written \cup {request[r].code}
    /\ lock' = NULL
    /\ request' = Overtaken(r)
    /\ UNCHANGED <<stage, issued, gateway, lost>>
-----------------------------------------------------------------------------
(* What happens to the booking meanwhile.                                  *)

(* The kiosk reports the deposit, and sends the code it is given.          *)
mark_deposited(b, c) ==
    /\ Unlocked
    /\ stage[b] = "open"
    /\ NewCode(c)
    /\ stage' = [stage EXCEPT ![b] = "inside"]
    /\ grants' = issue_code(b, "pickup", c)
    /\ written' = written \cup {c}
    /\ request' = Overtaken(NULL)
    /\ UNCHANGED <<recipient, courier, rows, lock, gateway, known, lost>>

KioskSends(b) ==
    /\ \E g \in grants : /\ g.booking = b /\ g.purpose = "pickup"
                         /\ rows[g.code] = NULL
                         /\ known' = Learn(recipient[b], g.code)
    /\ UNCHANGED <<bookingVars, codeVars, request, lock, issued, gateway, written, lost>>

(* Cancelled, collected, or taken out by staff.                            *)
BookingEnds(b, to) ==
    /\ Unlocked
    /\ \/ stage[b] = "open" /\ to = "cancelled"
       \/ stage[b] = "inside" /\ to \in {"collected", "removed"}
    /\ stage' = [stage EXCEPT ![b] = to]
    /\ request' = Overtaken(NULL)
    /\ UNCHANGED <<recipient, courier, codeVars, lock, issued, outside>>
-----------------------------------------------------------------------------
(* The gateway and its reports.                                            *)

(* The row with the id the gateway named; a report without one, or one     *)
(* that is faster than the commit of its row, is answered and forgotten.   *)
Matched(c) == {x \in {c} : rows[x] # NULL /\ rows[x].sent}

record_delivery(c) ==
    /\ Unlocked
    /\ gateway[c] # NULL
    /\ Matched(c) # {}
    /\ rows' = [x \in CodeIds |->
          IF x \notin Matched(c) THEN rows[x]
          ELSE IF Arrived(gateway[c].outcome) THEN [rows[x] EXCEPT !.delivered = TRUE]
          ELSE [rows[x] EXCEPT !.error = TRUE]]
    /\ request' = Overtaken(NULL)
    /\ UNCHANGED <<bookingVars, grants, lock, issued, outside>>
-----------------------------------------------------------------------------
RequestStep(r) ==
    \/ \E b \in Bookings, c \in CodeIds, to \in Recipients, by \in Couriers \cup {NULL} :
          create_booking(r, b, to, by, c)
    \/ AnswerCreated(r)
    \/ CommitCreated(r)
    \/ \E outcome \in SmsOutcome : SendToCourier(r, outcome) \/ SendCode(r, outcome)
    \/ \E b \in Bookings :
          \/ \E to \in Phones \cup {NULL} : rotate_deposit_code(r, b, to)
          \/ rotate_pickup_code(r, b)
          \/ \E to \in Phones : transfer_pickup(r, b, to)
    \/ \E c \in CodeIds : Flush(r, c)
    \/ CommitCode(r)
    \/ Refused(r)

BookingStep(b) ==
    \/ \E c \in CodeIds : mark_deposited(b, c)
    \/ KioskSends(b)
    \/ \E to \in Stage : BookingEnds(b, to)

Next ==
    \/ \E r \in Requests : RequestStep(r)
    \/ \E b \in Bookings : BookingStep(b)
    \/ \E c \in CodeIds : record_delivery(c)
    \/ OtherWriter
    \/ Crash

Spec == Init /\ [][Next]_vars
-----------------------------------------------------------------------------
(* Properties.                                                             *)

Concerned(b, purpose) == {Sender, IF purpose = "deposit" THEN courier[b] ELSE recipient[b]}

(* "The old grant stops working the moment the new one is minted", and     *)
(* "the person carrying the box still cannot collect it": whoever knows a  *)
(* code that opens a door is the sender or the person it is meant for now, *)
(* however rotations, transfers and late messages overlap.                 *)
OnlyTheConcernedKnow ==
    \A c \in CodeIds, phone \in Phones : <<phone, c>> \in known =>
        \A g \in find_code(c) : phone \in Concerned(g.booking, g.purpose)

(* A message is never ahead of the database: the code in it was committed, *)
(* or is about to be, or its request died with the process.                *)
NeverAhead(c) ==
    \/ c \in written
    \/ c \in lost
    \/ \E r \in Requests : InSending(r) /\ request[r].code = c

(* A code marked delivered is known to the phone on its row, one with an   *)
(* error and an id did not arrive, and without an id there is an error.    *)
RowIsTrue(c) ==
    /\ rows[c].delivered => <<rows[c].phone, c>> \in known
    /\ rows[c].sent /\ rows[c].error => ~Arrived(gateway[c].outcome)
    /\ rows[c].sent \/ rows[c].error

(* Whatever the gateway does, no message names a code that a rotation then *)
(* fails to write, and the row in notifications tells what became of it.   *)
MessageIsTrue ==
    \A c \in CodeIds :
        /\ gateway[c] # NULL => NeverAhead(c)
        /\ rows[c] # NULL => RowIsTrue(c)
=============================================================================
