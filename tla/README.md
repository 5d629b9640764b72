# poctamat: a verification project

A TLA+ model of the *poctamat* parcel-locker service (`src/backend`, a FastAPI
application on SQLite), the TLC configurations that check it on small instances
and TLAPS proofs of its main properties for every instance. Paths below are
relative to `src/` unless they are module names; `PROJECT.json` lists the source
lines behind every definition.

    tlc -workers 2 -config MCBookingStages.cfg MCBooking.tla     # one run
    tlapm Booking_proofs.tla                                     # one proof module

## 1. The system

A customer books a cell of a *postamat* (a locker bank) in a mobile application,
pays at a bank, deposits a parcel or has a courier do it, and a recipient collects
it with a code. Two background loops release unpaid holds and escalate parcels
that nobody collects. Staff watch a monitor, service cells, and take forgotten
parcels into custody. One process serves the API and runs the loops
(`backend/app/main.py`); all lasting state is in one SQLite database in WAL mode.

| Component | State | Operations | Interacts with | Hard behaviour | Correct means |
|---|---|---|---|---|---|
| Opening hours (`modules/catalog/service.py`) | weekly slots of a postamat | `is_open_at`, `next_opening_after`, `storage_expiry`; `_reachable` in the overdue worker | bookings at the deposit, overdue worker each tick | weekly wrap-around, closed days, instants on a boundary | a deadline is the first reachable instant; deadlines keep their order |
| Bookings (`modules/booking`) | status, cell, hold, stamps, expiry, extensions | create, extend, pay, fail, cancel, deposit, collect | everything | twelve statuses moved by five kinds of actors, on timers and by hand | nothing paid, deposited or collected out of order; no parcel without a booking to collect it by |
| Cells (`modules/catalog`, `api/admin/cells.py`) | owner postamat, blocked, maintenance | allocate, block, maintain, move | bookings | allocation races; administrators change what allocation reads | one booking per cell; no work on a held cell |
| Hold worker (`workers/holds.py`) | none of its own | cancel what has run out | bookings, payments | races the bank's callback | every hold ends |
| Overdue worker (`workers/overdue.py`) | `reminded_at`, `remove_after` | expire, grace, overdue, to_remove, remind | bookings, opening hours, notifications | opening hours change while a parcel waits; crash between commit and sending | every parcel moves on, none too early |
| Custody (`modules/custody`) | the act and its disposal date | file a removal, hand over, return, dispose | bookings | two clerks, an act racing a collection | act and booking tell one story; the waiting period is kept |
| Payments (`modules/payments`) | sessions at the bank | start, cancel, settle | bookings, bank | late, repeated, contradicting callbacks | money is credited once or flagged |
| Idempotency (`core/idempotency.py`) | one record per key | look up, run the handler, store | every POST | overlap of requests with one key, crash or failure between commits | one effect, one answer |
| Journal (`modules/audit`, `api/admin/realtime.py`, `api/admin/audit.py`) | journal; cursor of a stream, of a log screen; an export under way | append, poll, yield, resume; list a page, export | every state change; the store notes who has read | reconnection in the middle of a batch, bursts, snapshot of a long transaction, pages of a list that grows | nothing twice, nothing missing |
| Access codes (`modules/booking/codes.py`, `api/mobile/bookings.py`) | one grant per booking and purpose | issue, find, rotate, transfer | bookings, SMS | message sent inside an open transaction | a code that works is known to whom it is meant for |
| Notifications (`modules/notify`) | rows with delivery status, device tokens | record, deliver, delivery report | overdue worker, codes, SMS gateway, push provider | crash between two commits; answers lost; reports out of order | each reminder at most once, rows that tell the truth |
| Sign-in and tokens (`modules/identity`, `core/kvstore.py`) | one-time codes and attempts in the store, refresh tokens in the database | request, verify, refresh, revoke, block | every request | a store without transactions beside a database with them; attempts at their limit; a refresh used twice | codes hold out against guessing; a rotated or ended session never works again |
| Staff accounts (`modules/staff`) | administrators, roles, passwords | create, change, block, reset | sign-in | two owners demoting each other; a reset racing a login | one active owner remains |
| Catalogue (`api/admin/cells.py`, `postamats.py`, `cell_types.py`, `tariffs.py`, `api/public`, `core/storage.py`) | cells with board addresses, blocks, the price matrix, photographs and their files | create, bulk-create, change, block, replace prices, upload, delete, list | bookings copy from it while it changes | uniqueness that no index keeps; a row and a file in no common transaction; three places that compute what is free | what is offered is what can be had |
| Locker proxy and lock board (`server.py`, `locker_uart.py`) | none | relay a call, build a frame | nothing in the service | | |
| Dashboard (`modules/stats`, `api/admin/stats.py`) | none of its own | tiles, queue of what waits on a person, revenue | bookings, cells, payments | a third copy of the statuses that hold a cell; tiles that count bookings for cells | the figures are what the tables mean |
| Profile, framework glue, kiosk shell, migrations, scripts | none, or rows without a protocol | reading, CRUD | | | |

The kiosk terminal, the bank and the clients are not in the repository. They are
modelled by what `src/` lets them do and marked external in the map: the kiosk
calls `mark_deposited` and `mark_collected`, the bank ends a session and calls
back late, repeatedly or never, a client may send any request again, the SMS
gateway and the push provider accept, refuse or lose a message, or lose only their
answer.

### Why an action is a transaction

`core/db.py` issues `BEGIN` itself. A deferred transaction that read and then
writes commits only if nobody committed since its first read (SQLite refuses it
otherwise), and allocation takes the write lock before it reads. Code that reads,
decides and writes in one transaction is therefore one action of the modules, and
code that commits twice is two: this is why the idempotency middleware has three
phases, why an API handler that checks under one transaction and writes under
another is a hazard, and why the stream that never ends its transaction sees a
pinned snapshot.

`SignIn`, `Codes` and `Fleet` look closer, because there something outside the
database (the key-value store, a sent message, a file) is touched between reading
and committing. In them a handler is a step that reads and decides and a step that
commits; a commit marks the other requests that have read as `OVERTAKEN`, and all
these can do is end as `Refused` (an error 500), with whatever they did outside the
database left behind.

## 2. The modules

| Module | Models | State | Proofs |
|---|---|---|---|
| `Schedule` | opening hours and deadlines as functions | none | `Booking_proofs` |
| `Deadlines` | those functions against a search of the instants one by one | hours, clock | `Booking_proofs` |
| `CellLease` | what a cell promises: leased to one booking, ended only empty | holder, full | `Booking_proofs` |
| `Booking` (extends `Schedule`) | bookings, cells, both workers, custody, administration | columns of `bookings`, `cells`, `custody_records`, clock | `Booking_proofs` |
| `Payments` (extends `Booking`) | sessions, callbacks, settlement, composed with all of `Booking` | columns of `payments`, journal entries `payment.needs_attention`, the bank, who cancelled | `Payments_proofs` |
| `Dashboard` (extends `Payments`) | the figures of the panel's first page | none | `Payments_proofs` |
| `Idempotency` | requests that carry one key | place of each request, record, effects | `Idempotency_proofs` |
| `Reminders` | reminders between the overdue worker's two commits, and in the app's feed | stamps, rows, read marks, device tokens, the worker's memory, what devices got | `Reminders_proofs` |
| `Realtime` | one panel's stream, broken and resumed | journal, cursor, snapshot, batch, frames received | `Realtime_proofs` |
| `AuditLog` (extends `Realtime`) | the log screen and the CSV export over the same journal | hot window, pages, cursor, export, file | `Realtime_proofs` |
| `SignIn` | one-time codes, refresh tokens, staff accounts | the store's codes and windows, accounts, tokens, requests under way | `SignIn_proofs` |
| `Codes` | access codes, the messages they travel by, delivery reports | grants, notification rows, write lock, who knows which code | `Codes_proofs` |
| `Fleet` | cells, blocks, prices and photographs edited while a customer books | columns of `cells`, price matrix, photographs, files, requests under way | `Fleet_proofs` |

`MCBooking`, `MCPayments`, `MCIdempotency`, `MCReminders`, `MCRealtime`, `MCAuditLog`,
`MCSignIn`, `MCCodes` and `MCFleet` give the constants values
and symmetry sets. Definitions keep the source's names (`create_booking`,
`settle` as `SettleAgain`, `SettleRefusal` and `SettleSuccess`,
`free_cell_ids`, `CELL_HELD_STATUSES`, `run_escalation`, ...). Definitions marked
*Mutant* are wrong on purpose: each replaces its neighbour to show that a property
notices.

**Schedule.** An instant is a number of clock units; the day and the week have
constants for lengths, so that small weeks can be enumerated. The search of
`next_opening_after` over eight offsets is the set `Offsets`, its least member the
answer. `Reachable` is the rule `storage_expiry` and the worker's `_reachable`
share.

**Booking.** A column is a function from bookings or cells; `NULL` is None. Stamps
whose value nobody compares (`paid_at`, `deposited_at`, `reminded_at`,
`collected_at`) are members of a set. `release_expired_holds` and `run_escalation`
each move every due booking in one step, as their one commit does.
`held_cell_ids` looks at the booking's postamat and `free_cell_ids` at the cell's,
as the code does, so that `MoveCell` (`update_cell` with another postamat) makes
them disagree. Prices, sizes (one cell type), names, the timeline and journal texts,
access codes and messages are abstracted: no modelled decision reads them. The
check that the postamat is not blocked is left out of `create_booking`, which
only allows more bookings. Two guards are bounds: `now <= LastStart` and the
`Horizon` of the clock, which still runs while any deadline is ahead.

**Payments.** `start_payment`, `cancel_payment`, the bank's decision and the three
outcomes of `settle`. The bank is not told of a cancellation, as in the code. A
callback that is refused (signature, unknown id, amount) changes nothing and is
left out. `PaymentsNext` lets every step of `Booking` but the two that settle a
booking interleave. `byHand` keeps, of the actor of a `booking.cancelled` event, whether
it was a person or the holds worker (`system`).

**Dashboard.** `overview`, `attention_queue` and `revenue` are expressions over the
variables of `Booking` and `Payments`, as the queries are over their tables, and
change nothing. Every payment is of one amount, so that a sum is a count.
`revenue` takes a postamat or none. Terminals and the window of dates are left out.

**Idempotency.** `dispatch` for one (owner, key, scope): lookup, the handler's
commit, and storing the answer are steps; a crash ends every request under way, a
connection may drop after the store. The handler is any POST route with at most one
effect; `create_booking`, which commits the cell before it sends the courier's
code, shows how one fails behind its commit. Of its answer only whether it has a body
matters: an answer without one (`bodiless`, a 204) is recorded as `""`, which
`json.loads` then refuses (`Parsed`). `late` is a history variable.

**Realtime.** Entries are numbered by `(created_at, id)`. A poll reads the rows
after the cursor in the transaction's snapshot, at most `CATCH_UP_LIMIT`; the rows
go out one by one and the stream may break before any of them. The panel resumes
with the last id it saw, or starts from now. `since` is a history variable.

**AuditLog.** `build_query` keeps the entries of the hot window that pass the
filters; a page is its newest `Limit` below the cursor, and the cursor is the last
row shown when one more was found. Reading and exporting are on record: the entry
is written in the transaction that has read, so it is refused when the journal has
grown, and may be refused at any time because other commits count too
(`NoteRefused`, `ExportEnds`). The reader is put on a one-hour list in the store
*before* that commit. The export's body reads in a transaction of its own, which
pins its snapshot at the first batch, and finds the next batch by counting rows.
`export` and `page` hold what a request has in memory; `old` is the lower edge of
the hot window.

**Reminders.** A tick stamps the due bookings and records their rows in one
commit; `FindDevices`, one `Push` per device and `Settle` follow, and the process may die
before each of them. A push is one call to the provider, or two when the provider
turns down the bearer token and `_post` repeats with a new one. `stale` says that
somebody has committed since the second
transaction read, in which case its commit is `SettleRefused`. A push may be
accepted with its answer lost (`unsure`). Which bookings are due is left to
`Booking`; `got`, `again`, `crashed` and `refused` are history variables. `feed` is the
in-app row written beside the push, unread or read by somebody; `FeedOf` is the
filter by channel that keeps the push's row out of list, badge and read marks.

**SignIn.** The store (`code`, `resend`) changes at once and survives a refused
commit but not a crash; accounts and tokens change at commits. `issue_otp` puts the
code before the message and the commit; `VerifyRight` spends it before the account
is looked at; a token is minted by `CommitSignIn`, `CommitLogin` and
`rotate_refresh_token`. A token row remembers the session it belongs to (`chain`),
the code it came from (`via`) and the password it was typed with (`under`); the last
two, `guesses` and `ended` are history. Access tokens are not state: every request
reads its account again. The lifetime of refresh tokens and the per-address limit
are left out, since they only refuse.

**Codes.** `known` says which phone knows which code, as messages arrive and
answers are shown. A rotation or transfer reads (`Ask`), flushes the new code and
so takes the write lock (`Flush`), sends the message (`SendCode`) and commits
(`CommitCode`); creation commits first, then sends to the courier and commits the
message's row. A message arrives, is accepted and lost, is refused, or arrives with its
answer lost. Codes are numbered, so that two equal random codes are left out.
`written` and `lost` are history variables.

**Fleet.** `create_cell` looks for the hardware address and inserts in one
transaction; `bulk_create_cells` and a move do not look (`unchecked` marks such
cells). `create_booking` reads the postamat and the price in one transaction and
allocates in another, whatever has changed. `postamat_availability`,
`list_cells` and `list_postamats` are the three answers about what is free, each
computed its own way in the code. An upload writes the file, then the row; a
deletion the row, then the file. Of a booking it keeps what it copies from the
catalogue; blocked and maintenance are one flag, whose guards are in `Booking`.

## 3. The runs

| Run | Instance | Shows |
|---|---|---|
| `deadlines` | weeks of 3 days of 4 units, every schedule, every instant of 14, durations 0 to 5 | `ExpiryIsFirstReachable`, `DeadlinesKeepOrder` |
| `booking_stages` | 1 booking, the clock, three schedules that may be swapped at any time | `TypeOK`, `ParcelTraceable`, `CustodyMatchesBooking`, `FullWait`, `StepsInOrder`, and under fairness `HoldEnds`, `ParcelEscalates` |
| `payments` | 2 bookings competing for a cell that is blocked, serviced and moved between 2 postamats, 2 sessions | `FiguresAreTrue`, `OneUncancelledPayment`, `PaidByOnePayment`, `MoneyAccountedFor`, `SettledOnce`, `CellExclusive`, `MaintenanceIsEmpty`, refinement of `Booking` and of `CellLease` |
| `payments_money` | same, nothing moved or serviced | **violated:** `MoneyNeverDisappears` |
| `idempotency` | 3 requests, 2 bodies | `OneAnswer`, `LateIsSafe` |
| `idempotency_effect` | same | **violated:** `OneEffect` |
| `realtime` | journal of 5 entries about 2 postamats or none, batches and pages of 2, export in batches of 1, at most 3 rows | `InOrderOnce`, `NoGap`, `PagesAreWhole`, `ExportIsWhole` |
| `realtime_news` | journal of 2 | **violated:** `NewsArrive` |
| `reminders` | 2 bookings of 2 clients, 2 devices | `FeedIsWhole`, `AtMostOnce`, `RowTellsTruth`, `LookupStrandsNothing` |
| `signin` | 1 phone, 2 staff logins, 2 codes, 3 tokens, 2 requests at once, 3 attempts, 1 reset | `TypeOK`, `CodeHoldsOut`, `OneLinkLives`, `EndedStaysEnded`, `OwnerRemains`, `NoTokenForBlocked` |
| `codes` | 1 booking, sender and one other phone, 2 requests at once, 4 codes, 1 message in trouble | `OnlyTheConcernedKnow`, `MessageIsTrue` |
| `fleet` | 2 postamats, sizes, durations, cells, numbers and addresses, 1 booking, 1 request at a time, 2 edits | `TypeOK`, `AddressesDistinct`, `OfferIsHonest`, `NoRowWithoutFile` |

The smallest passing run is `idempotency` (6,821 distinct states); `payments` has
148 thousand, `fleet` 282 thousand, `reminders` 329 thousand, `realtime` 380 thousand
and `codes` 733 thousand.

Some configurations say `CHECK_DEADLOCK FALSE`, because their instance may really
stop: in `Deadlines` the clock reaches its bound, in `Idempotency` every request is
over, in `SignIn` codes and tokens are used up, in `Codes` codes run out, in
`Fleet` edits and cells do. The other models never stop,
because somebody can always still act, and are checked for it.

*Why these bounds are enough to be interesting.* The week of three days has a day
off on either side of an open one and a slot that ends at midnight's last unit;
the durations cross midnight, a whole day and the week. Two bookings are the
fewest that can collide in a cell, and a second postamat gives `MoveCell` somewhere
to create a disagreement; which booking comes first, and which postamat, is
irrelevant (symmetry). In `booking_stages` one extension, both grace periods, the
removal delay and the disposal wait are each at least one unit, so an early step
is observable; `Horizon` lets the longest path, ended by a schedule change that
closes the postamat for good, finish before the clock may stop. Two sessions per
booking are needed for a cancelled session charged behind a second one, and no hold is
extended in `payments`, since `booking_stages` covers extensions; three requests for
an overlap followed by a late retry; a journal of five with batches of two for an
interrupted batch followed by another full one, and for a second page while the
list grows. Each behaviour of `realtime` has one kind of reader (`Sides`), as the
readers share nothing but the journal.

In `signin` two requests are what overlaps, three tokens a session that is rotated
while another begins, three attempts a code with one left. Clients and staff share
only the token table, so a behaviour has one or the other (`Casts`). Four codes are
a deposit code, a pickup code and two rotations that overlap; one phone besides the
sender's is recipient, courier or neither as the bookings go on. In `fleet` the
other transaction that a refusal needs is an edit or a bulk creation; a behaviour has edits of one kind, to
cells, to what is on sale, or to photographs (`Shifts`), while bookings go on in all
of them; two edits are a move and a move back, or a move and a block. Prices that
the public page needs are all set at first, and where prices or photographs are edited,
cells come from bulk creation.

*Fairness.* `Booking!FairSpec` assumes that time passes and that both workers
keep ticking: `main.py` starts one loop for each that catches the exceptions of a
tick and goes on. Nothing is assumed of customers, staff, the bank or the kiosk.
`Realtime!FairSpec` assumes that an open stream's loop goes on polling and
yielding. Liveness is checked without symmetry.

## 4. What the code does not do

The violated runs are disagreements between the code and what it says of itself:

* **`MoneyNeverDisappears`**: a charge on a session the customer cancelled in the
  meantime is answered 200 and leaves no trace. `MoneyAccountedFor` is the promise
  with that exception and the one below (*Money*), and holds.
* **`OneEffect`**: nothing reserves an idempotency key while its handler runs, so
  two overlapping requests with one key, and a retry after a failure or crash behind the
  handler's commit, take effect twice. What does hold is that nobody is told two
  different stories (`OneAnswer`) and that a retry after an answer is safe
  (`LateIsSafe`).
* **`NewsArrive`**: a stream keeps one transaction for its life, which in WAL mode
  pins the snapshot of its first query: later entries do not reach it until it
  reconnects. What it does send is complete and in order (`NoGap`, `InOrderOnce`).

Others have no run of their own. Each can be read off the module named.

*Deadlines and reminders* (`Booking`, `Schedule`, `Reminders`).
`README.md:149` says that the grace period does not burn while the postamat is
closed; `run_escalation` pushes only its end to an opening, so a period may contain
no open instant at all. `next_opening_after` promises an instant *at or after* the
moment and skips an opening exactly at it; its callers ask only when the postamat is
closed, where the two agree. The worker's second transaction
(`backend/app/workers/overdue.py:189`) reads device tokens, calls the provider and
then writes; whoever commits in between has it refused, and the batch is left with
neither `sent_at` nor `error`, the state `backend/app/modules/notify/service.py:260`
avoids for a failed lookup. `LookupStrandsNothing` holds with that exception and with
crashes.

*Money* (`Payments`, `Dashboard`). `README.md:195-200`, and ruling Q1 behind it
(`.superpowers/sdd/2026-08-17-postamat-payments-custody/progress.md:9-12`), name two
cases of money without a service that are to be written down as
`payment.needs_attention` and to surface in the operator's work queue: a charge for a
booking already released, and a booking that is paid and then cancelled before the
deposit. The code writes the entry for the first only. `cancel`
(`backend/app/modules/booking/service.py:340`) and the routes that call it
(`backend/app/api/mobile/bookings.py:216`, `backend/app/api/admin/bookings.py:79`)
write none for the second: pay, be credited, cancel, and the only traces are `paid_at` and the
ordinary entry of a cancellation. And the queue (`attention` in
`backend/app/modules/stats/service.py:82`) has no money item, so that even
the first case is in the journal alone. `MoneyAccountedFor` therefore exempts a booking
that a *person* cancelled after it was paid, by name (`byHand`). What it does say
is that nothing else ends in such a state: no hold that runs out, no second
callback and no grace period cancels a booking whose money is credited.

*Retries* (`Idempotency`). A keyed POST that answers 204 (the two logouts,
`backend/app/api/mobile/auth.py:79` and `backend/app/api/admin/auth.py:70`) commits its
record and then fails in `json.loads("")` (`backend/app/core/idempotency.py:206-208`), as does
every retry that finds the record (line 183): the logout has happened, and the client is
answered 500 for as long as it repeats the key. Nobody is told a success on such a
route, so `OneAnswer` and `LateIsSafe` say nothing about it.

*Sign-in* (`SignIn`). `postbox-contract/openapi.yaml:254` and
`postbox-contract/API-01.md:61-62` promise that presenting a used refresh token
revokes the whole family; the code answers 401 and leaves the family's live link alone,
so whoever holds that link keeps the session. `OneLinkLives` is true either way. The attempt that
reaches `otp_max_attempts` is refused without being compared, though the answer before it says that one is left. A code is
spent although the sign-in's commit is refused, and an SMS is out although the
commit of `issue_otp` is. A logout that names a rotated token answers 204 while the
session lives on in its successor. `TEMPORARY_PASSWORD_HOURS` and
`must_change_password` are announced and enforced nowhere. Access tokens outlive a
reset until they expire.

*Codes* (`Codes`). `find_code` reads neither `expires_at` nor the purpose, and
`used_at` is never set; what ends a code is its booking, or the next code.
`issue_code` does not look for the same digits at the postamat. A pickup code may
be rotated after staff have removed the parcel. A courier's message row is lost when
the commit behind it is refused, a report that overtakes the commit of its row is
answered and forgotten. Reports out of order overwrite one another, which
`MessageIsTrue` does not cover: a message here has one outcome. The resend
window is used up also when the rotation is refused. `postbox-contract/API-01.md:495` says that
rotating a pickup code returns no digits; the code returns them once to the sender, as
`postbox-contract/openapi.yaml:1634-1674` asks, which is why the sender counts among the concerned in
`OnlyTheConcernedKnow`.

*Catalogue* (`Fleet`). `create_booking` does not look at `cell_types.is_blocked`,
and decides on a postamat's block and price before the transaction that allocates. A
held cell that is moved makes its size look sold out at the new postamat and may
make a postamat's card count more occupied cells than it has: both are the exceptions in
`OfferIsHonest`. Creating in bulk and moving do not compare hardware addresses,
which is the exception in `AddressesDistinct`. The monitor shows an overdue parcel
as *booked* while the card counts its cell as occupied. `list_cells` filters by status after it has
cut the page. Ending maintenance clears the reason of a block. A refused upload or
a crash leaves a file without a row; never a row without its file.

*Dashboard* (`Dashboard`). The comment at
`backend/app/modules/stats/service.py:31` calls `booked` *paid-for and empty*; the tile
counts unpaid holds too. Utilization divides the bookings made at a postamat by the
cells it has now, which differ once a cell has been moved. `group_by` is accepted
and ignored.

*Journal* (`AuditLog`). `backend/app/api/admin/audit.py:37` says that reading the
log must leave a trace; the mark that it has done so this hour is set before the
commit (line 149), so after a refused one the next page is read without a trace. The
snapshot that starves the stream is what keeps the export's offsets right
(`ExportIsWhole`): counted rows do not shift, and the entry about the export comes on
top of `EXPORT_MAX_ROWS`.

## 5. The proofs

TLAPS checks these for all values of the constants that satisfy the modules'
named assumptions: lengths are natural numbers; `NULL` is none of the values it is
used beside; the cells serviced are cells; what is counted (bookings, cells, sessions)
is finite, as rows of a table are. Every invariant, action property and
refinement that a passing run checks is also proved.

**Deadlines** (`Booking_proofs`).

* `ReachableNotBefore`: pushing a deadline never makes it earlier. It rests on the
  existence of a least offset in a non-empty set of naturals.
* `ExpiryIsFirst`: the search of `next_opening_after` over eight days finds the first
  open instant, for any lengths of day and week, any slots, instant and
  duration. Where an open instant lies at most a week ahead, the opening of its day is
  an offset the search looks at (`OpeningBefore`); one on the day after that has
  the weekday of tomorrow, so tomorrow's opening is found instead (`NoOpening`); and
  a smaller offset is an earlier opening (`FirstOpening`).
* `DeadlinesOrdered`: what is first after a later instant cannot be before what is
  first after an earlier one (`ReachableOrder`).

**Bookings** (`Booking_proofs`).

* `TypeCorrect`. `TypeInv` adds to `TypeOK` that a booking that exists has a cell,
  postamat and duration (`RowsFilled`): without it `storage_expiry` would be applied to
  nothing.
* `CellsExclusive` and `MaintainedCellsEmpty`. The lemma `Shapes` reduces every
  action to one of the few ways in which it touches status and cell (`Shape`):
  created, stored, taken out, given up by several at once, or quiet. Exclusion is then
  inductive because only a creation adds a holder, and the index admits it.
* `ParcelsTraceable`, `CustodyAgrees`, `StepsOrdered` from `StoryInv`, which ties
  each status to the stamps and the act that may go with it (`Story`): none of
  the three is inductive on its own.
* `FullWaits` from `WaitInv`: being overdue implies that both grace periods have
  passed, whatever the schedule was at each tick (by `ReachableNotBefore`),
  `remove_after` is at least the removal delay behind it, the disposal date behind
  that.
* `ImplementsCellLease`: `Spec => LeaseSpec`. The mapping takes a cell to its holder
  and to whether a parcel is inside; exclusivity makes the holder unique,
  traceability makes a full cell held. Creating maps to a lease, a deposit to
  putting in, a collection or act of removal to taking out, cancelling, failing
  and the hold worker's sweep to giving up a set of empty cells, and every other step
  to a stutter.

**Money and figures** (`Payments_proofs`). `PaymentsImplementBooking` (so every
theorem of `Booking` holds with payments around it), `PaymentsTypeCorrect`,
`CallbacksApplyOnce`, and from `LedgerInv` (a settled payment's booking no longer waits,
an answered one is no longer live, a paid stamp exists exactly with a credited payment)
`OnePayment` and `PaidOnce`. `MoneyAccounted` adds `HandInv`: a paid booking that is
cancelled was cancelled by hand, since the worker's sweep takes only
bookings that wait for payment, and a credited one no longer does. `DashboardTrue`: the tiles and the revenue
are counted two ways, which agree because of what is proved already (`FiguresInv`):
exclusion makes a count of bookings a count of cells, the story of a booking makes
"occupied" mean that a parcel is inside, and the ledger makes a paid booking one payment.

**Retries** (`Idempotency_proofs`). `TypeCorrect`, `AnswersAgree`, `RetriesSafe`, from
an invariant that says for each place a request can be in what its result, its
effect and the record are, and that what could be said once can be said again: whether
an answer has a body does not change between the first time and a retry.

**Reminders** (`Reminders_proofs`). `TypeCorrect`, `RemindersOnce`, `RowsTrue`,
`OnlyCrashOrRefusalStrands`. The invariant says of every row in the worker's hands that
it is recorded, that no device still to be called has been given it, and that its
memory of being sent is true (`InHand`). `FeedWhole` adds `FeedInv`: a booking has its
in-app row exactly when it was reminded, and whoever has read it is its owner; badge,
list and read marks then follow, as the row of the push is never in the feed.

**Journal** (`Realtime_proofs`). `TypeCorrect`, `FramesInOrder`, `NothingSkipped`. The
invariant is `Caught`: everything asked for up to the cursor has been sent or is
in the batch, and the batch is newer than the last id. A poll keeps it because a
limited batch is closed downwards (`RowsClosed`). `StreamUndisturbed`: `AuditSpec => Spec`,
so the three hold with the log screen and the export around the stream.
`PagesWhole` from `ScreenInv`: a page in hand still continues what is shown, however the
journal grows and the hot window moves, because both only change what is newer than the
cursor or older than what is on show. `ExportWhole` from `ExportInv`: the file is the
newest part of what its pinned snapshot sees, so skipping as many rows as the file has
lands exactly behind its last one.

**Sign-in** (`SignIn_proofs`). `TypeCorrect`, `CodesHoldOut`, `OneLink`, `EndedForGood`,
`AnOwnerRemains`, `BlockedGetNone`. None follows from the step alone. What makes them
inductive is the argument of optimistic transactions, `Seen`: whatever a request has
read is still true until another commit overtakes it, and an overtaken one cannot
commit. Codes are the exception, since the store is outside the transactions: there the
argument is that a spent code is in the hands of one request at most (`Exchanging`) and
that the recorded attempts are the guesses made (`GuessInv`).

**Access codes** (`Codes_proofs`). `NobodyElseKnows` and `MessagesAreTrue`. A rotation
sends its message before it commits, which is safe because the flush before it has
taken the write lock: nobody else commits until it has, so the phone it was addressed
to is still the right one when the code is written (`SendingInv`), and until then the
code opens nothing. A first code goes out after its commit, with no lock; there the
argument is that whoever replaces the courier replaces the code as well
(`CourierInv`). `KnowInv` is about codes that work; `Apart` says that no two requests
carry the same one.

**Catalogue** (`Fleet_proofs`). `TypeCorrect`, `DoorsApart`, `OfferHonest`, `FilesThere`.
`CreateInv`: a cell under way found its output unused and it still is, as every commit
overtakes it. `LeaseInv`: a live booking has its cell to itself, without which the card's
count of bookings would not be a count of cells. `GalleryInv`: a key that is being
uploaded or removed is in nobody else's hands, so that no file is unlinked under a row.
The first attempt at `OfferHonest` failed on the operator `Status`, a `CASE` whose
guards overlapped and so did not say that a block outranks a booking, which the order of
returns in `_status` does; it is now a chain of `IF`s. TLC had always taken the first
guard and could not notice.

*Only model-checked:* liveness (`HoldEnds`, `ParcelEscalates`): fairness and `ENABLED`
are beyond the prover. The three violated properties are refuted by TLC, which is all
there is to show. The types of `Idempotency`, `Realtime`, `Payments` and `Reminders`
are proved and have no run.

Worth proving next: abstract specifications of `SignIn` (a session as a chain with one
live link), `Codes` (a grant with one code) and `Idempotency` (a key answered once), and that
those modules implement them.

## 6. Not modelled

* **Locker proxy** (`server.py`): a stateless relay that repeats an upstream call up
  to five times. It stands apart: no call in the service reaches it, and
  opening a cell remotely answers 503 (`backend/app/api/admin/cells.py`).
* **Lock board** (`locker_uart.py`): a manual bench tool on a Windows serial
  port that nothing calls; frames of a few bytes and a checksum. Its board and output
  numbers are what `Fleet` calls an address.
* **Series by the day, utilization, peak hours and recent lists**: they group
  bookings by when they were created, and no decision reads them. **In-app rows of
  occasions other than the reminder**: written in the transaction of the change they
  tell of, and read by the same queries. **Names and language**: one client's own
  row.
* **CRUD of postamats, cities, sizes and durations, and provisioning codes of
  terminals**: rows with uniqueness that the schema keeps.
* **Timeline and journal texts, prices and amounts, wording of messages and
  errors, settings, application factory**: no modelled decision reads them.
* **Per-address and per-phone limits**: they only refuse requests, before anything
  else happens.
* **Kiosk shell, migrations, scripts, contract checks**: outside the running
  service.
* **SQLite itself**: the refusal of a late writer is assumed as `core/db.py`
  describes it; the exclusion of two writers is a guard (`Unlocked`) or an action's
  atomicity.
