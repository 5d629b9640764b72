------------------------------- MODULE Fleet --------------------------------
(***************************************************************************)
(* The catalogue that bookings draw on, as operators edit it while         *)
(* customers book: cells and their lock-board addresses                    *)
(* (app/api/admin/cells.py), postamats with their photographs              *)
(* (postamats.py, app/core/storage.py), sizes (cell_types.py), the price   *)
(* matrix (tariffs.py), the public availability page                       *)
(* (app/api/public/postamats.py) and both transactions of a booking's      *)
(* creation.                                                               *)
(*                                                                         *)
(* A handler that reads, and writes in the same transaction, is refused    *)
(* when anybody has committed in between (core/db.py).  Where the reading  *)
(* decides something it is a step of its own; elsewhere the handler is one *)
(* action.  Of a booking this module keeps what it copies from the         *)
(* catalogue; the rest of its life is in Booking, and so are the two flags *)
(* that take a cell out of service, here one.  There is one city, prices   *)
(* are left out, and a board and its output are one address.               *)
(***************************************************************************)
EXTENDS Integers, FiniteSets, Sequences

CONSTANTS
    NULL,
    Postamats,
    Sizes,      \* cell types
    Durations,  \* rental_durations
    Cells,      \* cell ids
    Numbers,    \* bound: the labels on doors
    Addresses,  \* bound: board outputs
    Capacity,   \* bound: squares of the grid a cabinet is filled in
    Keys,       \* keys of stored files
    Bookings,
    Requests,   \* bound: requests under way at once
    Shifts,     \* bound: the kinds of edits that one behaviour mixes
    MaxEdits    \* bound: edits, apart from creating cells

Row == [at : Postamats, size : Sizes, number : Nat, address : Nat, serving : BOOLEAN]

Stage == {"booked", "inside", "late", "over"}

ASSUME FleetAssumption ==
    /\ NULL \notin Postamats \cup Sizes \cup Cells \cup Keys \cup Bookings \cup Nat \cup Row
    /\ IsFiniteSet(Cells) /\ IsFiniteSet(Bookings)
    /\ Numbers \subseteq Nat /\ Addresses \subseteq Nat
    /\ Capacity \in Nat /\ MaxEdits \in Nat

VARIABLES
    cell,       \* cells: a row, or NULL
    closed,     \* postamats with status blocked
    retired,    \* cell_types.is_blocked
    tariff,     \* pairs of a size and a duration that have a price
    booking,    \* bookings: what they copied from the catalogue
    photo,      \* postamat_photos.storage_key
    files,      \* files under media_root
    request,    \* requests under way
    shift,      \* one of Shifts
    edits,      \* what operators did so far
    unchecked   \* history: cells that got their address without a look around

cellVars    == <<cell, unchecked>>
saleVars    == <<closed, retired, tariff>>
galleryVars == <<photo, files>>
vars        == <<cellVars, saleVars, booking, galleryVars, request, shift, edits>>

(* TariffWrite: what a price can be set for.                               *)
Priceable == Sizes \X Durations

(* Every duration of a size that is priced has a price.                    *)
Matrices ==
    {matrix \in SUBSET Priceable :
        \A item \in matrix : \A d \in Durations : <<item[1], d>> \in matrix}

(* An empty fleet, with all prices set.                                    *)
Init ==
    /\ cell = [c \in Cells |-> NULL]
    /\ closed = {}
    /\ retired = {}
    /\ tariff = Priceable
    /\ booking = [b \in Bookings |-> NULL]
    /\ photo = {}
    /\ files = {}
    /\ request = [r \in Requests |-> NULL]
    /\ shift \in Shifts
    /\ edits = 0
    /\ unchecked = {}
-----------------------------------------------------------------------------
(* Transactions.                                                           *)

OVERTAKEN == [op |-> "overtaken"]

Begin(r, call) == request[r] = NULL /\ request' = [request EXCEPT ![r] = call]

Under(r, op) == request[r] # NULL /\ request[r].op = op

(* A booking's creation has ended its first transaction, a deletion its    *)
(* only one: neither holds a snapshot.                                     *)
Reading == {r \in Requests : request[r] # NULL /\ request[r].op \notin {"book", "unlink"}}

Edit(kind) ==
    /\ kind \in shift
    /\ edits < MaxEdits
    /\ edits' = edits + 1
    /\ UNCHANGED shift

Overtaken(r, then) ==
    [x \in Requests |-> IF x = r THEN then
                        ELSE IF x \in Reading THEN OVERTAKEN ELSE request[x]]

(* Commits in a transaction of nobody's in Requests.                       *)
CommitAtOnce == request' = Overtaken(NULL, NULL)

CommitOf(r, op) == Under(r, op) /\ request' = Overtaken(r, NULL)

Refused(r) ==
    /\ Under(r, "overtaken")
    /\ request' = [request EXCEPT ![r] = NULL]
    /\ UNCHANGED <<cellVars, saleVars, booking, galleryVars, shift, edits>>

Crash ==
    /\ \E r \in Requests : request[r] # NULL
    /\ request' = [r \in Requests |-> NULL]
    /\ UNCHANGED <<cellVars, saleVars, booking, galleryVars, shift, edits>>
-----------------------------------------------------------------------------
(* Cells.                                                                  *)

Built == {c \in Cells : cell[c] # NULL}

At(p) == {c \in Built : cell[c].at = p}

(* _hardware_taken, for a cell that stands or would stand at p             *)
HardwareTaken(c, p, address) == \E other \in At(p) \ {c} : cell[other].address = address

(* uq_cell_number                                                          *)
NumberTaken(c, p, n) == \E other \in At(p) \ {c} : cell[other].number = n

NewCell(p, s, n, address) ==
    [at |-> p, size |-> s, number |-> n, address |-> address, serving |-> TRUE]

create_cell(r, p, s, n, address) ==
    /\ ~HardwareTaken(NULL, p, address)
    /\ Begin(r, [op |-> "create", row |-> NewCell(p, s, n, address)])
    /\ UNCHANGED <<cellVars, saleVars, booking, galleryVars, shift, edits>>

(* The number is left to the unique constraint, which refuses the insert.  *)
CommitCreate(r, c) ==
    /\ c \notin Built
    /\ Under(r, "create")
    /\ IF NumberTaken(c, request[r].row.at, request[r].row.number)
       THEN /\ request' = [request EXCEPT ![r] = NULL]
            /\ UNCHANGED cell
       ELSE /\ CommitOf(r, "create")
            /\ cell' = [cell EXCEPT ![c] = request[r].row]
    /\ UNCHANGED <<unchecked, saleVars, booking, galleryVars, shift, edits>>

(* A whole cabinet, door after door: numbers and addresses count up from   *)
(* the first.  One number taken refuses all of it; addresses are not       *)
(* looked at.  cs are the ids of the new rows, ss their sizes.             *)
bulk_create_cells(p, cs, ss, n, address) ==
    /\ Len(ss) <= Capacity
    /\ Len(cs) = Len(ss)
    /\ \A i, j \in DOMAIN cs : cs[i] = cs[j] => i = j
    /\ \A i \in DOMAIN cs : cs[i] \notin Built /\ ~NumberTaken(cs[i], p, n + i - 1)
    /\ cell' = [c \in Cells |->
          IF \E i \in DOMAIN cs : cs[i] = c
          THEN LET i == CHOOSE i \in DOMAIN cs : cs[i] = c
               IN  NewCell(p, ss[i], n + i - 1, address + i - 1)
          ELSE cell[c]]
    /\ unchecked' = unchecked \cup {cs[i] : i \in DOMAIN cs}
    /\ CommitAtOnce
    /\ UNCHANGED <<saleVars, booking, galleryVars, shift, edits>>

(* _apply_write: a field that is not sent, or sent unchanged, keeps its    *)
(* value.  Only of the address does it matter which.                       *)
Written(c, p, s, n, address) ==
    [cell[c] EXCEPT !.at = p, !.size = s, !.number = n,
                    !.address = IF address = NULL THEN @ ELSE address]

(* Mutant: the address is compared where the cell stood.                   *)
AddressAllowedThere(c, p, address) ==
    address # NULL => ~HardwareTaken(c, cell[c].at, address)

(* The address is compared only when it is sent, where the cell will stand.*)
AddressAllowed(c, p, address) ==
    address # NULL => ~HardwareTaken(c, p, address)

update_cell(c, p, s, n, address) ==
    /\ c \in Built
    /\ Edit("cells")
    /\ AddressAllowed(c, p, address)
    /\ LET new == Written(c, p, s, n, address)
       IN  /\ ~NumberTaken(c, new.at, new.number)
           /\ new # cell[c]
           /\ cell' = [cell EXCEPT ![c] = new]
           /\ unchecked' = IF address # NULL THEN unchecked \ {c}
                           ELSE IF new.at # cell[c].at THEN unchecked \cup {c}
                           ELSE unchecked
    /\ CommitAtOnce
    /\ UNCHANGED <<saleVars, booking, galleryVars>>

(* Blocking, unblocking, maintenance: Booking has the guards.              *)
SetServing(c, on) ==
    /\ Edit("cells")
    /\ c \in Built
    /\ cell[c].serving # on
    /\ cell' = [cell EXCEPT ![c].serving = on]
    /\ CommitAtOnce
    /\ UNCHANGED <<unchecked, saleVars, booking, galleryVars>>
-----------------------------------------------------------------------------
(* Postamats, sizes and prices.                                            *)

block_postamat(p) ==
    /\ Edit("sale")
    /\ closed' = closed \cup {p}
    /\ CommitAtOnce
    /\ UNCHANGED <<cellVars, retired, tariff, booking, galleryVars>>

unblock_postamat(p) ==
    /\ Edit("sale")
    /\ closed' = closed \ {p}
    /\ CommitAtOnce
    /\ UNCHANGED <<cellVars, retired, tariff, booking, galleryVars>>

(* Bookings whose status is not one of FINISHED_STATUSES.                  *)
Alive == {b \in Bookings : booking[b] # NULL /\ booking[b].stage # "over"}

block_cell_type(s) ==
    /\ Edit("sale")
    /\ \A b \in Alive : booking[b].size # s
    /\ retired' = retired \cup {s}
    /\ CommitAtOnce
    /\ UNCHANGED <<cellVars, closed, tariff, booking, galleryVars>>

unblock_cell_type(s) ==
    /\ Edit("sale")
    /\ retired' = retired \ {s}
    /\ CommitAtOnce
    /\ UNCHANGED <<cellVars, closed, tariff, booking, galleryVars>>

(* Mutant: durations may be left without a price.                          *)
ReplaceUnchecked(matrix) ==
    /\ Edit("sale")
    /\ tariff' = matrix
    /\ CommitAtOnce
    /\ UNCHANGED <<cellVars, closed, retired, booking, galleryVars>>

(* The matrix is replaced whole, by one that is complete.                  *)
replace_tariffs(matrix) ==
    /\ Edit("sale")
    /\ matrix \in Matrices
    /\ tariff' = matrix
    /\ CommitAtOnce
    /\ UNCHANGED <<cellVars, closed, retired, booking, galleryVars>>
-----------------------------------------------------------------------------
(* What is for sale.                                                       *)

(* Mutant: only bookings of the size asked for hold a cell.                *)
HeldOfSize(p, s) ==
    {booking[b].cell : b \in {x \in Alive : booking[x].at = p /\ booking[x].size = s}}

(* _held_cell_ids, by the postamat the booking was made at                 *)
Held(p, s) == {booking[b].cell : b \in {x \in Alive : booking[x].at = p}}

usable_cells(p) == {c \in At(p) : cell[c].serving}

free_cell_ids(p, s) == {c \in usable_cells(p) : cell[c].size = s} \ Held(p, s)

(* uq_active_booking_per_cell: the cells that are held.                    *)
Leased == {booking[b].cell : b \in Alive}

(* Blocked postamats are invisible to customers.                           *)
Visible == Postamats \ closed

(* cell_ids_by_type                                                        *)
Pools(p) == {cell[c].size : c \in usable_cells(p)}

(* Sizes on the page of a visible postamat, with the count of free cells.  *)
postamat_availability(p) ==
    [s \in Pools(p) \ retired |-> Cardinality(free_cell_ids(p, s))]

FirstDoor(cs) == CHOOSE c \in cs : \A other \in cs : cell[c].number <= cell[other].number

(* The first free door; refused by the index, it counts as sold out.       *)
Allocation(p, s) ==
    LET free == free_cell_ids(p, s)
    IN  IF free = {} \/ FirstDoor(free) \in Leased THEN NULL ELSE FirstDoor(free)

(* The first transaction looks at the postamat and at the price, not at    *)
(* whether the size is blocked.                                            *)
create_booking(r, p, s, d) ==
    /\ p \notin closed
    /\ <<s, d>> \in tariff
    /\ Begin(r, [op |-> "book", at |-> p, size |-> s])
    /\ UNCHANGED <<cellVars, saleVars, booking, galleryVars, shift, edits>>

(* The second allocates, under the write lock, whatever has changed.       *)
Allocate(r, b) ==
    /\ Under(r, "book")
    /\ booking[b] = NULL
    /\ LET p == request[r].at
           s == request[r].size
           c == Allocation(p, s)
       IN  IF c = NULL
           THEN /\ request' = [request EXCEPT ![r] = NULL]
                /\ UNCHANGED booking
           ELSE /\ CommitOf(r, "book")
                /\ booking' = [booking EXCEPT ![b] =
                      [cell |-> c, at |-> p, size |-> s, stage |-> "booked"]]
    /\ UNCHANGED <<cellVars, saleVars, galleryVars, shift, edits>>

(* The deposit, the end of storage, and the end of the booking.            *)
BookingMoves(b, stage) ==
    /\ b \in Alive
    /\ \/ stage = "over"
       \/ stage = "inside" /\ booking[b].stage = "booked"
       \/ stage = "late" /\ booking[b].stage = "inside"
    /\ booking' = [booking EXCEPT ![b].stage = stage]
    /\ CommitAtOnce
    /\ UNCHANGED <<cellVars, saleVars, galleryVars, shift, edits>>
-----------------------------------------------------------------------------
(* The operators' panel.                                                   *)

LiveBooking(c) == {b \in Alive : booking[b].cell = c}

(* An operator's decision outranks whatever a booking says.                *)
Status(c) ==
    IF ~cell[c].serving THEN "blocked"
    ELSE IF LiveBooking(c) = {} THEN "free"
    ELSE IF \E b \in LiveBooking(c) : booking[b].stage = "inside" THEN "occupied"
    ELSE "booked"

(* The monitor's rows.                                                     *)
with_state_page(cs) == {[cell |-> c, status |-> Status(c)] : c \in cs}

(* Its table, filtered by postamat and then by the status computed.        *)
list_cells(p, wanted) == {row \in with_state_page(At(p)) : row.status \in wanted}

(* OCCUPYING_STATUSES: a parcel is inside.                                 *)
Occupying == {b \in Alive : booking[b].stage \in {"inside", "late"}}

(* How many of a postamat's cells are occupied, of how many.               *)
Counts(p) ==
    [occupied |-> Cardinality({b \in Occupying : booking[b].at = p}),
     total |-> Cardinality(At(p))]

(* The panel's table of postamats; blocked ones are in it.                 *)
list_postamats == [p \in Postamats |-> Counts(p)]
-----------------------------------------------------------------------------
(* Photographs.                                                            *)

(* LocalFileStorage.save writes the file under a key nobody has.           *)
upload_photo(r, k) ==
    /\ Edit("gallery")
    /\ k \notin files
    /\ files' = files \cup {k}
    /\ Begin(r, [op |-> "upload", key |-> k])
    /\ UNCHANGED <<cellVars, saleVars, booking, photo>>

(* A commit that is refused leaves the file.                               *)
CommitUpload(r) ==
    /\ CommitOf(r, "upload")
    /\ photo' = photo \cup {request[r].key}
    /\ UNCHANGED <<cellVars, saleVars, booking, files, shift, edits>>

delete_photo(r, k) ==
    /\ Edit("gallery")
    /\ k \in photo
    /\ Begin(r, [op |-> "delete", key |-> k])
    /\ UNCHANGED <<cellVars, saleVars, booking, galleryVars>>

(* Mutant: the file is deleted before the row is.                          *)
DeleteFileFirst(r) ==
    /\ Under(r, "delete")
    /\ files' = files \ {request[r].key}
    /\ request' = Overtaken(r, [op |-> "unlink", key |-> request[r].key])
    /\ UNCHANGED <<cellVars, saleVars, booking, photo, shift, edits>>

CommitDelete(r) ==
    /\ Under(r, "delete")
    /\ photo' = photo \ {request[r].key}
    /\ request' = Overtaken(r, [op |-> "unlink", key |-> request[r].key])
    /\ UNCHANGED <<cellVars, saleVars, booking, files, shift, edits>>

(* The file goes after the row.                                            *)
Unlink(r) ==
    /\ Under(r, "unlink")
    /\ files' = files \ {request[r].key}
    /\ request' = [request EXCEPT ![r] = NULL]
    /\ UNCHANGED <<cellVars, saleVars, booking, photo, shift, edits>>

(* The links a postamat's page shows, and whether one leads to a file.     *)
photos_out == photo

get_media(k) == k \in files
-----------------------------------------------------------------------------
CellStep ==
    \/ \E p \in Postamats, n \in Numbers, address \in Addresses, i \in 1 .. Capacity :
          /\ n + i - 1 \in Numbers /\ address + i - 1 \in Addresses
          /\ \E cs \in [1 .. i -> Cells \ Built], ss \in [1 .. i -> Sizes] :
             bulk_create_cells(p, cs, ss, n, address)
    \/ \E c \in Cells :
          \/ \E p \in Postamats, s \in Sizes, n \in Numbers, address \in Addresses \cup {NULL} :
                update_cell(c, p, s, n, address)
          \/ \E on \in BOOLEAN : SetServing(c, on)

SaleStep ==
    \/ \E p \in Postamats : block_postamat(p) \/ unblock_postamat(p)
    \/ \E s \in Sizes : block_cell_type(s) \/ unblock_cell_type(s)
    \/ \E matrix \in SUBSET Priceable : replace_tariffs(matrix)
    \/ \E b \in Bookings, stage \in Stage : BookingMoves(b, stage)

RequestStep(r) ==
    \/ \E p \in Postamats, s \in Sizes :
          \/ /\ "cells" \in shift
             /\ \E n \in Numbers, address \in Addresses : create_cell(r, p, s, n, address)
          \/ \E d \in Durations : create_booking(r, p, s, d)
    \/ \E c \in Cells \ Built : CommitCreate(r, c)
    \/ \E b \in Bookings : Allocate(r, b)
    \/ \E k \in Keys : upload_photo(r, k) \/ delete_photo(r, k)
    \/ CommitUpload(r)
    \/ CommitDelete(r)
    \/ Unlink(r)
    \/ Refused(r)

Next ==
    \/ CellStep
    \/ SaleStep
    \/ \E r \in Requests : RequestStep(r)
    \/ Crash

Spec == Init /\ [][Next]_vars
-----------------------------------------------------------------------------
(* Properties.                                                             *)

Request ==
    [op : {"create"}, row : Row]
        \cup [op : {"book"}, at : Postamats, size : Sizes]
        \cup [op : {"upload", "delete", "unlink"}, key : Keys]

TypeOK ==
    /\ \A c \in Built : cell[c] \in Row
    /\ closed \subseteq Postamats
    /\ retired \subseteq Sizes
    /\ tariff \in Matrices
    /\ \A b \in Bookings : booking[b] = NULL \/
          booking[b] \in [cell : Built, at : Postamats, size : Sizes, stage : Stage]
    /\ photo \subseteq Keys
    /\ files \subseteq Keys
    /\ request \in [Requests -> Request \cup {NULL, OVERTAKEN}]
    /\ shift \in Shifts
    /\ edits \in 0 .. MaxEdits
    /\ unchecked \subseteq Built

(* No two doors of a postamat hang on one output of the lock board, unless *)
(* one of them was created in bulk or moved there: requests that create    *)
(* and change cells at once cannot slip past each other.                   *)
AddressesDistinct ==
    \A c, d \in Built \ unchecked :
        c # d /\ cell[c].at = cell[d].at => cell[c].address # cell[d].address

(* Cells that were moved with a booking on them.                           *)
Strays == {c \in Built : \E b \in LiveBooking(c) : booking[b].at # cell[c].at}

PageIsHonest(p, s) ==
    LET empty == {row \in list_cells(p, {"free"}) : cell[row.cell].size = s}
        page == postamat_availability(p)
    IN  /\ s \in DOMAIN page => page[s] = Cardinality(empty)
        /\ Allocation(p, s) = NULL <=> empty = {}

CardIsHonest(p) ==
    LET card == list_postamats[p]
    IN  /\ card.occupied <= card.total
        /\ card.occupied = Cardinality({c \in At(p) : LiveBooking(c) \cap Occupying # {}})

(* What the public page counts as free is what the panel shows as free,    *)
(* and a customer who is told that a size is sold out is told the truth,   *)
(* unless a cell of the size was moved there with a booking on it.  As     *)
(* long as none was, the card of a postamat counts the doors that have a   *)
(* parcel behind them, which no table of the panel stores.                 *)
OfferIsHonest ==
    /\ \A p \in Visible, s \in Sizes :
          (\A c \in Strays \cap At(p) : cell[c].size # s) => PageIsHonest(p, s)
    /\ Strays = {} => \A p \in Postamats : CardIsHonest(p)

(* A photograph that is listed is there to be served.                      *)
NoRowWithoutFile == \A k \in photos_out : get_media(k)
=============================================================================
