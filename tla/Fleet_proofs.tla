---------------------------- MODULE Fleet_proofs ----------------------------
(***************************************************************************)
(* For any fleet, stock of photographs, bookings and number of requests at *)
(* once: doors keep to their own outputs, what is offered is what there    *)
(* is, and every photograph that is listed has its file.                   *)
(*                                                                         *)
(* What a handler read is still true when it commits, as every commit      *)
(* overtakes all readers (CreateInv); an upload or a removal owns its key  *)
(* from the first step to the last (GalleryInv).                           *)
(***************************************************************************)
EXTENDS Fleet, FiniteSetTheorems, WellFoundedInduction, TLAPS

Rental == [cell : Cells, at : Postamats, size : Sizes, stage : Stage]

FunInv ==
    /\ DOMAIN cell = Cells /\ cell = [c \in Cells |-> cell[c]]
    /\ DOMAIN booking = Bookings /\ booking = [b \in Bookings |-> booking[b]]

(* A live booking has its cell to itself (uq_active_booking_per_cell).     *)
LeaseInv ==
    \A b, d \in Alive : booking[b].cell = booking[d].cell => b = d

(* A cell that is being created found its output unused, and still does.   *)
CreateInv ==
    \A r \in Requests : Under(r, "create") =>
        \A c \in Built :
            cell[c].at = request[r].row.at => cell[c].address # request[r].row.address

GalleryInv ==
    /\ photo \subseteq files
    /\ \A r \in Requests :
          /\ Under(r, "upload") => request[r].key \in files
          /\ Under(r, "delete") => request[r].key \in photo
          /\ Under(r, "unlink") => request[r].key \in files \ photo
    /\ \A r, x \in Requests :
          /\ Under(r, "unlink") /\ r # x
          /\ Under(x, "upload") \/ Under(x, "unlink")
          => request[r].key # request[x].key

IInv ==
    /\ TypeOK
    /\ FunInv
    /\ LeaseInv
    /\ CreateInv
    /\ GalleryInv
    /\ AddressesDistinct
-----------------------------------------------------------------------------
(* What the offer is made of.                                              *)

LEMMA LeastNumber ==
    ASSUME NEW S \in SUBSET Nat, S # {}
    PROVE  \E n \in S : \A m \in S : n <= m
<1> DEFINE R == OpToRel(<, Nat)
<1>1. IsWellFoundedOn(R, Nat)
    BY NatLessThanWellFounded
<1>2. \A m, n \in Nat : m < n => <<m, n>> \in R
    BY DEF OpToRel
<1> HIDE DEF R
<1>3. PICK n \in S : \A m \in S : ~(<<m, n>> \in R)
    BY <1>1, WFMin
<1>4. \A m \in S : ~(m < n)
    BY <1>2, <1>3
<1> QED BY <1>3, <1>4

(* Some door is the first.                                                 *)
LEMMA FirstDoorIn ==
    ASSUME TypeOK, NEW cs \in SUBSET Built, cs # {}
    PROVE  FirstDoor(cs) \in cs
<1> DEFINE S == {cell[c].number : c \in cs}
<1>1. S \in SUBSET Nat /\ S # {}
    BY DEF TypeOK, Row
<1>2. PICK n \in S : \A m \in S : n <= m
    <2> HIDE DEF S
    <2> QED BY <1>1, LeastNumber
<1>3. PICK c \in cs : n = cell[c].number
    OBVIOUS
<1>4. \A other \in cs : cell[c].number <= cell[other].number
    BY <1>2, <1>3
<1> QED BY <1>4 DEF FirstDoor

LEMMA ImageCounts ==
    ASSUME NEW S, IsFiniteSet(S), NEW f, \A x, y \in S : f[x] = f[y] => x = y
    PROVE  Cardinality({f[x] : x \in S}) = Cardinality(S)
<1> DEFINE g == [x \in S |-> f[x]]
           T == {f[x] : x \in S}
<1>1. g \in Bijection(S, T)
    BY DEF Bijection, Injection, IsInjective, Surjection
<1>2. ExistsBijection(S, T)
    BY <1>1 DEF ExistsBijection
<1> HIDE DEF T
<1>3. Cardinality(T) = Cardinality(S)
    BY <1>2, FS_Bijection
<1> QED BY <1>3 DEF T

(* Unless a cell was moved with a booking on it, the cells of a size that  *)
(* the page counts are the rows that the panel shows as free.              *)
LEMMA PageHonest ==
    ASSUME TypeOK, NEW p \in Postamats, NEW s \in Sizes,
           \A c \in Strays \cap At(p) : cell[c].size # s
    PROVE  PageIsHonest(p, s)
<1> DEFINE empty == {row \in list_cells(p, {"free"}) : cell[row.cell].size = s}
           free == free_cell_ids(p, s)
           f == [c \in free |-> [cell |-> c, status |-> "free"]]
<1>1. free = {c \in At(p) : cell[c].serving /\ cell[c].size = s /\ LiveBooking(c) = {}}
    <2>1. ASSUME NEW c \in At(p), cell[c].size = s
          PROVE  c \in Held(p, s) <=> LiveBooking(c) # {}
        <3>1. \A b \in LiveBooking(c) : booking[b].at = p
            BY <2>1 DEF Strays, At, Built
        <3> QED BY <3>1 DEF Held, LiveBooking
    <2> QED BY <2>1 DEF free_cell_ids, usable_cells
<1>2. \A c \in At(p) : Status(c) = "free" <=> cell[c].serving /\ LiveBooking(c) = {}
    BY DEF Status
<1>3. empty = {f[c] : c \in free}
    <2>1. ASSUME NEW row \in empty PROVE \E c \in free : row = f[c]
        <3>1. PICK c \in At(p) : row = [cell |-> c, status |-> Status(c)]
            BY DEF list_cells, with_state_page
        <3>2. Status(c) = "free" /\ cell[c].size = s
            BY <3>1 DEF list_cells
        <3> QED BY <1>1, <1>2, <3>1, <3>2
    <2>2. ASSUME NEW c \in free PROVE f[c] \in empty
        BY <1>1, <1>2, <2>2 DEF list_cells, with_state_page
    <2> QED BY <2>1, <2>2
<1>4. IsFiniteSet(free) /\ free \subseteq Built
    BY <1>1, FleetAssumption, FS_Subset DEF At, Built
<1>5. Cardinality(empty) = Cardinality(free)
    <2>1. \A x, y \in free : f[x] = f[y] => x = y
        OBVIOUS
    <2> HIDE DEF f, free
    <2>2. Cardinality({f[c] : c \in free}) = Cardinality(free)
        BY <1>4, <2>1, ImageCounts
    <2> QED BY <1>3, <2>2
<1>6. Allocation(p, s) = NULL <=> free = {}
    <2>1. CASE free = {}
        BY <2>1 DEF Allocation
    <2>2. CASE free # {}
        <3>1. FirstDoor(free) \in free
            BY <1>4, <2>2, FirstDoorIn
        <3>2. FirstDoor(free) \notin Leased /\ FirstDoor(free) \in Cells
            BY <1>1, <3>1 DEF Leased, LiveBooking, At, Built
        <3> QED BY <2>2, <3>2, FleetAssumption DEF Allocation
    <2> QED BY <2>1, <2>2
<1>7. empty = {} <=> free = {}
    BY <1>3
<1>8. s \in DOMAIN postamat_availability(p) => postamat_availability(p)[s] = Cardinality(free)
    BY DEF postamat_availability
<1> HIDE DEF free
<1> QED BY <1>5, <1>6, <1>7, <1>8 DEF PageIsHonest

(* With every booking at the postamat of its cell, parcels are doors.      *)
LEMMA CardHonest ==
    ASSUME TypeOK, LeaseInv, NEW p \in Postamats, Strays = {}
    PROVE  CardIsHonest(p)
<1> DEFINE parcels == {b \in Occupying : booking[b].at = p}
           full == {c \in At(p) : LiveBooking(c) \cap Occupying # {}}
           f == [b \in parcels |-> booking[b].cell]
<1>1. ASSUME NEW b \in Alive
      PROVE  booking[b].cell \in Built /\ cell[booking[b].cell].at = booking[b].at
    <2>1. booking[b].cell \in Built
        BY <1>1 DEF TypeOK, Alive
    <2> QED BY <1>1, <2>1 DEF Strays, LiveBooking
<1>2. full = {f[b] : b \in parcels}
    <2>1. ASSUME NEW c \in full PROVE \E b \in parcels : c = f[b]
        <3>1. PICK b \in Occupying : b \in Alive /\ booking[b].cell = c
            BY <2>1 DEF LiveBooking
        <3>2. b \in parcels
            BY <1>1, <2>1, <3>1 DEF At
        <3> QED BY <3>1, <3>2
    <2>2. ASSUME NEW b \in parcels PROVE f[b] \in full
        <3>1. b \in Alive /\ f[b] = booking[b].cell
            BY DEF Occupying
        <3>2. f[b] \in At(p)
            BY <1>1, <3>1 DEF At
        <3>3. b \in LiveBooking(f[b]) \cap Occupying
            BY <3>1 DEF LiveBooking
        <3> QED BY <3>2, <3>3
    <2> HIDE DEF f
    <2> QED BY <2>1, <2>2
<1>3. IsFiniteSet(parcels) /\ IsFiniteSet(At(p)) /\ full \in SUBSET At(p)
    BY FleetAssumption, FS_Subset DEF Occupying, Alive, At, Built
<1>4. Cardinality(full) = Cardinality(parcels)
    <2>1. \A x, y \in parcels : f[x] = f[y] => x = y
        BY DEF LeaseInv, Occupying
    <2> HIDE DEF f, parcels
    <2>2. Cardinality({f[b] : b \in parcels}) = Cardinality(parcels)
        BY <1>3, <2>1, ImageCounts
    <2> QED BY <1>2, <2>2
<1>5. Cardinality(full) <= Cardinality(At(p))
    <2> HIDE DEF full
    <2> QED BY <1>3, FS_Subset
<1>6. list_postamats[p].occupied = Cardinality(parcels)
      /\ list_postamats[p].total = Cardinality(At(p))
    BY DEF list_postamats, Counts
<1> QED BY <1>4, <1>5, <1>6 DEF CardIsHonest
-----------------------------------------------------------------------------
(* Requests.                                                               *)

RequestTyped == request \in [Requests -> Request \cup {NULL, OVERTAKEN}]

(* A request that moves alone.                                             *)
LEMMA OneMoves ==
    ASSUME RequestTyped, NEW r \in Requests, NEW call, request' = [request EXCEPT ![r] = call]
    PROVE  /\ request'[r] = call
           /\ \A x \in Requests \ {r} : request'[x] = request[x]
           /\ call \in Request \cup {NULL, OVERTAKEN} => RequestTyped'
BY DEF RequestTyped

(* A commit leaves nothing that has read.                                  *)
LEMMA CommitLeaves ==
    ASSUME RequestTyped, NEW r, NEW then, request' = Overtaken(r, then)
    PROVE  /\ then \in Request \cup {NULL, OVERTAKEN} => RequestTyped'
           /\ \A x \in Requests : x = r => request'[x] = then
           /\ \A x \in Requests : x # r =>
                 /\ ~Under(x, "create")' /\ ~Under(x, "upload")' /\ ~Under(x, "delete")'
                 /\ Under(x, "unlink")' => Under(x, "unlink") /\ request'[x] = request[x]
<1>1. \A x \in Requests : request'[x] = IF x = r THEN then
                                        ELSE IF x \in Reading THEN OVERTAKEN ELSE request[x]
    BY DEF Overtaken
<1>2. ASSUME then \in Request \cup {NULL, OVERTAKEN} PROVE RequestTyped'
    BY <1>2 DEF Overtaken, RequestTyped
<1>3. ASSUME NEW x \in Requests, x # r
      PROVE  \/ request'[x] = OVERTAKEN
             \/ request'[x] = request[x]
                /\ (request[x] = NULL \/ request[x].op \in {"book", "unlink"})
    BY <1>1, <1>3 DEF Reading
<1>4. ASSUME NEW x \in Requests, x # r
      PROVE  /\ ~Under(x, "create")' /\ ~Under(x, "upload")' /\ ~Under(x, "delete")'
             /\ Under(x, "unlink")' => Under(x, "unlink") /\ request'[x] = request[x]
    BY <1>3, <1>4 DEF Under, OVERTAKEN
<1> QED BY <1>1, <1>2, <1>4

LEMMA CallTyped ==
    ASSUME RequestTyped, NEW r \in Requests
    PROVE  /\ Under(r, "create") => request[r].row \in Row
           /\ Under(r, "book") => request[r].at \in Postamats /\ request[r].size \in Sizes
           /\ Under(r, "upload") \/ Under(r, "delete") \/ Under(r, "unlink") =>
                 request[r].key \in Keys
<1>1. ASSUME request[r] # NULL, request[r] # OVERTAKEN PROVE request[r] \in Request
    BY <1>1 DEF RequestTyped
<1>2. ASSUME NEW op, Under(r, op), op # "overtaken" PROVE request[r] \in Request
    BY <1>1, <1>2 DEF Under, OVERTAKEN
<1>3. ASSUME Under(r, "create") PROVE request[r].row \in Row
    BY <1>2, <1>3 DEF Under, Request
<1>4. ASSUME Under(r, "book") PROVE request[r].at \in Postamats /\ request[r].size \in Sizes
    BY <1>2, <1>4 DEF Under, Request
<1>5. ASSUME Under(r, "upload") \/ Under(r, "delete") \/ Under(r, "unlink")
      PROVE  request[r].key \in Keys
    BY <1>2, <1>5 DEF Under, Request
<1> QED BY <1>3, <1>4, <1>5

(* After a commit no creation, upload or deletion is left that has read,   *)
(* but perhaps what the committing request itself goes on with.            *)
LEMMA CommitKeepsOthers ==
    ASSUME RequestTyped, GalleryInv, NEW r, NEW then, request' = Overtaken(r, then),
           then = NULL, UNCHANGED <<files, photo>>
    PROVE  CreateInv' /\ GalleryInv'
<1>1. \A x \in Requests :
          /\ ~Under(x, "create")' /\ ~Under(x, "upload")' /\ ~Under(x, "delete")'
          /\ Under(x, "unlink")' => Under(x, "unlink") /\ request'[x] = request[x]
    <2>1. ASSUME NEW x \in Requests, x = r PROVE request'[x] = NULL
        BY <2>1, CommitLeaves
    <2> QED BY <2>1, CommitLeaves DEF Under
<1>2. CreateInv'
    BY <1>1 DEF CreateInv
<1>3. GalleryInv'
    BY <1>1 DEF GalleryInv
<1> QED BY <1>2, <1>3

(* What touches neither cells, nor photographs, nor any of their requests. *)
LEMMA OthersKept ==
    ASSUME CreateInv, GalleryInv, UNCHANGED <<cell, files, photo>>,
           \A x \in Requests : \A op \in {"create", "upload", "delete", "unlink"} :
               Under(x, op)' => Under(x, op) /\ request'[x] = request[x]
    PROVE  CreateInv' /\ GalleryInv'
<1>1. CreateInv'
    BY DEF CreateInv, Built
<1>2. GalleryInv'
    BY DEF GalleryInv
<1> QED BY <1>1, <1>2
-----------------------------------------------------------------------------
(* Types, in three parts.                                                  *)

StockTyped ==
    /\ \A c \in Built : cell[c] \in Row
    /\ \A b \in Bookings : booking[b] = NULL \/
          booking[b] \in [cell : Built, at : Postamats, size : Sizes, stage : Stage]
    /\ unchecked \subseteq Built

EditsTyped ==
    /\ closed \subseteq Postamats
    /\ retired \subseteq Sizes
    /\ tariff \in Matrices
    /\ photo \subseteq Keys
    /\ files \subseteq Keys
    /\ shift \in Shifts
    /\ edits \in 0 .. MaxEdits

(* What holds of the cells and bookings alone.                             *)
StockInv == StockTyped /\ FunInv /\ LeaseInv /\ AddressesDistinct

LEMMA InvParts ==
    ASSUME IInv
    PROVE  StockInv /\ EditsTyped /\ RequestTyped /\ CreateInv /\ GalleryInv
BY DEF IInv, TypeOK, StockInv, StockTyped, EditsTyped, RequestTyped

LEMMA PartsHold ==
    ASSUME StockInv', EditsTyped', RequestTyped', CreateInv', GalleryInv'
    PROVE  IInv'
BY DEF IInv, TypeOK, StockInv, StockTyped, EditsTyped, RequestTyped

LEMMA StockKept ==
    ASSUME StockInv, UNCHANGED <<cell, booking, unchecked>>
    PROVE  StockInv'
<1>1. StockTyped' /\ FunInv'
    BY DEF StockInv, StockTyped, FunInv, Built
<1>2. LeaseInv' /\ AddressesDistinct'
    BY DEF StockInv, LeaseInv, AddressesDistinct, Alive, Built
<1> QED BY <1>1, <1>2 DEF StockInv

LEMMA EditsKept ==
    ASSUME EditsTyped, UNCHANGED <<closed, retired, tariff, photo, files>>,
           (\E kind \in {"cells", "sale", "gallery"} : Edit(kind)) \/ UNCHANGED <<shift, edits>>
    PROVE  EditsTyped'
<1>1. shift' \in Shifts /\ edits' \in 0 .. MaxEdits
    BY FleetAssumption DEF EditsTyped, Edit
<1> QED BY <1>1 DEF EditsTyped
-----------------------------------------------------------------------------
(* Cells.                                                                  *)

LEMMA NullIsNoCell == NULL \notin Cells /\ NULL \notin Row
BY FleetAssumption

LEMMA CreateStep ==
    ASSUME NEW r \in Requests, NEW p \in Postamats, NEW s \in Sizes, NEW n \in Numbers,
           NEW address \in Addresses, IInv, create_cell(r, p, s, n, address)
    PROVE  IInv'
<1> DEFINE call == [op |-> "create", row |-> NewCell(p, s, n, address)]
<1>1. /\ ~HardwareTaken(NULL, p, address)
      /\ request[r] = NULL /\ request' = [request EXCEPT ![r] = call]
      /\ UNCHANGED <<cell, unchecked, closed, retired, tariff, booking, photo, files, shift, edits>>
    BY DEF create_cell, Begin, cellVars, saleVars, galleryVars
<1>2. call \in Request
    <2>1. NewCell(p, s, n, address) \in Row
        BY FleetAssumption DEF NewCell, Row
    <2> QED BY <2>1 DEF Request
<1>3. /\ request'[r] = call
      /\ \A x \in Requests \ {r} : request'[x] = request[x]
      /\ RequestTyped'
    BY <1>1, <1>2, InvParts, OneMoves
<1>4. StockInv' /\ EditsTyped'
    BY <1>1, InvParts, StockKept, EditsKept
<1>5. CreateInv'
    <2>1. \A c \in Built : cell[c].at = p => cell[c].address # address
        BY <1>1, NullIsNoCell DEF HardwareTaken, At, Built
    <2>2. request'[r].row.at = p /\ request'[r].row.address = address
        BY <1>3 DEF NewCell
    <2>3. \A c \in Built' : cell'[c].at = request'[r].row.at
                            => cell'[c].address # request'[r].row.address
        BY <1>1, <2>1, <2>2 DEF Built
    <2>4. ASSUME NEW x \in Requests \ {r}, Under(x, "create")'
          PROVE  \A c \in Built' : cell'[c].at = request'[x].row.at
                                   => cell'[c].address # request'[x].row.address
        BY <1>1, <1>3, <2>4, InvParts DEF CreateInv, Under, Built
    <2> QED BY <2>3, <2>4 DEF CreateInv
<1>6. GalleryInv'
    <2>1. \A x \in Requests : \A op \in {"upload", "delete", "unlink"} :
              Under(x, op)' => Under(x, op) /\ request'[x] = request[x]
        BY <1>3 DEF Under
    <2> QED BY <1>1, <2>1, InvParts DEF GalleryInv
<1> QED BY <1>3, <1>4, <1>5, <1>6, PartsHold

(* Where one cell is built or changed, the others stay what they were.     *)
LEMMA OneCell ==
    ASSUME StockInv, NEW c \in Cells, NEW row \in Row, cell' = [cell EXCEPT ![c] = row],
           UNCHANGED booking, unchecked' \subseteq Built \cup {c},
           c \in unchecked' \/ \A d \in Built \ (unchecked \cup {c}) :
               cell[d].at = row.at => cell[d].address # row.address,
           unchecked \subseteq unchecked' \cup {c}
    PROVE  StockInv'
<1>1. /\ cell'[c] = row
      /\ \A d \in Cells \ {c} : cell'[d] = cell[d]
      /\ Built' = Built \cup {c}
      /\ DOMAIN cell' = Cells /\ cell' = [d \in Cells |-> cell'[d]]
    BY NullIsNoCell DEF StockInv, FunInv, Built
<1>2. StockTyped'
    <2>1. \A d \in Built' : cell'[d] \in Row
        BY <1>1 DEF StockInv, StockTyped, Built
    <2>2. \A b \in Bookings : booking'[b] = NULL \/
              booking'[b] \in [cell : Built', at : Postamats, size : Sizes, stage : Stage]
        BY <1>1 DEF StockInv, StockTyped
    <2>3. unchecked' \subseteq Built'
        BY <1>1
    <2> QED BY <2>1, <2>2, <2>3 DEF StockTyped
<1>3. FunInv' /\ LeaseInv'
    BY <1>1 DEF StockInv, FunInv, LeaseInv, Alive
<1>4. AddressesDistinct'
    <2> SUFFICES ASSUME NEW d \in Built' \ unchecked', NEW e \in Built' \ unchecked',
                        d # e, cell'[d].at = cell'[e].at
                 PROVE  cell'[d].address # cell'[e].address
        BY DEF AddressesDistinct
    <2>1. CASE d = c
        BY <1>1, <2>1
    <2>2. CASE e = c
        BY <1>1, <2>2
    <2>3. CASE d # c /\ e # c
        BY <1>1, <2>3 DEF StockInv, AddressesDistinct
    <2> QED BY <2>1, <2>2, <2>3
<1> QED BY <1>2, <1>3, <1>4 DEF StockInv

LEMMA CommitCreateStep ==
    ASSUME NEW r \in Requests, NEW c \in Cells \ Built, IInv, CommitCreate(r, c)
    PROVE  IInv'
<1> DEFINE row == request[r].row
<1>1. /\ Under(r, "create")
      /\ UNCHANGED <<unchecked, closed, retired, tariff, booking, photo, files, shift, edits>>
    BY DEF CommitCreate, saleVars, galleryVars
<1>2. EditsTyped'
    BY <1>1, InvParts, EditsKept
<1>3. CASE NumberTaken(c, row.at, row.number)
    <2>1. request' = [request EXCEPT ![r] = NULL] /\ UNCHANGED cell
        BY <1>3 DEF CommitCreate
    <2>2. /\ request'[r] = NULL
          /\ \A x \in Requests \ {r} : request'[x] = request[x]
          /\ RequestTyped'
        BY <2>1, InvParts, OneMoves
    <2>3. \A x \in Requests : \A op \in {"create", "upload", "delete", "unlink"} :
              Under(x, op)' => Under(x, op) /\ request'[x] = request[x]
        BY <2>2 DEF Under
    <2>4. CreateInv' /\ GalleryInv'
        BY <1>1, <2>1, <2>3, InvParts, OthersKept
    <2>5. StockInv'
        BY <1>1, <2>1, InvParts, StockKept
    <2> QED BY <1>2, <2>2, <2>4, <2>5, PartsHold
<1>4. CASE ~NumberTaken(c, row.at, row.number)
    <2>1. request' = Overtaken(r, NULL) /\ cell' = [cell EXCEPT ![c] = row]
        BY <1>4 DEF CommitCreate, CommitOf
    <2>2. RequestTyped' /\ CreateInv' /\ GalleryInv'
        BY <1>1, <2>1, InvParts, CommitLeaves, CommitKeepsOthers
    <2>3. row \in Row
        BY <1>1, InvParts, CallTyped
    <2>4. \A d \in Built \ {c} : cell[d].at = row.at => cell[d].address # row.address
        BY <1>1, InvParts DEF CreateInv
    <2>5. unchecked \subseteq Built
        BY InvParts DEF StockInv, StockTyped
    <2>6. StockInv'
        <3> HIDE DEF row
        <3> QED BY <1>1, <2>1, <2>3, <2>4, <2>5, InvParts, OneCell
    <2> QED BY <1>2, <2>2, <2>6, PartsHold
<1> QED BY <1>3, <1>4

LEMMA BulkStep ==
    ASSUME NEW p \in Postamats, NEW n \in Numbers, NEW address \in Addresses,
           NEW k \in 1 .. Capacity, NEW cs \in [1 .. k -> Cells \ Built],
           NEW ss \in [1 .. k -> Sizes], IInv, bulk_create_cells(p, cs, ss, n, address)
    PROVE  IInv'
<1> DEFINE new == {cs[i] : i \in 1 .. k}
           door(c) == CHOOSE i \in 1 .. k : cs[i] = c
           row(c) == NewCell(p, ss[door(c)], n + door(c) - 1, address + door(c) - 1)
<1>1. /\ cell' = [c \in Cells |-> IF c \in new THEN row(c) ELSE cell[c]]
      /\ unchecked' = unchecked \cup new
      /\ request' = Overtaken(NULL, NULL)
      /\ UNCHANGED <<closed, retired, tariff, booking, photo, files, shift, edits>>
    <2>1. DOMAIN cs = 1 .. k
        OBVIOUS
    <2> QED BY <2>1 DEF bulk_create_cells, CommitAtOnce, saleVars, galleryVars
<1>2. RequestTyped' /\ CreateInv' /\ GalleryInv'
    BY <1>1, InvParts, CommitLeaves, CommitKeepsOthers
<1>3. EditsTyped'
    BY <1>1, InvParts, EditsKept
<1>4. new \subseteq Cells \ Built
    OBVIOUS
<1>5. ASSUME NEW c \in new PROVE row(c) \in Row
    <2>1. door(c) \in 1 .. k
        OBVIOUS
    <2>2. n + door(c) - 1 \in Nat /\ address + door(c) - 1 \in Nat /\ ss[door(c)] \in Sizes
        BY <2>1, FleetAssumption
    <2> HIDE DEF door
    <2> QED BY <2>2 DEF NewCell, Row
<1> HIDE DEF new, row
<1>6. /\ \A c \in new : cell'[c] \in Row /\ cell'[c] # NULL
      /\ \A c \in Cells \ new : cell'[c] = cell[c]
      /\ Built' = Built \cup new
      /\ DOMAIN cell' = Cells /\ cell' = [c \in Cells |-> cell'[c]]
    <2>1. \A c \in new : cell'[c] \in Row /\ cell'[c] # NULL
        BY <1>1, <1>4, <1>5, NullIsNoCell
    <2>2. \A c \in Cells \ new : cell'[c] = cell[c]
        BY <1>1
    <2>3. Built' = Built \cup new
        BY <1>4, <2>1, <2>2 DEF Built
    <2>4. DOMAIN cell' = Cells /\ cell' = [c \in Cells |-> cell'[c]]
        BY <1>1
    <2> QED BY <2>1, <2>2, <2>3, <2>4
<1>7. StockTyped'
    <2>1. \A c \in Built' : cell'[c] \in Row
        BY <1>6, InvParts DEF StockInv, StockTyped, Built
    <2>2. \A b \in Bookings : booking'[b] = NULL \/
              booking'[b] \in [cell : Built', at : Postamats, size : Sizes, stage : Stage]
        BY <1>1, <1>6, InvParts DEF StockInv, StockTyped
    <2>3. unchecked' \subseteq Built'
        BY <1>1, <1>6, InvParts DEF StockInv, StockTyped
    <2> QED BY <2>1, <2>2, <2>3 DEF StockTyped
<1>8. FunInv' /\ LeaseInv'
    BY <1>1, <1>6, InvParts DEF StockInv, FunInv, LeaseInv, Alive
<1>9. AddressesDistinct'
    <2>1. \A c \in Built' \ unchecked' : c \in Built \ unchecked /\ cell'[c] = cell[c]
        BY <1>1, <1>6 DEF Built
    <2> QED BY <2>1, InvParts DEF StockInv, AddressesDistinct
<1> QED BY <1>2, <1>3, <1>7, <1>8, <1>9, PartsHold DEF StockInv

LEMMA UpdateStep ==
    ASSUME NEW c \in Cells, NEW p \in Postamats, NEW s \in Sizes, NEW n \in Numbers,
           NEW address \in Addresses \cup {NULL}, IInv, update_cell(c, p, s, n, address)
    PROVE  IInv'
<1> DEFINE row == Written(c, p, s, n, address)
<1>1. /\ c \in Built /\ Edit("cells") /\ AddressAllowed(c, p, address)
      /\ cell' = [cell EXCEPT ![c] = row]
      /\ unchecked' = IF address # NULL THEN unchecked \ {c}
                      ELSE IF row.at # cell[c].at THEN unchecked \cup {c}
                      ELSE unchecked
      /\ request' = Overtaken(NULL, NULL)
      /\ UNCHANGED <<closed, retired, tariff, booking, photo, files>>
    BY DEF update_cell, CommitAtOnce, saleVars, galleryVars
<1>2. RequestTyped' /\ CreateInv' /\ GalleryInv'
    BY <1>1, InvParts, CommitLeaves, CommitKeepsOthers
<1>3. EditsTyped'
    BY <1>1, InvParts, EditsKept
<1>4. /\ row \in Row /\ row.at = p
      /\ row.address = IF address = NULL THEN cell[c].address ELSE address
    <2>1. cell[c] \in Row
        BY <1>1, InvParts DEF StockInv, StockTyped
    <2> QED BY <2>1, FleetAssumption DEF Written, Row
<1>5. c \in unchecked' \/ \A d \in Built \ (unchecked \cup {c}) :
          cell[d].at = row.at => cell[d].address # row.address
    <2>1. CASE address # NULL
        BY <1>1, <1>4, <2>1 DEF AddressAllowed, HardwareTaken, At
    <2>2. CASE address = NULL
        BY <1>1, <1>4, <2>2, InvParts DEF StockInv, AddressesDistinct
    <2> QED BY <2>1, <2>2
<1>6. unchecked' \subseteq Built \cup {c} /\ unchecked \subseteq unchecked' \cup {c}
    BY <1>1, InvParts DEF StockInv, StockTyped
<1>7. StockInv'
    <2> HIDE DEF row
    <2> QED BY <1>1, <1>4, <1>5, <1>6, InvParts, OneCell
<1> QED BY <1>2, <1>3, <1>7, PartsHold

LEMMA ServingStep ==
    ASSUME NEW c \in Cells, NEW on \in BOOLEAN, IInv, SetServing(c, on)
    PROVE  IInv'
<1> DEFINE row == [cell[c] EXCEPT !.serving = on]
<1>1. /\ c \in Built /\ Edit("cells")
      /\ cell' = [cell EXCEPT ![c] = row]
      /\ request' = Overtaken(NULL, NULL)
      /\ UNCHANGED <<unchecked, closed, retired, tariff, booking, photo, files>>
    BY DEF SetServing, CommitAtOnce, saleVars, galleryVars
<1>2. RequestTyped' /\ CreateInv' /\ GalleryInv'
    BY <1>1, InvParts, CommitLeaves, CommitKeepsOthers
<1>3. EditsTyped'
    BY <1>1, InvParts, EditsKept
<1>4. row \in Row /\ row.at = cell[c].at /\ row.address = cell[c].address
    <2>1. cell[c] \in Row
        BY <1>1, InvParts DEF StockInv, StockTyped
    <2> QED BY <2>1 DEF Row
<1>5. c \in unchecked' \/ \A d \in Built \ (unchecked \cup {c}) :
          cell[d].at = row.at => cell[d].address # row.address
    BY <1>1, <1>4, InvParts DEF StockInv, AddressesDistinct
<1>6. unchecked' \subseteq Built \cup {c} /\ unchecked \subseteq unchecked' \cup {c}
    BY <1>1, InvParts DEF StockInv, StockTyped
<1>7. StockInv'
    <2> HIDE DEF row
    <2> QED BY <1>1, <1>4, <1>5, <1>6, InvParts, OneCell
<1> QED BY <1>2, <1>3, <1>7, PartsHold
-----------------------------------------------------------------------------
(* Sale.                                                                   *)

LEMMA SaleEditStep ==
    ASSUME IInv, Edit("sale"), CommitAtOnce,
           UNCHANGED <<cell, unchecked, booking, photo, files>>,
           closed' \subseteq Postamats, retired' \subseteq Sizes, tariff' \in Matrices
    PROVE  IInv'
<1>1. request' = Overtaken(NULL, NULL)
    BY DEF CommitAtOnce
<1>2. RequestTyped' /\ CreateInv' /\ GalleryInv'
    BY <1>1, InvParts, CommitLeaves, CommitKeepsOthers
<1>3. EditsTyped'
    BY InvParts, FleetAssumption DEF EditsTyped, Edit
<1>4. StockInv'
    BY InvParts, StockKept
<1> QED BY <1>2, <1>3, <1>4, PartsHold

(* Bookings move while cells stand.                                        *)
LEMMA BookingsMove ==
    ASSUME IInv, NEW r, request' = Overtaken(r, NULL), NEW b \in Bookings,
           NEW c \in Built, NEW p \in Postamats, NEW s \in Sizes, NEW stage \in Stage,
           booking' = [booking EXCEPT ![b] =
               [cell |-> c, at |-> p, size |-> s, stage |-> stage]],
           \A d \in Alive \ {b} : booking[d].cell # c,
           UNCHANGED <<cell, unchecked, closed, retired, tariff, photo, files, shift, edits>>
    PROVE  IInv'
<1>1. RequestTyped' /\ CreateInv' /\ GalleryInv'
    BY InvParts, CommitLeaves, CommitKeepsOthers
<1>2. EditsTyped'
    BY InvParts, EditsKept
<1>3. /\ booking'[b] = [cell |-> c, at |-> p, size |-> s, stage |-> stage]
      /\ \A d \in Bookings \ {b} : booking'[d] = booking[d]
      /\ DOMAIN booking' = Bookings /\ booking' = [d \in Bookings |-> booking'[d]]
    BY InvParts DEF StockInv, FunInv
<1>4. StockTyped' /\ FunInv'
    BY <1>3, InvParts DEF StockInv, StockTyped, FunInv, Built
<1>5. LeaseInv'
    BY <1>3, InvParts DEF StockInv, LeaseInv, Alive
<1>6. AddressesDistinct'
    BY InvParts DEF StockInv, AddressesDistinct, Built
<1> QED BY <1>1, <1>2, <1>4, <1>5, <1>6, PartsHold DEF StockInv

LEMMA BookingMovesStep ==
    ASSUME NEW b \in Bookings, NEW stage \in Stage, IInv, BookingMoves(b, stage)
    PROVE  IInv'
<1>1. /\ b \in Alive
      /\ booking' = [booking EXCEPT ![b].stage = stage]
      /\ request' = Overtaken(NULL, NULL)
      /\ UNCHANGED <<cell, unchecked, closed, retired, tariff, photo, files, shift, edits>>
    BY DEF BookingMoves, CommitAtOnce, cellVars, saleVars, galleryVars
<1>2. booking[b] \in [cell : Built, at : Postamats, size : Sizes, stage : Stage]
    BY <1>1, InvParts DEF StockInv, StockTyped, Alive
<1> DEFINE c == booking[b].cell
           p == booking[b].at
           s == booking[b].size
<1>3. c \in Built /\ p \in Postamats /\ s \in Sizes
    BY <1>2
<1>4. booking' = [booking EXCEPT ![b] = [cell |-> c, at |-> p, size |-> s, stage |-> stage]]
    <2>1. [booking[b] EXCEPT !.stage = stage] = [cell |-> c, at |-> p, size |-> s, stage |-> stage]
        BY <1>2
    <2>2. booking' = [booking EXCEPT ![b] = [booking[b] EXCEPT !.stage = stage]]
        BY <1>1
    <2> QED BY <2>1, <2>2
<1>5. \A d \in Alive \ {b} : booking[d].cell # c
    BY <1>1, InvParts DEF StockInv, LeaseInv
<1>6. /\ request' = Overtaken(NULL, NULL)
      /\ UNCHANGED <<cell, unchecked, closed, retired, tariff, photo, files, shift, edits>>
    BY <1>1
<1> HIDE DEF c, p, s
<1> QED BY <1>3, <1>4, <1>5, <1>6, BookingsMove

LEMMA BookStep ==
    ASSUME NEW r \in Requests, NEW p \in Postamats, NEW s \in Sizes, NEW d \in Durations, IInv,
           create_booking(r, p, s, d)
    PROVE  IInv'
<1> DEFINE call == [op |-> "book", at |-> p, size |-> s]
<1>1. /\ request' = [request EXCEPT ![r] = call]
      /\ UNCHANGED <<cell, unchecked, closed, retired, tariff, booking, photo, files, shift, edits>>
    BY DEF create_booking, Begin, cellVars, saleVars, galleryVars
<1>2. call \in Request
    BY DEF Request
<1>3. /\ request'[r] = call
      /\ \A x \in Requests \ {r} : request'[x] = request[x]
      /\ RequestTyped'
    BY <1>1, <1>2, InvParts, OneMoves
<1>4. \A x \in Requests : \A op \in {"create", "upload", "delete", "unlink"} :
          Under(x, op)' => Under(x, op) /\ request'[x] = request[x]
    BY <1>3 DEF Under
<1>5. CreateInv' /\ GalleryInv'
    BY <1>1, <1>4, InvParts, OthersKept
<1>6. StockInv' /\ EditsTyped'
    BY <1>1, InvParts, StockKept, EditsKept
<1> QED BY <1>3, <1>5, <1>6, PartsHold

LEMMA AllocateStep ==
    ASSUME NEW r \in Requests, NEW b \in Bookings, IInv, Allocate(r, b)
    PROVE  IInv'
<1> DEFINE p == request[r].at
           s == request[r].size
           c == Allocation(p, s)
           free == free_cell_ids(p, s)
<1>1. /\ Under(r, "book")
      /\ UNCHANGED <<cell, unchecked, closed, retired, tariff, photo, files, shift, edits>>
    BY DEF Allocate, cellVars, saleVars, galleryVars
<1>2. CASE c = NULL
    <2>1. request' = [request EXCEPT ![r] = NULL] /\ UNCHANGED booking
        BY <1>2 DEF Allocate
    <2>2. /\ request'[r] = NULL
          /\ \A x \in Requests \ {r} : request'[x] = request[x]
          /\ RequestTyped'
        BY <2>1, InvParts, OneMoves
    <2>3. \A x \in Requests : \A op \in {"create", "upload", "delete", "unlink"} :
              Under(x, op)' => Under(x, op) /\ request'[x] = request[x]
        BY <2>2 DEF Under
    <2>4. CreateInv' /\ GalleryInv'
        BY <1>1, <2>3, InvParts, OthersKept
    <2>5. StockInv' /\ EditsTyped'
        BY <1>1, <2>1, InvParts, StockKept, EditsKept
    <2> QED BY <2>2, <2>4, <2>5, PartsHold
<1>3. CASE c # NULL
    <2>1. /\ request' = Overtaken(r, NULL)
          /\ booking' = [booking EXCEPT ![b] =
                [cell |-> c, at |-> p, size |-> s, stage |-> "booked"]]
        BY <1>3 DEF Allocate, CommitOf
    <2>2. p \in Postamats /\ s \in Sizes
        BY <1>1, InvParts, CallTyped
    <2>3. free # {} /\ c = FirstDoor(free) /\ c \notin Leased
        BY <1>3 DEF Allocation
    <2>4. free \in SUBSET Built /\ TypeOK
        BY DEF IInv, free_cell_ids, usable_cells, At
    <2>5. c \in Built
        <3> HIDE DEF free, c
        <3> QED BY <2>3, <2>4, FirstDoorIn
    <2>6. \A d \in Alive \ {b} : booking[d].cell # c
        BY <2>3 DEF Leased
    <2> HIDE DEF c, p, s
    <2> QED BY <1>1, <2>1, <2>2, <2>5, <2>6, BookingsMove DEF Stage
<1> QED BY <1>2, <1>3
-----------------------------------------------------------------------------
(* Photographs.                                                            *)

LEMMA UploadStep ==
    ASSUME NEW r \in Requests, NEW k \in Keys, IInv, upload_photo(r, k)
    PROVE  IInv'
<1> DEFINE call == [op |-> "upload", key |-> k]
<1>1. /\ Edit("gallery") /\ k \notin files /\ files' = files \cup {k}
      /\ request[r] = NULL /\ request' = [request EXCEPT ![r] = call]
      /\ UNCHANGED <<cell, unchecked, closed, retired, tariff, booking, photo>>
    BY DEF upload_photo, Begin, cellVars, saleVars
<1>2. call \in Request
    BY DEF Request
<1>3. /\ request'[r] = call
      /\ \A x \in Requests \ {r} : request'[x] = request[x]
      /\ RequestTyped'
    BY <1>1, <1>2, InvParts, OneMoves
<1>4. StockInv'
    BY <1>1, InvParts, StockKept
<1>5. EditsTyped'
    BY <1>1, InvParts, FleetAssumption DEF EditsTyped, Edit
<1>6. CreateInv'
    <2>1. \A x \in Requests : Under(x, "create")' => Under(x, "create") /\ request'[x] = request[x]
        BY <1>3 DEF Under
    <2> QED BY <1>1, <2>1, InvParts DEF CreateInv, Built
<1>7. GalleryInv'
    <2>1. \A x \in Requests \ {r} : \A op \in {"upload", "delete", "unlink"} :
              Under(x, op)' => Under(x, op) /\ request'[x] = request[x]
        BY <1>3 DEF Under
    <2>2. ~Under(r, "delete")' /\ ~Under(r, "unlink")' /\ request'[r].key = k
        BY <1>3 DEF Under
    <2>3. \A x \in Requests : Under(x, "unlink") => request[x].key # k
        BY <1>1, InvParts DEF GalleryInv
    <2> QED BY <1>1, <2>1, <2>2, <2>3, InvParts DEF GalleryInv
<1> QED BY <1>3, <1>4, <1>5, <1>6, <1>7, PartsHold

LEMMA CommitUploadStep ==
    ASSUME NEW r \in Requests, IInv, CommitUpload(r)
    PROVE  IInv'
<1> DEFINE k == request[r].key
<1>1. /\ Under(r, "upload") /\ request' = Overtaken(r, NULL)
      /\ photo' = photo \cup {k}
      /\ UNCHANGED <<cell, unchecked, closed, retired, tariff, booking, files, shift, edits>>
    BY DEF CommitUpload, CommitOf, cellVars, saleVars
<1>2. k \in Keys /\ k \in files
    BY <1>1, InvParts, CallTyped DEF GalleryInv
<1>3. RequestTyped'
    BY <1>1, InvParts, CommitLeaves
<1>4. \A x \in Requests :
          /\ ~Under(x, "create")' /\ ~Under(x, "upload")' /\ ~Under(x, "delete")'
          /\ Under(x, "unlink")' => x # r /\ Under(x, "unlink") /\ request'[x] = request[x]
    <2>1. request'[r] = NULL
        BY <1>1, InvParts, CommitLeaves
    <2> QED BY <1>1, <2>1, InvParts, CommitLeaves DEF Under
<1>5. StockInv'
    BY <1>1, InvParts, StockKept
<1>6. EditsTyped'
    BY <1>1, <1>2, InvParts DEF EditsTyped
<1>7. CreateInv'
    BY <1>4 DEF CreateInv
<1>8. GalleryInv'
    <2>1. \A x \in Requests : Under(x, "unlink")' => request[x].key # k
        BY <1>1, <1>4, InvParts DEF GalleryInv
    <2> QED BY <1>1, <1>2, <1>4, <2>1, InvParts DEF GalleryInv
<1> QED BY <1>3, <1>5, <1>6, <1>7, <1>8, PartsHold

LEMMA DeletePhotoStep ==
    ASSUME NEW r \in Requests, NEW k \in Keys, IInv, delete_photo(r, k)
    PROVE  IInv'
<1> DEFINE call == [op |-> "delete", key |-> k]
<1>1. /\ Edit("gallery") /\ k \in photo
      /\ request[r] = NULL /\ request' = [request EXCEPT ![r] = call]
      /\ UNCHANGED <<cell, unchecked, closed, retired, tariff, booking, photo, files>>
    BY DEF delete_photo, Begin, cellVars, saleVars, galleryVars
<1>2. call \in Request
    BY DEF Request
<1>3. /\ request'[r] = call
      /\ \A x \in Requests \ {r} : request'[x] = request[x]
      /\ RequestTyped'
    BY <1>1, <1>2, InvParts, OneMoves
<1>4. StockInv' /\ EditsTyped'
    BY <1>1, InvParts, StockKept, EditsKept
<1>5. CreateInv'
    <2>1. \A x \in Requests : Under(x, "create")' => Under(x, "create") /\ request'[x] = request[x]
        BY <1>3 DEF Under
    <2> QED BY <1>1, <2>1, InvParts DEF CreateInv, Built
<1>6. GalleryInv'
    <2>1. \A x \in Requests \ {r} : \A op \in {"upload", "delete", "unlink"} :
              Under(x, op)' => Under(x, op) /\ request'[x] = request[x]
        BY <1>3 DEF Under
    <2>2. ~Under(r, "upload")' /\ ~Under(r, "unlink")' /\ request'[r].key = k
        BY <1>3 DEF Under
    <2> QED BY <1>1, <2>1, <2>2, InvParts DEF GalleryInv
<1> QED BY <1>3, <1>4, <1>5, <1>6, PartsHold

LEMMA CommitDeleteStep ==
    ASSUME NEW r \in Requests, IInv, CommitDelete(r)
    PROVE  IInv'
<1> DEFINE k == request[r].key
           call == [op |-> "unlink", key |-> k]
<1>1. /\ Under(r, "delete") /\ request' = Overtaken(r, call)
      /\ photo' = photo \ {k}
      /\ UNCHANGED <<cell, unchecked, closed, retired, tariff, booking, files, shift, edits>>
    BY DEF CommitDelete, cellVars, saleVars
<1>2. k \in Keys /\ k \in photo /\ k \in files
    BY <1>1, InvParts, CallTyped DEF GalleryInv
<1>3. call \in Request
    BY <1>2 DEF Request
<1>4. RequestTyped' /\ request'[r] = call
    BY <1>1, <1>3, InvParts, CommitLeaves
<1>5. \A x \in Requests :
          /\ ~Under(x, "create")' /\ ~Under(x, "upload")' /\ ~Under(x, "delete")'
          /\ x # r /\ Under(x, "unlink")' => Under(x, "unlink") /\ request'[x] = request[x]
    BY <1>1, <1>4, InvParts, CommitLeaves DEF Under
<1>6. StockInv'
    BY <1>1, InvParts, StockKept
<1>7. EditsTyped'
    BY <1>1, InvParts DEF EditsTyped
<1>8. CreateInv'
    BY <1>5 DEF CreateInv
<1>9. GalleryInv'
    <2>1. \A x \in Requests : Under(x, "unlink") => request[x].key # k
        BY <1>2, InvParts DEF GalleryInv
    <2>2. request'[r].key = k
        BY <1>4
    <2> QED BY <1>1, <1>2, <1>5, <2>1, <2>2, InvParts DEF GalleryInv
<1> QED BY <1>4, <1>6, <1>7, <1>8, <1>9, PartsHold

LEMMA UnlinkStep ==
    ASSUME NEW r \in Requests, IInv, Unlink(r)
    PROVE  IInv'
<1> DEFINE k == request[r].key
<1>1. /\ Under(r, "unlink") /\ files' = files \ {k}
      /\ request' = [request EXCEPT ![r] = NULL]
      /\ UNCHANGED <<cell, unchecked, closed, retired, tariff, booking, photo, shift, edits>>
    BY DEF Unlink, cellVars, saleVars
<1>2. /\ request'[r] = NULL
      /\ \A x \in Requests \ {r} : request'[x] = request[x]
      /\ RequestTyped'
    BY <1>1, InvParts, OneMoves
<1>3. StockInv'
    BY <1>1, InvParts, StockKept
<1>4. EditsTyped'
    BY <1>1, InvParts DEF EditsTyped
<1>5. \A x \in Requests : \A op \in {"create", "upload", "delete", "unlink"} :
          Under(x, op)' => x # r /\ Under(x, op) /\ request'[x] = request[x]
    BY <1>2 DEF Under
<1>6. CreateInv'
    BY <1>1, <1>5, InvParts DEF CreateInv, Built
<1>7. GalleryInv'
    <2>1. k \notin photo
        BY <1>1, InvParts DEF GalleryInv
    <2>2. \A x \in Requests : Under(x, "upload")' \/ Under(x, "unlink")' => request[x].key # k
        BY <1>1, <1>5, InvParts DEF GalleryInv
    <2> QED BY <1>1, <1>5, <2>1, <2>2, InvParts DEF GalleryInv
<1> QED BY <1>2, <1>3, <1>4, <1>6, <1>7, PartsHold
-----------------------------------------------------------------------------
(* All of them.                                                            *)

LEMMA RefusedStep ==
    ASSUME NEW r \in Requests, IInv, Refused(r)
    PROVE  IInv'
<1>1. /\ request' = [request EXCEPT ![r] = NULL]
      /\ UNCHANGED <<cell, unchecked, closed, retired, tariff, booking, photo, files, shift, edits>>
    BY DEF Refused, cellVars, saleVars, galleryVars
<1>2. /\ request'[r] = NULL
      /\ \A x \in Requests \ {r} : request'[x] = request[x]
      /\ RequestTyped'
    BY <1>1, InvParts, OneMoves
<1>3. \A x \in Requests : \A op \in {"create", "upload", "delete", "unlink"} :
          Under(x, op)' => Under(x, op) /\ request'[x] = request[x]
    BY <1>2 DEF Under
<1>4. CreateInv' /\ GalleryInv'
    BY <1>1, <1>3, InvParts, OthersKept
<1>5. StockInv' /\ EditsTyped'
    BY <1>1, InvParts, StockKept, EditsKept
<1> QED BY <1>2, <1>4, <1>5, PartsHold

LEMMA CrashStep == IInv /\ Crash => IInv'
<1> SUFFICES ASSUME IInv, Crash PROVE IInv'
    OBVIOUS
<1>1. /\ request' = [r \in Requests |-> NULL]
      /\ UNCHANGED <<cell, unchecked, closed, retired, tariff, booking, photo, files, shift, edits>>
    BY DEF Crash, cellVars, saleVars, galleryVars
<1>2. RequestTyped'
    BY <1>1 DEF RequestTyped
<1>3. \A x \in Requests : \A op \in {"create", "upload", "delete", "unlink"} :
          Under(x, op)' => Under(x, op) /\ request'[x] = request[x]
    BY <1>1 DEF Under
<1>4. CreateInv' /\ GalleryInv'
    BY <1>1, <1>3, InvParts, OthersKept
<1>5. StockInv' /\ EditsTyped'
    BY <1>1, InvParts, StockKept, EditsKept
<1> QED BY <1>2, <1>4, <1>5, PartsHold

LEMMA CellSteps == IInv /\ CellStep => IInv'
<1> SUFFICES ASSUME IInv, CellStep PROVE IInv'
    OBVIOUS
<1>1. ASSUME NEW c \in Cells, NEW p \in Postamats, NEW s \in Sizes, NEW n \in Numbers,
             NEW address \in Addresses \cup {NULL}, update_cell(c, p, s, n, address)
      PROVE  IInv'
    BY <1>1, UpdateStep
<1>2. ASSUME NEW c \in Cells, NEW on \in BOOLEAN, SetServing(c, on) PROVE IInv'
    BY <1>2, ServingStep
<1>3. ASSUME NEW p \in Postamats, NEW n \in Numbers, NEW address \in Addresses,
             NEW k \in 1 .. Capacity, NEW cs \in [1 .. k -> Cells \ Built],
             NEW ss \in [1 .. k -> Sizes], bulk_create_cells(p, cs, ss, n, address)
      PROVE  IInv'
    BY <1>3, BulkStep
<1> QED BY <1>1, <1>2, <1>3 DEF CellStep

LEMMA SaleSteps == IInv /\ SaleStep => IInv'
<1> SUFFICES ASSUME IInv, SaleStep PROVE IInv'
    OBVIOUS
<1>0. closed \subseteq Postamats /\ retired \subseteq Sizes /\ tariff \in Matrices
    BY InvParts DEF EditsTyped
<1>1. ASSUME NEW p \in Postamats, block_postamat(p) \/ unblock_postamat(p) PROVE IInv'
    <2>1. closed' \subseteq Postamats
        BY <1>0, <1>1 DEF block_postamat, unblock_postamat
    <2> QED BY <1>0, <1>1, <2>1, SaleEditStep
            DEF block_postamat, unblock_postamat, cellVars, galleryVars
<1>2. ASSUME NEW s \in Sizes, block_cell_type(s) \/ unblock_cell_type(s) PROVE IInv'
    <2>1. retired' \subseteq Sizes
        BY <1>0, <1>2 DEF block_cell_type, unblock_cell_type
    <2> QED BY <1>0, <1>2, <2>1, SaleEditStep
            DEF block_cell_type, unblock_cell_type, cellVars, galleryVars
<1>3. ASSUME NEW matrix \in SUBSET Priceable, replace_tariffs(matrix) PROVE IInv'
    BY <1>0, <1>3, SaleEditStep DEF replace_tariffs, cellVars, galleryVars
<1>4. ASSUME NEW b \in Bookings, NEW stage \in Stage, BookingMoves(b, stage) PROVE IInv'
    BY <1>4, BookingMovesStep
<1> QED BY <1>1, <1>2, <1>3, <1>4 DEF SaleStep

LEMMA RequestSteps ==
    ASSUME NEW r \in Requests, IInv, RequestStep(r)
    PROVE  IInv'
BY CreateStep, BookStep, CommitCreateStep, AllocateStep, UploadStep, DeletePhotoStep,
   CommitUploadStep, CommitDeleteStep, UnlinkStep, RefusedStep DEF RequestStep, Built

LEMMA InitInv == Init => IInv
<1> SUFFICES ASSUME Init PROVE IInv
    OBVIOUS
<1>1. Built = {} /\ Alive = {} /\ \A r \in Requests : request[r] = NULL
    BY DEF Init, Built, Alive
<1>2. tariff \in Matrices
    BY DEF Init, Matrices, Priceable
<1>3. TypeOK
    BY <1>1, <1>2, FleetAssumption DEF Init, TypeOK
<1>4. FunInv /\ LeaseInv /\ AddressesDistinct
    BY <1>1 DEF Init, FunInv, LeaseInv, AddressesDistinct
<1>5. CreateInv /\ GalleryInv
    BY <1>1 DEF Init, CreateInv, GalleryInv, Under
<1> QED BY <1>3, <1>4, <1>5 DEF IInv

LEMMA StepInv == IInv /\ [Next]_vars => IInv'
<1> SUFFICES ASSUME IInv, [Next]_vars PROVE IInv'
    OBVIOUS
<1>1. CASE Next
    BY <1>1, CellSteps, SaleSteps, RequestSteps, CrashStep DEF Next
<1>2. CASE UNCHANGED vars
    <2>1. UNCHANGED <<cell, unchecked, closed, retired, tariff, booking, photo, files, request,
                      shift, edits>>
        BY <1>2 DEF vars, cellVars, saleVars, galleryVars
    <2>2. CreateInv' /\ GalleryInv'
        BY <2>1, InvParts, OthersKept DEF Under
    <2>3. StockInv' /\ EditsTyped'
        BY <2>1, InvParts, StockKept, EditsKept
    <2> QED BY <2>1, <2>2, <2>3, InvParts, PartsHold DEF RequestTyped
<1> QED BY <1>1, <1>2

LEMMA AlwaysInv == Spec => []IInv
BY InitInv, StepInv, PTL DEF Spec

(* Every price matrix is complete, and every row refers to one there is.   *)
THEOREM TypeCorrect == Spec => []TypeOK
<1>1. IInv => TypeOK
    BY DEF IInv
<1> QED BY <1>1, AlwaysInv, PTL

(* However creations and edits of cells overlap, two doors of a postamat   *)
(* share an output only where the code does not look (_hardware_taken).    *)
THEOREM DoorsApart == Spec => []AddressesDistinct
<1>1. IInv => AddressesDistinct
    BY DEF IInv
<1> QED BY <1>1, AlwaysInv, PTL

(* The availability page, the panel and the allocator agree on what is     *)
(* free, in a fleet of any size (postamat_availability, with_state_page,   *)
(* free_cell_ids).                                                         *)
THEOREM OfferHonest == Spec => []OfferIsHonest
<1>1. ASSUME IInv PROVE OfferIsHonest
    <2>1. TypeOK /\ LeaseInv
        BY <1>1 DEF IInv
    <2>2. Visible \subseteq Postamats
        BY DEF Visible
    <2> QED BY <2>1, <2>2, PageHonest, CardHonest DEF OfferIsHonest
<1> QED BY <1>1, AlwaysInv, PTL

(* Files outlive the rows that name them, whatever is refused or crashes   *)
(* (upload_photo, delete_photo, LocalFileStorage).                         *)
THEOREM FilesThere == Spec => []NoRowWithoutFile
<1>1. IInv => NoRowWithoutFile
    BY DEF IInv, GalleryInv, NoRowWithoutFile, photos_out, get_media
<1> QED BY <1>1, AlwaysInv, PTL
=============================================================================
