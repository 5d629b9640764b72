------------------------------ MODULE AuditLog -------------------------------
(***************************************************************************)
(* The journal read by an operator: the pages of the log screen and the    *)
(* CSV export of app/api/admin/audit.py, over the keyset pages of          *)
(* app/core/pagination.py.  It is the journal of Realtime, the newest      *)
(* entry first here, and it grows while it is read.                        *)
(*                                                                         *)
(* Both reads are on record.  The entry that says so is written in the     *)
(* transaction that has read, which SQLite refuses when anybody commits    *)
(* in between; as most commits write no entry, a refusal is possible at    *)
(* any time.  A page's reader is put on a one-hour list in the store       *)
(* before that commit.  The export's rows come from a transaction of their *)
(* own, which lasts as long as the download.                               *)
(***************************************************************************)
EXTENDS Realtime

CONSTANTS
    Nobody,     \* in Postamats: what an entry about no postamat is about
    Wanted,     \* the entries the filters let through, by postamat
    Limit,      \* rows of a page
    ExportBatch,
    ExportMax,  \* EXPORT_MAX_ROWS
    Sides       \* bound: what happens in one behaviour or another

ASSUME AuditLogAssumption ==
    /\ Nobody \in Postamats
    /\ Wanted \subseteq Postamats
    /\ {Limit, ExportBatch} \subseteq Nat \ {0}
    /\ ExportMax \in Nat
    /\ Sides \subseteq {"stream", "pages", "export"}

VARIABLES
    side,       \* one of Sides
    old,        \* entries that have left the hot window
    noted,      \* the store's audit.read:<operator>
    page,       \* rows read and not answered yet, or NULL
    cursor,     \* where the next page starts: NULL at the top, 0 behind the end
    shown,      \* entries on the screen, in the order they came
    top,        \* the length of the journal when the first page was read
    export,     \* the export under way, or NULL
    file        \* the lines of the CSV, as entries

logVars    == <<noted, page, cursor, shown, top>>
exportVars == <<export, file>>
auditVars  == <<side, old, logVars, exportVars>>

AuditInit ==
    /\ Init
    /\ side \in Sides
    /\ old = 0
    /\ noted = FALSE
    /\ page = NULL
    /\ cursor = NULL
    /\ shown = <<>>
    /\ top = 0
    /\ export = NULL
    /\ file = <<>>
-----------------------------------------------------------------------------
(* build_query: the entries of the hot window that pass the filters.       *)
build_query(floor, upto) == {i \in floor + 1 .. upto : journal[i] \in Wanted}

(* rows[:n] of a descending order                                          *)
Newest(rows, n) == {i \in rows : Cardinality({j \in rows : j > i}) < n}

Oldest(rows) == CHOOSE i \in rows : \A j \in rows : i <= j

Descending(rows) ==
    [n \in 1 .. Cardinality(rows) |->
        CHOOSE i \in rows : Cardinality({j \in rows : j > i}) = n - 1]

HotWindowMoves ==
    /\ old < Len(journal)
    /\ old' = old + 1
    /\ UNCHANGED <<vars, side, logVars, exportVars>>

Crash ==
    /\ noted \/ page # NULL \/ export # NULL
    /\ noted' = FALSE
    /\ page' = NULL
    /\ export' = NULL
    /\ file' = <<>>
    /\ UNCHANGED <<vars, side, old, cursor, shown, top>>
-----------------------------------------------------------------------------
(* The log screen.                                                         *)

(* The cursor asks for rows older than the last one shown.                 *)
Below == IF cursor = NULL THEN Len(journal) ELSE cursor - 1

(* Mutant: the cursor names the row fetched to see whether there are more. *)
CursorBehind(rows) ==
    IF Cardinality(rows) > Limit THEN Oldest(Newest(rows, Limit + 1)) ELSE 0

next_cursor(rows) ==
    IF Cardinality(rows) > Limit THEN Oldest(Newest(rows, Limit)) ELSE 0

paginate_cursor ==
    LET rows == build_query(old, Below)
    IN  [rows |-> Newest(rows, Limit), next |-> next_cursor(rows), at |-> Len(journal)]

Show(answer) ==
    /\ shown' = shown \o Descending(answer.rows)
    /\ cursor' = answer.next
    /\ top' = IF cursor = NULL THEN answer.at ELSE top

(* The first page in an hour is noted before it is answered.               *)
list_audit_log ==
    /\ page = NULL
    /\ cursor # 0
    /\ IF noted
       THEN Show(paginate_cursor) /\ UNCHANGED <<noted, page>>
       ELSE /\ noted' = TRUE
            /\ page' = paginate_cursor
            /\ UNCHANGED <<cursor, shown, top>>
    /\ UNCHANGED <<vars, side, old, exportVars>>

note_read ==
    /\ page # NULL
    /\ Len(journal) = page.at
    /\ record(Nobody)
    /\ Show(page)
    /\ page' = NULL
    /\ UNCHANGED <<side, old, noted, exportVars>>

(* The page is lost, and the operator stays on the list.                   *)
NoteRefused ==
    /\ page # NULL
    /\ page' = NULL
    /\ UNCHANGED <<vars, side, old, noted, cursor, shown, top, exportVars>>

NoteExpires ==
    /\ noted
    /\ noted' = FALSE
    /\ UNCHANGED <<vars, side, old, page, cursor, shown, top, exportVars>>

(* The operator opens the screen anew.                                     *)
Reload ==
    /\ page = NULL
    /\ cursor # NULL
    /\ cursor' = NULL
    /\ shown' = <<>>
    /\ UNCHANGED <<vars, side, old, noted, page, top, exportVars>>
-----------------------------------------------------------------------------
(* The export.                                                             *)

export_audit_log ==
    /\ export = NULL
    /\ Cardinality(build_query(old, Len(journal))) <= ExportMax
    /\ export' = [stage |-> "counted", floor |-> old, at |-> Len(journal), pin |-> NULL]
    /\ file' = <<>>
    /\ UNCHANGED <<vars, side, old, logVars>>

NoteExported ==
    /\ export # NULL /\ export.stage = "counted"
    /\ Len(journal) = export.at
    /\ record(Nobody)
    /\ export' = [export EXCEPT !.stage = "body"]
    /\ UNCHANGED <<side, old, logVars, file>>

(* Refused by SQLite, or broken off by the operator.                       *)
ExportEnds ==
    /\ export # NULL
    /\ export' = NULL
    /\ file' = <<>>
    /\ UNCHANGED <<vars, side, old, logVars>>

(* Mutant: every batch has a session of its own.                           *)
SeesAll == Len(journal)

(* What the transaction of the download sees, from its first query on.     *)
Sees == IF export.pin = NULL THEN Len(journal) ELSE export.pin

(* The next batch, found by counting the rows already written.             *)
csv_rows ==
    /\ export # NULL /\ export.stage = "body"
    /\ LET rows == build_query(export.floor, Sees)
           rest == rows \ Newest(rows, Len(file))
       IN  /\ file' = file \o Descending(Newest(rest, ExportBatch))
           /\ export' = [export EXCEPT !.pin = Sees,
                                        !.stage = IF rest = {} THEN "done" ELSE @]
    /\ UNCHANGED <<vars, side, old, logVars>>
-----------------------------------------------------------------------------
StreamStep ==
    /\ side = "stream"
    /\ OpenFromNow \/ OpenResuming \/ Poll \/ Yield \/ Disconnect
    /\ UNCHANGED auditVars

LogStep ==
    /\ side = "pages"
    /\ list_audit_log \/ note_read \/ NoteRefused \/ NoteExpires \/ Reload

ExportStep ==
    /\ side = "export"
    /\ export_audit_log \/ NoteExported \/ csv_rows \/ ExportEnds

AuditNext ==
    \/ \E p \in Postamats : record(p) /\ UNCHANGED auditVars
    \/ StreamStep
    \/ LogStep
    \/ ExportStep
    \/ side # "stream" /\ (HotWindowMoves \/ Crash)

AuditSpec == AuditInit /\ [][AuditNext]_<<vars, auditVars>>
-----------------------------------------------------------------------------
(* Properties.                                                             *)

Decreasing(s) == \A i, j \in 1 .. Len(s) : i < j => s[i] > s[j]

In(k, s) == \E i \in 1 .. Len(s) : s[i] = k

(* "A feed grows while it is being read": page after page the screen shows *)
(* no entry twice and none out of order, and skips nothing that was there  *)
(* when the first page was read and is in the hot window still.            *)
PagesAreWhole ==
    /\ Decreasing(shown)
    /\ cursor # NULL =>
          \A k \in build_query(old, top) : k >= cursor => In(k, shown)

(* A CSV that was downloaded to its end has every entry that was counted,  *)
(* once, and the entry that says who took it: the offsets of its batches   *)
(* do not shift when the journal grows.                                    *)
ExportIsWhole ==
    /\ Decreasing(file)
    /\ export # NULL /\ export.stage = "done" =>
          /\ \A k \in build_query(export.floor, export.at) : In(k, file)
          /\ journal[export.at + 1] = Nobody
          /\ Nobody \in Wanted => In(export.at + 1, file)
=============================================================================
