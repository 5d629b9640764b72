------------------------------ MODULE Realtime ------------------------------
(***************************************************************************)
(* The monitor's event stream of app/api/admin/realtime.py: one panel that *)
(* opens a stream, loses it and resumes, while the journal grows.          *)
(*                                                                         *)
(* Entries are numbered in the order of (created_at, id), which is the     *)
(* order of their commits: a transaction that read before it wrote, as all *)
(* do, commits only if nobody committed in between.  An entry flushed but  *)
(* not yet committed when a stream starts from now has an earlier time and *)
(* counts as recorded before that start.  A stream reads the               *)
(* journal in one transaction that never ends (events opens the session    *)
(* around its loop), so from its first query on it sees what had been      *)
(* committed by then (WAL, core/db.py).                                    *)
(***************************************************************************)
EXTENDS Naturals, Sequences, FiniteSets

CONSTANTS
    Postamats,      \* what an entry may be about
    Watched,        \* the postamats the panel asked for
    CatchUpLimit,   \* CATCH_UP_LIMIT
    MaxEntries,     \* bound on the journal
    NULL

ASSUME RealtimeAssumption ==
    /\ Watched \subseteq Postamats
    /\ CatchUpLimit \in Nat \ {0}
    /\ MaxEntries \in Nat
    /\ NULL \notin Nat

VARIABLES
    journal,    \* audit_entries: the postamat of each entry
    open,       \* whether the stream is connected
    after,      \* the keyset position to read after
    snapshot,   \* how much of the journal the transaction sees, NULL before its first query
    batch,      \* rows of the last poll not yet yielded
    received,   \* entries the panel has been sent, in that order
    lastId,     \* the id the panel resumes with, NULL before the first frame
    since       \* where the panel's view begins: the journal at its last fresh start

vars == <<journal, open, after, snapshot, batch, received, lastId, since>>

Init ==
    /\ journal = <<>>
    /\ open = FALSE
    /\ after = 0
    /\ snapshot = NULL
    /\ batch = {}
    /\ received = <<>>
    /\ lastId = NULL
    /\ since = 0

(* Somebody's state change writes its entry and commits.                   *)
record(p) ==
    /\ Len(journal) < MaxEntries
    /\ journal' = Append(journal, p)
    /\ UNCHANGED <<open, after, snapshot, batch, received, lastId, since>>

(* A stream without a usable id starts from now; looking up an unknown one *)
(* has already pinned the snapshot.                                        *)
OpenFromNow ==
    /\ ~open
    /\ open' = TRUE
    /\ after' = Len(journal)
    /\ snapshot' \in {NULL, Len(journal)}
    /\ since' = Len(journal)
    /\ UNCHANGED <<journal, batch, received, lastId>>

(* _resume_from finds the entry, and its query pins the snapshot.          *)
OpenResuming ==
    /\ ~open
    /\ lastId # NULL
    /\ open' = TRUE
    /\ after' = lastId
    /\ snapshot' = Len(journal)
    /\ UNCHANGED <<journal, batch, received, lastId, since>>

Visible == IF snapshot = NULL THEN Len(journal) ELSE snapshot

(* Mutant: the keyset comparison is >=.                                    *)
MatchingFrom == {i \in 1 .. Visible : i >= after /\ journal[i] \in Watched}

Matching == {i \in after + 1 .. Visible : journal[i] \in Watched}

(* Mutant: the rows come in the log screen's order, the newest first.      *)
NewestRows ==
    {i \in Matching : Cardinality({j \in Matching : j > i}) < CatchUpLimit}

Rows == {i \in Matching : Cardinality({j \in Matching : j < i}) < CatchUpLimit}

(* The next round of the loop, when everything found has been yielded.     *)
Poll ==
    /\ open
    /\ batch = {}
    /\ snapshot' = Visible
    /\ batch' = Rows
    /\ IF Rows = {}
       THEN after' = after
       ELSE after' \in Rows /\ \A i \in Rows : i <= after'
    /\ UNCHANGED <<journal, open, received, lastId, since>>

(* The rows of a batch go out in their order.                              *)
Yield ==
    /\ open
    /\ \E i \in batch :
          /\ \A j \in batch : i <= j
          /\ received' = Append(received, i)
          /\ lastId' = i
          /\ batch' = batch \ {i}
    /\ UNCHANGED <<journal, open, after, snapshot, since>>

(* The tab, the proxy or the server closes; what was read is forgotten.    *)
Disconnect ==
    /\ open
    /\ open' = FALSE
    /\ batch' = {}
    /\ snapshot' = NULL
    /\ UNCHANGED <<journal, after, received, lastId, since>>

Next ==
    \/ \E p \in Postamats : record(p)
    \/ OpenFromNow
    \/ OpenResuming
    \/ Poll
    \/ Yield
    \/ Disconnect

Spec == Init /\ [][Next]_vars

(* The loop of an open stream goes on for ever.                            *)
FairSpec == Spec /\ WF_vars(Poll) /\ WF_vars(Yield)
-----------------------------------------------------------------------------
(* Properties.                                                             *)

TypeOK ==
    /\ journal \in Seq(Postamats)
    /\ Len(journal) <= MaxEntries
    /\ open \in BOOLEAN
    /\ after \in 0 .. Len(journal)
    /\ snapshot \in 0 .. Len(journal) \cup {NULL}
    /\ batch \subseteq 1 .. Len(journal)
    /\ received \in Seq(1 .. Len(journal))
    /\ lastId \in 1 .. Len(journal) \cup {NULL}
    /\ since \in 0 .. Len(journal)

(* However often the stream breaks and resumes, no entry is sent twice and *)
(* none overtakes an earlier one: "a second worker duplicates nothing".    *)
InOrderOnce ==
    \A i, j \in 1 .. Len(received) : i < j => received[i] < received[j]

Received(k) == \E i \in 1 .. Len(received) : received[i] = k

(* Between where the panel's view begins and the last entry it was sent    *)
(* nothing it asked for is missing, bursts longer than a batch and         *)
(* interrupted batches included: "a restart loses nothing".                *)
NoGap ==
    \A k \in 1 .. Len(journal) :
        /\ journal[k] \in Watched
        /\ k > since
        /\ lastId # NULL /\ k <= lastId
        => Received(k)

(* "A monitor that has just been opened wants what happens next": an entry *)
(* written while a stream is open reaches it, unless it is closed first.   *)
NewsArrive ==
    \A k \in 1 .. MaxEntries :
        open /\ k \in after + 1 .. Len(journal) /\ journal[k] \in Watched ~>
            ~open \/ Received(k)
=============================================================================
