----------------------------- MODULE Idempotency -----------------------------
(***************************************************************************)
(* Requests that carry one Idempotency-Key: IdempotencyMiddleware.dispatch *)
(* of app/core/idempotency.py around the handler of a write, for one       *)
(* (owner, key, scope).  Other keys are looked up and stored apart from    *)
(* this one.                                                               *)
(*                                                                         *)
(* The handler is any POST route that commits at most one effect: it       *)
(* refuses with a 4xx, or fails with a 5xx before or after its commit, or  *)
(* succeeds.  create_booking is the route that can fail after it: the cell *)
(* is committed before the courier's code is sent.  Lookup, commit of the  *)
(* handler and storing the answer are three transactions, and between them *)
(* other requests run and the process may die.                             *)
(***************************************************************************)
EXTENDS Naturals, FiniteSets

CONSTANTS
    Requests,       \* requests with the key, retries among them
    Bodies,         \* what a body hashes to
    NULL

(* An answer a handler gave in time: refused, or the effect it made.       *)
Refused == "refused"

Final == {Refused} \cup Requests

(* What the client is told besides: the key belongs to another body (409), *)
(* or an error (5xx).                                                      *)
Reused == "reused"
Failed == "failed"

ASSUME IdempotencyAssumption ==
    /\ {Refused, Reused, Failed, NULL} \cap Requests = {}
    /\ NULL \notin {Refused, Reused, Failed} \cup [body : Bodies, answer : Final]

VARIABLES
    pc,         \* where a request is in dispatch
    body,       \* request_hash
    bodiless,   \* the route answers a success with 204 and no body
    result,     \* the handler's answer, kept until it is stored
    answer,     \* what the client was told, NULL while it waits or for ever
    record,     \* the row of idempotency_records, NULL before it exists
    effects,    \* requests whose handler has committed
    late        \* requests sent after one of their kind had its answer

vars == <<pc, body, bodiless, result, answer, record, effects, late>>

Phase == {"unsent", "sent", "running", "committed", "handled", "over"}

Init ==
    /\ pc = [r \in Requests |-> "unsent"]
    /\ body \in [Requests -> Bodies]
    /\ bodiless \in BOOLEAN
    /\ result = [r \in Requests |-> NULL]
    /\ answer = [r \in Requests |-> NULL]
    /\ record = NULL
    /\ effects = {}
    /\ late = {}

Goto(r, phase) == pc' = [pc EXCEPT ![r] = phase]

Tell(r, what) == Goto(r, "over") /\ answer' = [answer EXCEPT ![r] = what]

(* What is stored goes out parsed as JSON, which an empty body is not: the *)
(* client is told 500 of a success that the record keeps.                  *)
Parsed(what) == IF bodiless /\ what \in Requests THEN Failed ELSE what

(* The client sends the request, or sends it again.                        *)
Send(r) ==
    /\ pc[r] = "unsent"
    /\ Goto(r, "sent")
    /\ late' = IF \E q \in Requests : answer[q] \in Final THEN late \cup {r} ELSE late
    /\ UNCHANGED <<body, bodiless, result, answer, record, effects>>
-----------------------------------------------------------------------------
(* dispatch up to call_next.                                               *)

LookupReused(r) ==
    /\ pc[r] = "sent"
    /\ record # NULL
    /\ record.body # body[r]
    /\ Tell(r, Reused)
    /\ UNCHANGED <<body, bodiless, result, record, effects, late>>

(* Mutant: the record is replayed whatever the body was.                   *)
ReplayAnyBody(r) ==
    /\ pc[r] = "sent"
    /\ record # NULL
    /\ Tell(r, Parsed(record.answer))
    /\ UNCHANGED <<body, bodiless, result, record, effects, late>>

LookupReplay(r) ==
    /\ pc[r] = "sent"
    /\ record # NULL
    /\ record.body = body[r]
    /\ Tell(r, Parsed(record.answer))
    /\ UNCHANGED <<body, bodiless, result, record, effects, late>>

LookupMissing(r) ==
    /\ pc[r] = "sent"
    /\ record = NULL
    /\ Goto(r, "running")
    /\ UNCHANGED <<body, bodiless, result, answer, record, effects, late>>
-----------------------------------------------------------------------------
(* The handler.                                                            *)

HandlerCommits(r) ==
    /\ pc[r] = "running"
    /\ effects' = effects \cup {r}
    /\ Goto(r, "committed")
    /\ UNCHANGED <<body, bodiless, result, answer, record, late>>

HandlerSucceeds(r) ==
    /\ pc[r] = "committed"
    /\ result' = [result EXCEPT ![r] = r]
    /\ Goto(r, "handled")
    /\ UNCHANGED <<body, bodiless, answer, record, effects, late>>

HandlerRefuses(r) ==
    /\ pc[r] = "running"
    /\ result' = [result EXCEPT ![r] = Refused]
    /\ Goto(r, "handled")
    /\ UNCHANGED <<body, bodiless, answer, record, effects, late>>

(* An answer of 500 and above is not stored, whatever was committed.       *)
HandlerFails(r) ==
    /\ pc[r] \in {"running", "committed"}
    /\ Tell(r, Failed)
    /\ UNCHANGED <<body, bodiless, result, record, effects, late>>
-----------------------------------------------------------------------------
(* dispatch after call_next.                                               *)

(* Mutant: refusals are answered without being stored.                     *)
StoreSuccessOnly(r) ==
    /\ pc[r] = "handled"
    /\ record = NULL
    /\ record' = IF result[r] = Refused THEN NULL
                 ELSE [body |-> body[r], answer |-> result[r]]
    /\ Tell(r, Parsed(result[r]))
    /\ UNCHANGED <<body, bodiless, result, effects, late>>

Store(r) ==
    /\ pc[r] = "handled"
    /\ record = NULL
    /\ record' = [body |-> body[r], answer |-> result[r]]
    /\ Tell(r, Parsed(result[r]))
    /\ UNCHANGED <<body, bodiless, result, effects, late>>

(* Mutant: no unique constraint, the answer is given all the same.         *)
StoreSecond(r) ==
    /\ pc[r] = "handled"
    /\ record # NULL
    /\ Tell(r, Parsed(result[r]))
    /\ UNCHANGED <<body, bodiless, result, record, effects, late>>

(* uq_idempotency_owner_key_scope: the IntegrityError reaches the client.  *)
StoreRefused(r) ==
    /\ pc[r] = "handled"
    /\ record # NULL
    /\ Tell(r, Failed)
    /\ UNCHANGED <<body, bodiless, result, record, effects, late>>

(* The process dies: what was not answered never will be.                  *)
Crash ==
    /\ \E r \in Requests : pc[r] \notin {"unsent", "over"}
    /\ pc' = [r \in Requests |-> IF pc[r] = "unsent" THEN "unsent" ELSE "over"]
    /\ UNCHANGED <<body, bodiless, result, answer, record, effects, late>>

(* The connection drops on the way back; the client learns nothing.        *)
AnswerLost(r) ==
    /\ pc[r] = "handled"
    /\ record = NULL
    /\ record' = [body |-> body[r], answer |-> result[r]]
    /\ Goto(r, "over")
    /\ UNCHANGED <<body, bodiless, result, answer, effects, late>>
-----------------------------------------------------------------------------
Dispatch(r) ==
    \/ LookupReused(r)
    \/ LookupReplay(r)
    \/ LookupMissing(r)
    \/ HandlerCommits(r)
    \/ HandlerSucceeds(r)
    \/ HandlerRefuses(r)
    \/ HandlerFails(r)
    \/ Store(r)
    \/ StoreRefused(r)
    \/ AnswerLost(r)

Next == Crash \/ \E r \in Requests : Send(r) \/ Dispatch(r)

Spec == Init /\ [][Next]_vars
-----------------------------------------------------------------------------
(* Properties.                                                             *)

TypeOK ==
    /\ pc \in [Requests -> Phase]
    /\ body \in [Requests -> Bodies]
    /\ bodiless \in BOOLEAN
    /\ result \in [Requests -> Final \cup {NULL}]
    /\ answer \in [Requests -> Final \cup {Reused, Failed, NULL}]
    /\ record \in [body : Bodies, answer : Final] \cup {NULL}
    /\ effects \subseteq Requests
    /\ late \subseteq Requests

(* All who are given an answer are given one and the same, about their own *)
(* body, and what it says was made was made: two taps that both ran the    *)
(* handler never show the customer two different bookings.                 *)
OneAnswer ==
    \A r \in Requests : answer[r] \in Final =>
        /\ record # NULL
        /\ record = [body |-> body[r], answer |-> answer[r]]
        /\ answer[r] \in effects \cup {Refused}

(* Once anybody has had the answer, sending the request again is safe: it  *)
(* makes nothing, and is answered, refused for its body or left to the     *)
(* crash of the process, but never fails.                                  *)
LateIsSafe ==
    \A r \in late : r \notin effects /\ answer[r] # Failed

(* "A retry after a dropped connection, or a double tap on the button,     *)
(* would otherwise take a second cell": with the key only one is taken     *)
(* (require_idempotency_key).                                              *)
OneEffect == Cardinality(effects) <= 1
=============================================================================
