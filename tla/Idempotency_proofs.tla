------------------------- MODULE Idempotency_proofs -------------------------
(***************************************************************************)
(* One key, any number of requests: whoever is answered is answered alike, *)
(* and repeating an answered request is safe.                              *)
(***************************************************************************)
EXTENDS Idempotency, TLAPS

(* What is stored, and what is about to be, was really done.               *)
Done(what) == what \in effects \cup {Refused}

(* The invariant of one request.  A late one is replayed or turned away in *)
(* its lookup, because the answer its sender had seen was stored first;    *)
(* and what could be said once can be said again.                          *)
Request(r) ==
    /\ pc[r] = "unsent" => r \notin effects /\ answer[r] = NULL
    /\ pc[r] = "committed" => r \in effects
    /\ pc[r] = "handled" => Done(result[r])
    /\ answer[r] \in Final =>
          /\ record # NULL
          /\ record = [body |-> body[r], answer |-> answer[r]]
          /\ bodiless => answer[r] = Refused
    /\ r \in late =>
          /\ record # NULL
          /\ bodiless => record.answer = Refused
          /\ pc[r] \in {"sent", "over"}
          /\ r \notin effects
          /\ answer[r] # Failed

Recorded == record # NULL => Done(record.answer)

IInv == TypeOK /\ Recorded /\ \A r \in Requests : Request(r)

(* What is told of a stored answer: the answer itself, or a failure.       *)
LEMMA ToldOrFailed ==
    ASSUME NEW what \in Final
    PROVE  /\ Parsed(what) \in Final => Parsed(what) = what /\ (bodiless => what = Refused)
           /\ Parsed(what) \notin Final => Parsed(what) = Failed /\ bodiless /\ what # Refused
           /\ Failed \notin Final
BY IdempotencyAssumption DEF Parsed, Final, Refused, Failed

LEMMA InitInv == Init => IInv
BY IdempotencyAssumption
   DEF Init, IInv, TypeOK, Recorded, Request, Phase, Final, Refused, Reused, Failed

LEMMA StepType == IInv /\ [Next]_vars => TypeOK'
<1> SUFFICES ASSUME IInv, [Next]_vars PROVE TypeOK'
    OBVIOUS
<1> USE IdempotencyAssumption DEF IInv, TypeOK, Phase, Final, Tell, Goto, Parsed
<1>1. ASSUME NEW r \in Requests, Send(r) PROVE TypeOK'
    BY <1>1 DEF Send
<1>2. ASSUME NEW r \in Requests, LookupReused(r) \/ LookupReplay(r) \/ LookupMissing(r)
      PROVE  TypeOK'
    BY <1>2 DEF LookupReused, LookupReplay, LookupMissing
<1>3. ASSUME NEW r \in Requests,
             HandlerCommits(r) \/ HandlerSucceeds(r) \/ HandlerRefuses(r) \/ HandlerFails(r)
      PROVE  TypeOK'
    BY <1>3 DEF HandlerCommits, HandlerSucceeds, HandlerRefuses, HandlerFails
<1>4. ASSUME NEW r \in Requests, Store(r) \/ StoreRefused(r) \/ AnswerLost(r)
      PROVE  TypeOK'
    <2>1. pc[r] = "handled" => result[r] \in Final
        BY DEF Request, Done
    <2> QED BY <1>4, <2>1 DEF Store, StoreRefused, AnswerLost
<1>5. CASE Crash
    BY <1>5 DEF Crash
<1>6. CASE UNCHANGED vars
    BY <1>6 DEF vars
<1> QED BY <1>1, <1>2, <1>3, <1>4, <1>5, <1>6 DEF Next, Dispatch

(* Answers and records are written once and effects are never undone.      *)
LEMMA StepRecorded == IInv /\ [Next]_vars => Recorded'
<1> SUFFICES ASSUME IInv, [Next]_vars PROVE Recorded'
    OBVIOUS
<1>1. effects \subseteq effects'
    BY DEF Next, Dispatch, Send, LookupReused, LookupReplay, LookupMissing, HandlerCommits,
        HandlerSucceeds, HandlerRefuses, HandlerFails, Store, StoreRefused, AnswerLost,
        Crash, vars
<1>2. CASE record' = record
    BY <1>1, <1>2 DEF IInv, Recorded, Done
<1>3. ASSUME NEW r \in Requests, Store(r) \/ AnswerLost(r) PROVE Recorded'
    BY <1>1, <1>3 DEF IInv, Recorded, Request, Done, Store, AnswerLost
<1> QED
    BY <1>2, <1>3 DEF Next, Dispatch, Send, LookupReused, LookupReplay, LookupMissing,
        HandlerCommits, HandlerSucceeds, HandlerRefuses, HandlerFails, StoreRefused,
        Crash, vars

LEMMA StepRequest ==
    ASSUME IInv, [Next]_vars, NEW q \in Requests
    PROVE  Request(q)'
<1> USE IdempotencyAssumption DEF IInv, TypeOK, Request, Done, Tell, Goto
<1>1. ASSUME NEW r \in Requests, Send(r) PROVE Request(q)'
    <2>1. r \in late' => record # NULL
        BY <1>1 DEF Send
    <2> QED BY <1>1, <2>1 DEF Send
<1>2. ASSUME NEW r \in Requests, LookupReused(r) PROVE Request(q)'
    <2>1. Reused \notin Final /\ Reused # Failed
        BY DEF Final, Reused, Failed, Refused
    <2> QED BY <1>2, <2>1 DEF LookupReused
<1>3. ASSUME NEW r \in Requests, LookupReplay(r) PROVE Request(q)'
    <2>1. record.answer \in Final /\ record = [body |-> body[r], answer |-> record.answer]
        BY <1>3 DEF LookupReplay
    <2>2. CASE q = r
        BY <1>3, <2>1, <2>2, ToldOrFailed DEF LookupReplay
    <2>3. CASE q # r
        BY <1>3, <2>3 DEF LookupReplay
    <2> QED BY <2>2, <2>3
<1>4. ASSUME NEW r \in Requests, LookupMissing(r) PROVE Request(q)'
    BY <1>4 DEF LookupMissing
<1>5. ASSUME NEW r \in Requests, HandlerCommits(r) PROVE Request(q)'
    BY <1>5 DEF HandlerCommits
<1>6. ASSUME NEW r \in Requests, HandlerSucceeds(r) \/ HandlerRefuses(r)
      PROVE  Request(q)'
    BY <1>6 DEF HandlerSucceeds, HandlerRefuses
<1>7. ASSUME NEW r \in Requests, HandlerFails(r) PROVE Request(q)'
    BY <1>7 DEF HandlerFails, Final, Refused, Failed
<1>8. ASSUME NEW r \in Requests, Store(r) PROVE Request(q)'
    <2>1. result[r] \in Final
        BY <1>8 DEF Store, Final, Refused
    <2>2. record' # NULL /\ record' = [body |-> body[r], answer |-> result[r]]
        BY <1>8, <2>1 DEF Store
    <2>3. CASE q = r
        BY <1>8, <2>1, <2>2, <2>3, ToldOrFailed DEF Store
    <2>4. CASE q # r
        BY <1>8, <2>2, <2>4 DEF Store
    <2> QED BY <2>3, <2>4
<1>9. ASSUME NEW r \in Requests, StoreRefused(r) \/ AnswerLost(r) PROVE Request(q)'
    BY <1>9 DEF StoreRefused, AnswerLost, Final, Refused, Failed
<1>10. CASE Crash
    BY <1>10 DEF Crash
<1>11. CASE UNCHANGED vars
    BY <1>11 DEF vars
<1> QED
    BY <1>1, <1>2, <1>3, <1>4, <1>5, <1>6, <1>7, <1>8, <1>9, <1>10, <1>11
       DEF Next, Dispatch

LEMMA InvHolds == Spec => []IInv
<1>1. IInv /\ [Next]_vars => IInv'
    BY StepType, StepRecorded, StepRequest DEF IInv
<1> QED BY InitInv, <1>1, PTL DEF Spec

(* Types, and that no 5xx answer is ever stored (dispatch, line 187).      *)
THEOREM TypeCorrect == Spec => []TypeOK
<1>1. IInv => TypeOK
    BY DEF IInv
<1> QED BY InvHolds, <1>1, PTL

(* One key, one answer (dispatch, the unique constraint of its records).   *)
THEOREM AnswersAgree == Spec => []OneAnswer
<1>1. IInv => OneAnswer
    BY DEF IInv, OneAnswer, Request, Recorded, Done
<1> QED BY InvHolds, <1>1, PTL

(* A retry sent after an answer was had makes nothing new (dispatch).      *)
THEOREM RetriesSafe == Spec => []LateIsSafe
<1>1. IInv => LateIsSafe
    BY DEF IInv, TypeOK, LateIsSafe, Request
<1> QED BY InvHolds, <1>1, PTL
=============================================================================
