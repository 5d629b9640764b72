--------------------------- MODULE Reminders_proofs ---------------------------
(***************************************************************************)
(* For any bookings, clients and devices: a reminder is given to a device  *)
(* at most once, the rows tell the truth about it, and the app shows each  *)
(* reminder to its owner.                                                  *)
(***************************************************************************)
EXTENDS Reminders, FiniteSetTheorems, TLAPS

(* What the worker holds: its rows are recorded, and what it has yet to    *)
(* call has not been given the reminder.                                   *)
InHand(b) ==
    /\ row[b] = "recorded"
    /\ worker \in {"recorded", "unsent"} => \A d \in Devices : <<b, d>> \notin got
    /\ \A d \in targets[b] : <<b, d>> \notin got
    /\ IF b \in reached
       THEN \E d \in Devices : <<b, d>> \in got
       ELSE \A d \in Devices : <<b, d>> \in got => <<b, d>> \in unsure

(* The row in the app is there from the stamp on, and read by its owner.   *)
FeedInv ==
    \A b \in Bookings :
        /\ feed[b] \in {NULL, "unread", Owner[b]}
        /\ feed[b] # NULL <=> b \in reminded

IInv ==
    /\ TypeOK
    /\ FeedInv
    /\ AtMostOnce
    /\ RowTellsTruth
    /\ LookupStrandsNothing
    /\ pending \subseteq reminded
    /\ worker = "idle" => pending = {}
    /\ worker # "sending" => targets = Nowhere /\ reached = {}
    /\ reached \subseteq pending
    /\ \A pair \in got : pair[1] \in reminded
    /\ \A b \in pending : InHand(b)

LEMMA InitInv == Init => IInv
BY RemindersAssumption DEF Init, IInv, FeedInv, TypeOK, AtMostOnce, RowTellsTruth,
    LookupStrandsNothing, Nowhere, Pairs

LEMMA StepInv == IInv /\ [Next]_vars => IInv'
<1> SUFFICES ASSUME IInv, [Next]_vars PROVE IInv'
    OBVIOUS
<1> USE RemindersAssumption DEF IInv, dbVars, memoryVars, providerVars, historyVars, vars
<1>1. ASSUME NEW due \in SUBSET Bookings, run_escalation(due) PROVE IInv'
    <2>0. /\ pending = {} /\ targets = Nowhere /\ reached = {}
          /\ pending' \subseteq due
          /\ \A b \in due : \A d \in Devices : <<b, d>> \notin got
        <3>1. pending = {} /\ targets = Nowhere /\ reached = {}
            BY <1>1 DEF run_escalation
        <3>2. pending' \subseteq due
            BY <1>1 DEF run_escalation
        <3>3. \A b \in due : \A d \in Devices : <<b, d>> \notin got
            BY <1>1 DEF run_escalation
        <3> QED BY <3>1, <3>2, <3>3
    <2>1. TypeOK'
        BY <1>1, <2>0 DEF run_escalation, InApp, TypeOK, Pairs
    <2>2. RowTellsTruth' /\ LookupStrandsNothing'
        BY <1>1, <2>0 DEF run_escalation, TypeOK, RowTellsTruth, LookupStrandsNothing, InHand
    <2>3. (\A b \in pending : InHand(b))'
        BY <1>1, <2>0 DEF run_escalation, TypeOK, InHand, Nowhere
    <2>4. FeedInv'
        BY <1>1 DEF run_escalation, InApp, FeedInv, TypeOK
    <2> QED BY <1>1, <2>0, <2>1, <2>2, <2>3, <2>4 DEF run_escalation, AtMostOnce
<1>2. CASE FindDevices
    BY <1>2 DEF FindDevices, FeedInv, TypeOK, AtMostOnce, RowTellsTruth, LookupStrandsNothing,
        InHand, Pairs
<1>3. CASE LookupFails
    BY <1>3 DEF LookupFails, FeedInv, TypeOK, AtMostOnce, RowTellsTruth, LookupStrandsNothing,
        InHand, Pairs
<1>4. ASSUME NEW x \in Bookings, NEW y \in Devices, Push(x, y) PROVE IInv'
    <2>0. /\ <<x, y>> \notin got
          /\ again' = again
          /\ \/ /\ got' = got \cup {<<x, y>>}
                /\ reached' = reached \cup {x}
                /\ unsure' = unsure
             \/ /\ got' = got \cup {<<x, y>>}
                /\ reached' = reached
                /\ unsure' = unsure \cup {<<x, y>>}
             \/ UNCHANGED <<reached, got, unsure>>
        <3>1. PICK post \in Post :
                 /\ Given(x, y, post)
                 /\ reached' = IF post.last = "accepted" THEN reached \cup {x} ELSE reached
                 /\ unsure' = IF post.last = "lost" THEN unsure \cup {<<x, y>>} ELSE unsure
            BY <1>4 DEF Push
        <3>2. ~Took(post.first) /\ post.last \in Answer
            BY DEF Post, Took, Repeated, Answer
        <3>3. <<x, y>> \notin got
            BY <1>4 DEF Push, InHand
        <3> QED BY <3>1, <3>2, <3>3 DEF Given, Took, Answer
    <2>1. TypeOK'
        BY <1>4, <2>0 DEF Push, TypeOK, Pairs
    <2>2. AtMostOnce'
        BY <2>0 DEF AtMostOnce
    <2>3. RowTellsTruth' /\ LookupStrandsNothing'
        BY <1>4, <2>0 DEF Push, TypeOK, RowTellsTruth, LookupStrandsNothing, InHand
    <2>4. (\A b \in pending : InHand(b))'
        BY <1>4, <2>0 DEF Push, TypeOK, InHand
    <2> QED BY <1>4, <2>0, <2>1, <2>2, <2>3, <2>4 DEF Push, FeedInv
<1>5. CASE Settle
    BY <1>5 DEF Settle, FeedInv, Done, Rest, Outcome, Nowhere, TypeOK, AtMostOnce, RowTellsTruth,
        LookupStrandsNothing, InHand, Pairs
<1>6. CASE SettleRefused \/ Crash
    BY <1>6 DEF SettleRefused, Crash, FeedInv, Done, Rest, Nowhere, TypeOK, AtMostOnce,
        RowTellsTruth, LookupStrandsNothing, InHand, Pairs
<1>7. CASE ClientStep
    <2>1. /\ Committed
          /\ willing' \subseteq Clients
          /\ tokens' \in [Clients -> SUBSET Devices]
          /\ feed' \in [Bookings -> {NULL, "unread"} \cup Clients]
        BY <1>7 DEF ClientStep, register_push_token, revoke_push_token, update_settings,
            OtherWriter, mark_read, TypeOK
    <2>2. \A b \in Bookings : feed'[b] = feed[b] \/ (feed[b] = "unread" /\ feed'[b] = Owner[b])
        BY <1>7 DEF ClientStep, register_push_token, revoke_push_token, update_settings,
            OtherWriter, mark_read, TypeOK
    <2>3. FeedInv'
        BY <2>1, <2>2 DEF Committed, FeedInv
    <2> QED BY <2>1, <2>3 DEF Committed, TypeOK, AtMostOnce, RowTellsTruth, LookupStrandsNothing,
        InHand, Pairs
<1>8. CASE UNCHANGED vars
    BY <1>8 DEF FeedInv, TypeOK, AtMostOnce, RowTellsTruth, LookupStrandsNothing, InHand, Pairs
<1> QED BY <1>1, <1>2, <1>3, <1>4, <1>5, <1>6, <1>7, <1>8 DEF Next, WorkerStep

LEMMA AlwaysInv == Spec => []IInv
BY InitInv, StepInv, PTL DEF Spec

(* Types hold for any bookings, clients and devices.                       *)
THEOREM TypeCorrect == Spec => []TypeOK
<1>1. IInv => TypeOK
    BY DEF IInv
<1> QED BY <1>1, AlwaysInv, PTL

(* No device is given one reminder twice, over any crashes, failures and   *)
(* refused commits.                                                        *)
THEOREM RemindersOnce == Spec => []AtMostOnce
<1>1. IInv => AtMostOnce
    BY DEF IInv
<1> QED BY <1>1, AlwaysInv, PTL

(* sent_at and error never mislead whoever reads a row.                    *)
THEOREM RowsTrue == Spec => []RowTellsTruth
<1>1. IInv => RowTellsTruth
    BY DEF IInv
<1> QED BY <1>1, AlwaysInv, PTL

(* Only a crash or a refused commit leaves a row without an outcome.       *)
THEOREM OnlyCrashOrRefusalStrands == Spec => []LookupStrandsNothing
<1>1. IInv => LookupStrandsNothing
    BY DEF IInv
<1> QED BY <1>1, AlwaysInv, PTL
-----------------------------------------------------------------------------
(* The feed.                                                               *)

LEMMA ImageCounts ==
    ASSUME NEW S, IsFiniteSet(S), NEW f, \A x, y \in S : f[x] = f[y] => x = y
    PROVE  Cardinality({f[x] : x \in S}) = Cardinality(S)
<1> DEFINE g == [x \in S |-> f[x]]
           T == {f[x] : x \in S}
<1>1. g \in Bijection(S, T)
    BY DEF Bijection, Injection, IsInjective, Surjection
<1>2. ExistsBijection(S, T)
    BY <1>1 DEF ExistsBijection
<1> HIDE DEF T
<1>3. Cardinality(T) = Cardinality(S)
    BY <1>2, FS_Bijection
<1> QED BY <1>3 DEF T

LEMMA RowsCount ==
    ASSUME NEW S \in SUBSET Bookings
    PROVE  Cardinality({[channel |-> "in_app", of |-> b] : b \in S}) = Cardinality(S)
<1> DEFINE f == [b \in S |-> [channel |-> "in_app", of |-> b]]
<1>1. IsFiniteSet(S)
    BY RemindersAssumption, FS_Subset
<1>2. \A x, y \in S : f[x] = f[y] => x = y
    OBVIOUS
<1>3. {f[x] : x \in S} = {[channel |-> "in_app", of |-> b] : b \in S}
    OBVIOUS
<1> HIDE DEF f
<1>4. Cardinality({f[x] : x \in S}) = Cardinality(S)
    BY <1>1, <1>2, ImageCounts
<1> QED BY <1>3, <1>4

(* The app shows each reminder once, to its owner only, and its badge      *)
(* counts the unread ones, whatever becomes of the pushes.                 *)
THEOREM FeedWhole == Spec => []FeedIsWhole
<1>1. ASSUME IInv, NEW c \in Clients
      PROVE  LET shown == list_notifications(c, FALSE)
             IN  /\ {n.of : n \in shown} = RemindersOf(c)
                 /\ Cardinality(shown) = Cardinality(RemindersOf(c))
                 /\ unread_count(c) = Cardinality({b \in RemindersOf(c) : feed[b] # c})
    <2> USE RemindersAssumption
    <2> DEFINE fresh == {b \in RemindersOf(c) : feed[b] # c}
    <2>1. TypeOK /\ FeedInv
        BY <1>1 DEF IInv
    <2>2. RemindersOf(c) = {b \in Bookings : Owner[b] = c /\ feed[b] # NULL}
        BY <2>1 DEF RemindersOf, FeedInv, TypeOK
    <2>3. FeedOf(c) = {[channel |-> "in_app", of |-> b] : b \in RemindersOf(c)}
        BY <2>2 DEF FeedOf, NotificationsOf
    <2>4. list_notifications(c, FALSE) = FeedOf(c)
        BY DEF list_notifications
    <2>5. {n \in FeedOf(c) : Unread(n)} = {[channel |-> "in_app", of |-> b] : b \in fresh}
        <3>1. \A b \in RemindersOf(c) : feed[b] = "unread" <=> feed[b] # c
            BY <2>1, <2>2 DEF FeedInv
        <3>2. \A b : Unread([channel |-> "in_app", of |-> b]) <=> feed[b] = "unread"
            BY DEF Unread
        <3> QED BY <2>3, <3>1, <3>2
    <2>6. RemindersOf(c) \subseteq Bookings /\ fresh \subseteq Bookings
        BY <2>2
    <2> HIDE DEF fresh
    <2>7. Cardinality(FeedOf(c)) = Cardinality(RemindersOf(c))
        BY <2>3, <2>6, RowsCount
    <2>8. unread_count(c) = Cardinality(fresh)
        BY <2>5, <2>6, RowsCount DEF unread_count
    <2>9. {n.of : n \in FeedOf(c)} = RemindersOf(c)
        <3>1. \A n \in FeedOf(c) : n.of \in RemindersOf(c)
            BY <2>3
        <3>2. ASSUME NEW b \in RemindersOf(c) PROVE \E n \in FeedOf(c) : n.of = b
            <4>1. [channel |-> "in_app", of |-> b] \in FeedOf(c)
                BY <2>3
            <4> QED BY <4>1
        <3> QED BY <3>1, <3>2
    <2> QED BY <2>4, <2>7, <2>8, <2>9 DEF fresh
<1>2. IInv => FeedIsWhole
    BY <1>1 DEF FeedIsWhole
<1> QED BY <1>2, AlwaysInv, PTL
=============================================================================
