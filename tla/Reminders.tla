------------------------------ MODULE Reminders ------------------------------
(***************************************************************************)
(* The pushed reminder that storage is about to end: the overdue worker of *)
(* app/workers/overdue.py with deliver_pending of                          *)
(* app/modules/notify/service.py.  One transaction stamps reminded_at and  *)
(* records the rows, then the provider is called device by device, and a   *)
(* second transaction writes what came of it.  The second one has read the *)
(* device tokens before the calls, so SQLite refuses its writes when       *)
(* anybody else has committed in the meantime (core/db.py).                *)
(*                                                                         *)
(* Which bookings are due is the matter of module Booking; here a tick may *)
(* find any that are not reminded yet.  The provider is not in the         *)
(* repository: FcmPushProvider (app/modules/notify/push.py) calls it, and  *)
(* calls again with a new bearer token when it turns down the old one.     *)
(***************************************************************************)
EXTENDS FiniteSets

CONSTANTS
    Bookings,
    Clients,
    Devices,
    Owner,          \* bookings.client_id
    NULL

ASSUME RemindersAssumption ==
    /\ Owner \in [Bookings -> Clients]
    /\ IsFiniteSet(Bookings)
    /\ NULL \notin {"recorded", "sent", "failed", "accepted", "lost", "refused", "denied"}
    /\ NULL # "unread"
    /\ {NULL, "unread"} \cap Clients = {}

VARIABLES
    reminded,   \* bookings with reminded_at
    willing,    \* clients with push_expiring_soon
    tokens,     \* push_tokens not revoked, by client
    row,        \* pushes in notifications: NULL, sent_at and error unset, sent_at, error
    feed,       \* in-app rows beside them: NULL, "unread", or who has read it
    worker,     \* where the worker is
    pending,    \* the rows in its hands
    targets,    \* devices it has yet to call, by booking
    reached,    \* rows with sent_at in its memory
    stale,      \* somebody has committed since its transaction first read
    got,        \* reminders a device has been given
    again,      \* reminders it has been given more than once
    unsure,     \* accepted, but the answer was lost
    crashed,    \* rows it had in hand when it died
    refused     \* rows it had in hand when its commit was refused

dbVars       == <<reminded, willing, tokens, row, feed>>
memoryVars   == <<worker, pending, targets, reached, stale>>
providerVars == <<got, again, unsure>>
historyVars  == <<crashed, refused>>
vars         == <<dbVars, memoryVars, providerVars, historyVars>>

Nowhere == [b \in Bookings |-> {}]

Init ==
    /\ reminded = {}
    /\ willing = Clients
    /\ tokens = [c \in Clients |-> {}]
    /\ row = [b \in Bookings |-> NULL]
    /\ feed = [b \in Bookings |-> NULL]
    /\ worker = "idle"
    /\ pending = {}
    /\ targets = Nowhere
    /\ reached = {}
    /\ stale = FALSE
    /\ got = {}
    /\ again = {}
    /\ unsure = {}
    /\ crashed = {}
    /\ refused = {}
-----------------------------------------------------------------------------
(* The worker.                                                             *)

(* _push_expiring_enabled                                                  *)
Enabled(b) == Owner[b] \in willing

(* Every reminder is in the app, whether or not it is pushed too.          *)
InApp(due) == [b \in Bookings |-> IF b \in due THEN "unread" ELSE feed[b]]

(* run_escalation up to its first commit.                                  *)
run_escalation(due) ==
    /\ worker = "idle"
    /\ due # {}
    /\ due \cap reminded = {}
    /\ reminded' = reminded \cup due
    /\ pending' = {b \in due : Enabled(b)}
    /\ worker' = IF pending' = {} THEN "idle" ELSE "recorded"
    /\ row' = [b \in Bookings |-> IF b \in pending' THEN "recorded" ELSE row[b]]
    /\ feed' = InApp(due)
    /\ UNCHANGED <<willing, tokens, targets, reached, stale, providerVars, historyVars>>

(* _devices_for: its query begins the second transaction.                  *)
FindDevices ==
    /\ worker = "recorded"
    /\ worker' = "sending"
    /\ targets' = [b \in Bookings |-> IF b \in pending THEN tokens[Owner[b]] ELSE {}]
    /\ stale' = FALSE
    /\ UNCHANGED <<dbVars, pending, reached, providerVars, historyVars>>

(* Mutant: the failure leaves deliver_pending and ends the tick.           *)
LookupRaises ==
    /\ worker = "recorded"
    /\ worker' = "idle"
    /\ pending' = {}
    /\ UNCHANGED <<dbVars, targets, reached, stale, providerVars, historyVars>>

(* The query fails, the transaction is rolled back, and every row is given *)
(* the error; the transaction that writes them has read nothing.           *)
LookupFails ==
    /\ worker = "recorded"
    /\ worker' = "unsent"
    /\ UNCHANGED <<dbVars, pending, targets, reached, stale, providerVars, historyVars>>

(* One call to the provider: it takes the message, or takes it and the     *)
(* answer is lost; it turns the message down, or the credentials.          *)
Answer == {"accepted", "lost", "refused", "denied"}

Took(answer) == answer \in {"accepted", "lost"}

(* Mutant: whatever fails is tried again.                                  *)
RepeatedFailures == {"denied", "lost", "refused"}

(* A bearer token that is turned down is renewed and the call repeated.    *)
Repeated == {"denied"}

(* _post: the answer before the repetition, if there is one, and the last. *)
Post ==
    [first : {NULL}, last : Answer \ Repeated] \cup [first : Repeated, last : Answer]

Given(b, d, post) ==
    LET took == Took(post.first) \/ Took(post.last)
        twice == Took(post.first) /\ Took(post.last)
    IN  /\ got' = IF took THEN got \cup {<<b, d>>} ELSE got
        /\ again' = IF twice \/ (took /\ <<b, d>> \in got)
                     THEN again \cup {<<b, d>>} ELSE again

(* _send_push for one device.  A bad one does not stop the others.         *)
Push(b, d) ==
    /\ worker = "sending"
    /\ b \in pending
    /\ d \in targets[b]
    /\ targets' = [targets EXCEPT ![b] = @ \ {d}]
    /\ \E post \in Post :
          /\ Given(b, d, post)
          /\ reached' = IF post.last = "accepted" THEN reached \cup {b} ELSE reached
          /\ unsure' = IF post.last = "lost" THEN unsure \cup {<<b, d>>} ELSE unsure
    /\ UNCHANGED <<dbVars, worker, pending, stale, historyVars>>

(* Mutant: sent_at is set whether or not anybody was reached.              *)
OutcomeUnchecked(b) == "sent"

(* error means that nobody got it; one device is enough for sent_at.       *)
Outcome(b) == IF b \in reached THEN "sent" ELSE "failed"

Done == worker = "unsent" \/ (worker = "sending" /\ \A b \in pending : targets[b] = {})

Rest ==
    /\ worker' = "idle"
    /\ pending' = {}
    /\ targets' = Nowhere
    /\ reached' = {}
    /\ stale' = FALSE

Settle ==
    /\ Done
    /\ ~stale
    /\ row' = [b \in Bookings |-> IF b \in pending THEN Outcome(b) ELSE row[b]]
    /\ Rest
    /\ UNCHANGED <<reminded, willing, tokens, feed, providerVars, historyVars>>

(* The commit is refused, and the loop of main.py logs it and goes on.     *)
SettleRefused ==
    /\ Done
    /\ stale
    /\ refused' = refused \cup pending
    /\ Rest
    /\ UNCHANGED <<dbVars, providerVars, crashed>>

Crash ==
    /\ worker # "idle"
    /\ crashed' = crashed \cup pending
    /\ Rest
    /\ UNCHANGED <<dbVars, providerVars, refused>>
-----------------------------------------------------------------------------
(* Everybody else.  Whatever commits makes a transaction that has read     *)
(* stale.                                                                  *)

Committed ==
    /\ stale' = (stale \/ worker = "sending")
    /\ UNCHANGED <<reminded, row, worker, pending, targets, reached, providerVars, historyVars>>

register_push_token(c, d) ==
    /\ tokens' = [tokens EXCEPT ![c] = @ \cup {d}]
    /\ Committed
    /\ UNCHANGED <<willing, feed>>

revoke_push_token(c, d) ==
    /\ d \in tokens[c]
    /\ tokens' = [tokens EXCEPT ![c] = @ \ {d}]
    /\ Committed
    /\ UNCHANGED <<willing, feed>>

update_settings(c) ==
    /\ willing' \in {willing \cup {c}, willing \ {c}}
    /\ Committed
    /\ UNCHANGED <<tokens, feed>>

(* Any other request that writes: the commonest of all.                    *)
OtherWriter == Committed /\ UNCHANGED <<willing, tokens, feed>>
-----------------------------------------------------------------------------
(* The feed of the app.                                                    *)

(* Notification rows of a client, of every channel.  A push has no read_at.*)
NotificationsOf(c) ==
    [channel : {"in_app"}, of : {b \in Bookings : Owner[b] = c /\ feed[b] # NULL}]
        \cup [channel : {"push"}, of : {b \in Bookings : Owner[b] = c /\ row[b] # NULL}]

Unread(n) == n.channel = "push" \/ feed[n.of] = "unread"

(* Mutant: the rows of all channels.                                       *)
FeedOfAll(c) == NotificationsOf(c)

(* _FEED: the in-app channel and nothing else.                             *)
FeedOf(c) == {n \in NotificationsOf(c) : n.channel = "in_app"}

list_notifications(c, unread_only) == {n \in FeedOf(c) : unread_only => Unread(n)}

unread_count(c) == Cardinality({n \in FeedOf(c) : Unread(n)})

(* ids are whatever the client sends.                                      *)
mark_read(c, ids) ==
    /\ feed' = [b \in Bookings |->
          IF feed[b] = "unread" /\ Owner[b] = c /\ b \in ids THEN c ELSE feed[b]]
    /\ Committed
    /\ UNCHANGED <<willing, tokens>>
-----------------------------------------------------------------------------
WorkerStep ==
    \/ \E due \in SUBSET Bookings : run_escalation(due)
    \/ FindDevices
    \/ LookupFails
    \/ \E b \in Bookings, d \in Devices : Push(b, d)
    \/ Settle
    \/ SettleRefused

ClientStep ==
    \/ \E c \in Clients, d \in Devices : register_push_token(c, d) \/ revoke_push_token(c, d)
    \/ \E c \in Clients : update_settings(c)
    \/ \E c \in Clients, ids \in SUBSET Bookings : mark_read(c, ids)
    \/ OtherWriter

Next == WorkerStep \/ Crash \/ ClientStep

Spec == Init /\ [][Next]_vars
-----------------------------------------------------------------------------
(* Properties.                                                             *)

Pairs == Bookings \X Devices

TypeOK ==
    /\ reminded \subseteq Bookings
    /\ willing \subseteq Clients
    /\ tokens \in [Clients -> SUBSET Devices]
    /\ row \in [Bookings -> {NULL, "recorded", "sent", "failed"}]
    /\ feed \in [Bookings -> {NULL, "unread"} \cup Clients]
    /\ worker \in {"idle", "recorded", "sending", "unsent"}
    /\ pending \subseteq Bookings
    /\ targets \in [Bookings -> SUBSET Devices]
    /\ reached \subseteq Bookings
    /\ stale \in BOOLEAN
    /\ got \subseteq Pairs /\ again \subseteq got /\ unsure \subseteq got
    /\ crashed \subseteq Bookings /\ refused \subseteq Bookings
    /\ \A b \in Bookings : row[b] # NULL => b \in reminded

(* No device is given one reminder twice, whatever crashes, fails or is    *)
(* refused: "Stamped so a worker running every few minutes sends this once *)
(* rather than every few minutes", also when a commit fails behind a push. *)
AtMostOnce == again = {}

(* An operator who reads the rows is not misled: sent_at means that a      *)
(* device was given it, "`error` means nobody got this" unless the         *)
(* provider's answers were lost.                                           *)
RowTellsTruth ==
    \A b \in Bookings :
        /\ row[b] = "sent" => \E d \in Devices : <<b, d>> \in got
        /\ row[b] = "failed" => \A d \in Devices : <<b, d>> \in got => <<b, d>> \in unsure

(* A failed lookup of devices strands nothing: a row without sent_at and   *)
(* error that nobody works on was dropped by a crash or a refused commit.  *)
LookupStrandsNothing ==
    \A b \in Bookings : row[b] = "recorded" => b \in pending \cup crashed \cup refused

RemindersOf(c) == {b \in reminded : Owner[b] = c}

(* Whatever becomes of the pushes, the app shows each reminder once to its *)
(* owner and to nobody else, its badge counts the reminders that the owner *)
(* has not read, and nobody reads them for somebody else: "an id list from *)
(* a client is not a licence to touch somebody else's row".                *)
FeedIsWhole ==
    \A c \in Clients :
        LET shown == list_notifications(c, FALSE)
        IN  /\ {n.of : n \in shown} = RemindersOf(c)
            /\ Cardinality(shown) = Cardinality(RemindersOf(c))
            /\ unread_count(c) = Cardinality({b \in RemindersOf(c) : feed[b] # c})
=============================================================================
