---------------------------- MODULE Codes_proofs ----------------------------
(***************************************************************************)
(* For any bookings, phones, codes and number of requests at once: nobody  *)
(* but those concerned knows a code that opens a door, and no message is   *)
(* ahead of the database.                                                  *)
(*                                                                         *)
(* The argument: between the flush and the commit of a rotation the write  *)
(* lock keeps every other commit out, so what its message was addressed by *)
(* is still so when the code is written, and no code is of use to anybody  *)
(* before that.  A first code is written before it is sent; whoever        *)
(* replaces the courier meanwhile replaces the code too.                   *)
(***************************************************************************)
EXTENDS Codes, TLAPS

Pends(r, op) == request[r] # NULL /\ request[r].op = op

(* Requests that carry a code.                                             *)
Coded(r) == Pends(r, "created") \/ Pends(r, "told") \/ InSending(r)

AccessCode == [booking : Bookings, purpose : Purpose, code : CodeIds]

Notification == [phone : Phones, sent : BOOLEAN, error : BOOLEAN, delivered : BOOLEAN]

TypeInv ==
    /\ stage \in [Bookings -> Stage \cup {NULL}]
    /\ recipient \in [Bookings -> Phones \cup {NULL}]
    /\ courier \in [Bookings -> Phones \cup {NULL}]
    /\ \A b \in Bookings : stage[b] # NULL => recipient[b] \in Phones
    /\ grants \subseteq AccessCode
    /\ rows \in [CodeIds -> Notification \cup {NULL}]
    /\ DOMAIN request = Requests /\ request = [r \in Requests |-> request[r]]
    /\ issued \in 0 .. MaxCodes
    /\ gateway \in [CodeIds -> Message \cup {NULL}]
    /\ known \subseteq Phones \X CodeIds
    /\ written \subseteq CodeIds

(* Nothing is known yet of a code that has not been issued.                *)
FreshInv ==
    /\ \A c \in written : c <= issued
    /\ \A g \in grants : g.code \in written
    /\ \A phone \in Phones, c \in CodeIds : <<phone, c>> \in known => c <= issued
    /\ \A c \in CodeIds : gateway[c] # NULL => c <= issued
    /\ \A r \in Requests : Coded(r) => request[r].code \in CodeIds /\ request[r].code <= issued

GrantInv ==
    /\ \A g \in grants : stage[g.booking] # NULL
    /\ \A g, h \in grants : g.code = h.code => g = h

(* Requests that have read their booking and not been overtaken: the       *)
(* recipient that was read is the recipient there is.                      *)
Asked(op, b, asked) ==
    /\ b \in Bookings
    /\ stage[b] # NULL
    /\ op = "rotate_deposit" => asked \in Phones \cup {NULL}
    /\ op = "rotate_pickup" => asked = recipient[b]
    /\ op = "transfer" => asked \in Phones

ReadsTrue(r) ==
    request[r] # NULL /\ request[r].op \in Rotation =>
        Asked(request[r].op, request[r].booking, request[r].phone)

(* Whom the code of a rotation is for, once it is written.                 *)
Addressee(op, b, asked) ==
    IF op # "rotate_deposit" \/ asked # NULL THEN asked
    ELSE IF courier[b] # NULL THEN courier[b]
    ELSE Sender

SendingInv(r) ==
    InSending(r) =>
        /\ lock = r
        /\ request[r] \in Sending
        /\ Asked(request[r].of, request[r].booking, request[r].asked)
        /\ request[r].phone = Addressee(request[r].of, request[r].booking, request[r].asked)
        /\ request[r].code \notin written
        /\ request[r].op = "flushed" => gateway[request[r].code] = NULL
        /\ request[r].op = "sent" =>
              gateway[request[r].code] =
                  [phone |-> request[r].phone, outcome |-> request[r].outcome]
        /\ \A phone \in Phones :
              <<phone, request[r].code>> \in known =>
                  request[r].op = "sent" /\ phone = request[r].phone

(* A first code that still opens a door is the courier's.                  *)
CourierInv(r) ==
    Pends(r, "created") \/ Pends(r, "told") =>
        /\ request[r].code \in written
        /\ request[r].phone \in Phones \cup {NULL}
        /\ \A g \in grants : g.code = request[r].code =>
              g.purpose = "deposit" /\ courier[g.booking] = request[r].phone
        /\ Pends(r, "created") => gateway[request[r].code] = NULL
        /\ Pends(r, "told") =>
              /\ request[r].phone \in Phones
              /\ request[r].outcome \in SmsOutcome
              /\ gateway[request[r].code] =
                    [phone |-> request[r].phone, outcome |-> request[r].outcome]

Apart ==
    \A r, x \in Requests :
        Coded(r) /\ Coded(x) /\ request[r].code = request[x].code => r = x

RequestInv ==
    /\ \A r \in Requests : ReadsTrue(r) /\ SendingInv(r) /\ CourierInv(r)
    /\ Apart

(* What arrived is known to whom it was sent, and its row names the phone. *)
DeliveryInv ==
    \A c \in CodeIds :
        /\ gateway[c] # NULL /\ Arrived(gateway[c].outcome) => <<gateway[c].phone, c>> \in known
        /\ rows[c] # NULL => gateway[c] # NULL /\ rows[c].phone = gateway[c].phone

(* Also of codes that open no door any more.                               *)
KnowInv ==
    \A g \in grants, phone \in Phones :
        <<phone, g.code>> \in known => phone \in Concerned(g.booking, g.purpose)

IInv ==
    /\ TypeInv
    /\ FreshInv
    /\ GrantInv
    /\ RequestInv
    /\ DeliveryInv
    /\ KnowInv
    /\ MessageIsTrue
-----------------------------------------------------------------------------
(* Requests.                                                               *)

(* A request that does not move, and of whose code nothing new is heard.   *)
LEMMA RequestKept ==
    ASSUME NEW r \in Requests,
           request'[r] = request[r],
           ReadsTrue(r), SendingInv(r), CourierInv(r),
           UNCHANGED <<stage, recipient, courier, grants, written>>,
           InSending(r) => lock' = lock,
           Coded(r) => gateway'[request[r].code] = gateway[request[r].code],
           InSending(r) => \A phone \in Phones :
               <<phone, request[r].code>> \in known' => <<phone, request[r].code>> \in known
    PROVE  ReadsTrue(r)' /\ SendingInv(r)' /\ CourierInv(r)'
<1>1. ReadsTrue(r)'
    BY DEF ReadsTrue, Asked
<1>2. SendingInv(r)'
    BY DEF SendingInv, InSending, Coded, Asked, Addressee
<1>3. CourierInv(r)'
    BY DEF CourierInv, Pends, Coded
<1> QED BY <1>1, <1>2, <1>3

(* After a commit only first codes are still to be sent.                   *)
LEMMA OvertakenLeaves ==
    ASSUME NEW x, request' = Overtaken(x), NEW r \in Requests
    PROVE  /\ ReadsTrue(r)' /\ SendingInv(r)' /\ ~Pends(r, "told")' /\ ~InSending(r)'
           /\ Pends(r, "created")' => r # x /\ Pends(r, "created") /\ request'[r] = request[r]
<1>1. request'[r] = IF r = x THEN NULL
                    ELSE IF Reading(r) THEN OVERTAKEN ELSE request[r]
    BY DEF Overtaken
<1>2. \/ request'[r] = NULL
      \/ request'[r] = OVERTAKEN
      \/ r # x /\ Pends(r, "created") /\ request'[r] = request[r]
    BY <1>1 DEF Reading, Pends
<1> QED BY <1>2 DEF Pends, InSending, ReadsTrue, SendingInv, Rotation, OVERTAKEN

(* A commit that leaves those alone, and the couriers their codes are for. *)
LEMMA CommitKeeps ==
    ASSUME NEW x, request' = Overtaken(x), RequestInv,
           written \subseteq written',
           \A r \in Requests : Pends(r, "created") /\ r # x =>
               /\ gateway'[request[r].code] = gateway[request[r].code]
               /\ \A g \in grants' : g.code = request[r].code =>
                     g \in grants /\ courier'[g.booking] = courier[g.booking]
    PROVE  RequestInv'
<1>1. ASSUME NEW r \in Requests PROVE CourierInv(r)'
    <2>1. ~Pends(r, "told")'
        BY OvertakenLeaves
    <2>2. CASE Pends(r, "created")'
        <3>1. r # x /\ Pends(r, "created") /\ request'[r] = request[r]
            BY <2>2, OvertakenLeaves
        <3>2. CourierInv(r)
            BY DEF RequestInv
        <3> QED BY <2>1, <3>1, <3>2 DEF CourierInv
    <2> QED BY <2>1, <2>2 DEF CourierInv
<1>2. Apart'
    <2> SUFFICES ASSUME NEW r \in Requests, NEW y \in Requests,
                        Coded(r)', Coded(y)', (request[r].code = request[y].code)'
                 PROVE  r = y
        BY DEF Apart
    <2>1. Pends(r, "created")' /\ Pends(y, "created")'
        BY OvertakenLeaves DEF Coded
    <2>2. Coded(r) /\ Coded(y) /\ request[r].code = request[y].code
        BY <2>1, OvertakenLeaves DEF Coded
    <2> QED BY <2>2 DEF RequestInv, Apart
<1> QED BY <1>1, <1>2, OvertakenLeaves DEF RequestInv

(* While the lock is free, nobody is between the flush and the commit.     *)
LEMMA NobodySends ==
    ASSUME RequestInv, Unlocked
    PROVE  \A r \in Requests : ~InSending(r)
BY CodesAssumption DEF RequestInv, SendingInv, Unlocked

(* What is written, lost or known stays so.                                *)
LEMMA MessagesKept ==
    ASSUME MessageIsTrue, DeliveryInv, UNCHANGED <<rows, gateway>>,
           written \subseteq written', lost \subseteq lost', known \subseteq known',
           \A r \in Requests : InSending(r) =>
               \/ InSending(r)' /\ request'[r].code = request[r].code
               \/ request[r].code \in written' \cup lost'
    PROVE  MessageIsTrue' /\ DeliveryInv'
<1>1. ASSUME NEW c \in CodeIds, gateway[c] # NULL PROVE NeverAhead(c)'
    BY <1>1 DEF MessageIsTrue, NeverAhead
<1>2. ASSUME NEW c \in CodeIds, rows[c] # NULL PROVE RowIsTrue(c)'
    BY <1>2 DEF MessageIsTrue, RowIsTrue
<1> QED BY <1>1, <1>2 DEF MessageIsTrue, DeliveryInv

(* A request that changes alone stays a function of the requests.          *)
LEMMA OneMoves ==
    ASSUME TypeInv, NEW r \in Requests, NEW v, request' = [request EXCEPT ![r] = v]
    PROVE  /\ request'[r] = v
           /\ \A x \in Requests \ {r} : request'[x] = request[x]
           /\ DOMAIN request' = Requests /\ request' = [x \in Requests |-> request'[x]]
BY DEF TypeInv
-----------------------------------------------------------------------------
(* Commits of others, crashes and refusals.                                *)

LEMMA OtherWriterStep == IInv /\ OtherWriter => IInv'
<1> SUFFICES ASSUME IInv, OtherWriter PROVE IInv'
    OBVIOUS
<1>1. request' = Overtaken(NULL) /\ Unlocked
      /\ UNCHANGED <<bookingVars, codeVars, lock, issued, outside>>
    BY DEF OtherWriter
<1>2. RequestInv'
    BY <1>1, CommitKeeps DEF IInv, bookingVars, codeVars, outside
<1>3. MessageIsTrue' /\ DeliveryInv'
    BY <1>1, NobodySends, MessagesKept DEF IInv, codeVars, outside
<1>4. TypeInv'
    BY <1>1 DEF IInv, TypeInv, Overtaken, bookingVars, codeVars, outside
<1>5. FreshInv'
    <2>1. \A r \in Requests : Coded(r)' => Coded(r) /\ request'[r] = request[r]
        BY <1>1, OvertakenLeaves DEF Coded
    <2> QED BY <1>1, <2>1 DEF IInv, FreshInv, codeVars, outside
<1>6. GrantInv' /\ KnowInv'
    BY <1>1 DEF IInv, GrantInv, KnowInv, Concerned, bookingVars, codeVars, outside
<1> QED BY <1>2, <1>3, <1>4, <1>5, <1>6 DEF IInv

LEMMA RefusedStep ==
    ASSUME NEW r \in Requests, IInv, Refused(r)
    PROVE  IInv'
<1>1. request' = [request EXCEPT ![r] = NULL] /\ request[r] = OVERTAKEN
      /\ UNCHANGED <<bookingVars, codeVars, lock, issued, outside>>
    BY DEF Refused
<1>0. UNCHANGED <<stage, recipient, courier, grants, rows, lock, issued, gateway, known,
                  written, lost>>
    BY <1>1 DEF bookingVars, codeVars, outside
<1>2. /\ request'[r] = NULL
      /\ \A x \in Requests \ {r} : request'[x] = request[x]
      /\ DOMAIN request' = Requests /\ request' = [x \in Requests |-> request'[x]]
    BY <1>1, OneMoves DEF IInv
<1>3. ~Coded(r) /\ ~Coded(r)'
    BY <1>1, <1>2 DEF Coded, Pends, InSending, OVERTAKEN
<1>4. RequestInv'
    <2>1. ASSUME NEW x \in Requests \ {r} PROVE ReadsTrue(x)' /\ SendingInv(x)' /\ CourierInv(x)'
        BY <1>0, <1>2, RequestKept DEF IInv, RequestInv
    <2>2. ReadsTrue(r)' /\ SendingInv(r)' /\ CourierInv(r)'
        BY <1>2, <1>3 DEF ReadsTrue, SendingInv, CourierInv, Coded
    <2>3. \A x \in Requests : Coded(x)' => Coded(x) /\ request'[x] = request[x]
        BY <1>2, <1>3 DEF Coded, Pends, InSending
    <2>4. Apart'
        BY <2>3 DEF IInv, RequestInv, Apart
    <2> QED BY <2>1, <2>2, <2>4 DEF RequestInv
<1>5. MessageIsTrue' /\ DeliveryInv'
    <2>1. \A x \in Requests : InSending(x) => InSending(x)' /\ request'[x].code = request[x].code
        BY <1>2, <1>3 DEF Coded, InSending
    <2> QED BY <1>0, <2>1, MessagesKept DEF IInv
<1>6. TypeInv'
    BY <1>0, <1>2 DEF IInv, TypeInv
<1>7. FreshInv'
    <2>1. \A x \in Requests : Coded(x)' => Coded(x) /\ request'[x] = request[x]
        BY <1>2, <1>3 DEF Coded, Pends, InSending
    <2> QED BY <1>0, <2>1 DEF IInv, FreshInv
<1>8. GrantInv' /\ KnowInv'
    BY <1>0 DEF IInv, GrantInv, KnowInv, Concerned
<1> QED BY <1>4, <1>5, <1>6, <1>7, <1>8 DEF IInv

LEMMA CrashStep == IInv /\ Crash => IInv'
<1> SUFFICES ASSUME IInv, Crash PROVE IInv'
    OBVIOUS
<1>1. /\ request' = [r \in Requests |-> NULL]
      /\ lost' = lost \cup {request[r].code : r \in {x \in Requests : InSending(x)}}
      /\ UNCHANGED <<stage, recipient, courier, grants, rows, issued, gateway, known, written>>
    BY DEF Crash, bookingVars, codeVars
<1>2. \A r \in Requests : ~Coded(r)' /\ ReadsTrue(r)' /\ SendingInv(r)' /\ CourierInv(r)'
    BY <1>1 DEF Coded, Pends, InSending, ReadsTrue, SendingInv, CourierInv
<1>3. RequestInv'
    BY <1>2 DEF RequestInv, Apart
<1>4. MessageIsTrue' /\ DeliveryInv'
    BY <1>1, MessagesKept DEF IInv
<1>5. TypeInv'
    BY <1>1 DEF IInv, TypeInv
<1>6. FreshInv'
    BY <1>1, <1>2 DEF IInv, FreshInv
<1>7. GrantInv' /\ KnowInv'
    BY <1>1 DEF IInv, GrantInv, KnowInv, Concerned
<1> QED BY <1>3, <1>4, <1>5, <1>6, <1>7 DEF IInv
-----------------------------------------------------------------------------
(* First codes.                                                            *)

LEMMA AnswerCreatedStep ==
    ASSUME NEW r \in Requests, IInv, AnswerCreated(r)
    PROVE  IInv'
<1> DEFINE c == request[r].code
<1>1. /\ Pends(r, "created")
      /\ known' = known \cup {<<Sender, c>>}
      /\ request' = [request EXCEPT ![r] = NULL]
      /\ UNCHANGED <<stage, recipient, courier, grants, rows, lock, issued, gateway, written,
                     lost>>
    BY DEF AnswerCreated, Pends, Learn, bookingVars, codeVars
<1>2. /\ request'[r] = NULL
      /\ \A x \in Requests \ {r} : request'[x] = request[x]
      /\ DOMAIN request' = Requests /\ request' = [x \in Requests |-> request'[x]]
    BY <1>1, OneMoves DEF IInv
<1>3. c \in written /\ c \in CodeIds /\ c <= issued
    BY <1>1 DEF IInv, RequestInv, CourierInv, FreshInv, Coded
<1>4. \A x \in Requests : Coded(x)' => Coded(x) /\ request'[x] = request[x]
    BY <1>2 DEF Coded, Pends, InSending
<1>5. RequestInv'
    <2>1. ASSUME NEW x \in Requests \ {r} PROVE ReadsTrue(x)' /\ SendingInv(x)' /\ CourierInv(x)'
        <3>1. InSending(x) => request[x].code # c
            BY <1>3 DEF IInv, RequestInv, SendingInv
        <3> QED BY <1>1, <1>2, <3>1, RequestKept DEF IInv, RequestInv
    <2>2. ReadsTrue(r)' /\ SendingInv(r)' /\ CourierInv(r)'
        BY <1>2 DEF ReadsTrue, SendingInv, CourierInv, Pends, InSending
    <2>3. Apart'
        BY <1>4 DEF IInv, RequestInv, Apart
    <2> QED BY <2>1, <2>2, <2>3 DEF RequestInv
<1>6. MessageIsTrue' /\ DeliveryInv'
    <2>1. \A x \in Requests : InSending(x) => InSending(x)' /\ request'[x].code = request[x].code
        BY <1>1, <1>2 DEF Pends, InSending
    <2> QED BY <1>1, <2>1, MessagesKept DEF IInv
<1>7. TypeInv'
    BY <1>1, <1>2, <1>3, CodesAssumption DEF IInv, TypeInv
<1>8. FreshInv'
    BY <1>1, <1>3, <1>4 DEF IInv, FreshInv
<1>9. GrantInv' /\ KnowInv'
    BY <1>1 DEF IInv, GrantInv, KnowInv, Concerned
<1> QED BY <1>5, <1>6, <1>7, <1>8, <1>9 DEF IInv

(* What the gateway does with a message that carries the code of r.        *)
LEMMA SmsSent ==
    ASSUME NEW c \in CodeIds, NEW phone \in Phones, NEW outcome \in SmsOutcome,
           TypeInv, DeliveryInv, gateway[c] = NULL, SendSms(c, phone, outcome)
    PROVE  /\ gateway'[c] = [phone |-> phone, outcome |-> outcome]
           /\ \A x \in CodeIds \ {c} : gateway'[x] = gateway[x]
           /\ gateway' \in [CodeIds -> Message \cup {NULL}]
           /\ known \subseteq known' /\ known' \subseteq known \cup {<<phone, c>>}
           /\ rows[c] = NULL
           /\ rows' = rows => DeliveryInv'
<1>1. gateway' = [gateway EXCEPT ![c] = [phone |-> phone, outcome |-> outcome]]
      /\ known' = IF Arrived(outcome) THEN known \cup {<<phone, c>>} ELSE known
    BY DEF SendSms, Learn
<1>2. /\ gateway'[c] = [phone |-> phone, outcome |-> outcome]
      /\ \A x \in CodeIds \ {c} : gateway'[x] = gateway[x]
      /\ gateway' \in [CodeIds -> Message \cup {NULL}]
    BY <1>1 DEF TypeInv, Message
<1>3. rows[c] = NULL
    BY DEF DeliveryInv
<1>4. ASSUME rows' = rows PROVE DeliveryInv'
    BY <1>1, <1>2, <1>3, <1>4 DEF DeliveryInv
<1> QED BY <1>1, <1>2, <1>3, <1>4

(* A message keeps the rows true, and is itself about a known code.        *)
LEMMA MessageSent ==
    ASSUME NEW r \in Requests, NEW c \in CodeIds, MessageIsTrue, rows' = rows, rows[c] = NULL,
           UNCHANGED <<written, lost>>, known \subseteq known',
           \A x \in CodeIds \ {c} : gateway'[x] = gateway[x],
           c \in written \/ (InSending(r)' /\ request'[r].code = c),
           \A x \in Requests : InSending(x) =>
               InSending(x)' /\ request'[x].code = request[x].code
    PROVE  MessageIsTrue'
<1>1. ASSUME NEW x \in CodeIds, gateway'[x] # NULL PROVE NeverAhead(x)'
    <2>1. CASE x = c
        BY <2>1 DEF NeverAhead
    <2>2. CASE x # c
        BY <1>1, <2>2 DEF MessageIsTrue, NeverAhead
    <2> QED BY <2>1, <2>2
<1>2. ASSUME NEW x \in CodeIds, rows[x] # NULL PROVE RowIsTrue(x)'
    <2>1. x # c /\ RowIsTrue(x)
        BY <1>2 DEF MessageIsTrue
    <2> QED BY <2>1 DEF RowIsTrue
<1> QED BY <1>1, <1>2 DEF MessageIsTrue

LEMMA SendToCourierStep ==
    ASSUME NEW r \in Requests, NEW outcome \in SmsOutcome, IInv, SendToCourier(r, outcome)
    PROVE  IInv'
<1> DEFINE c == request[r].code
           phone == request[r].phone
<1>1. /\ Pends(r, "created") /\ phone # NULL
      /\ SendSms(c, phone, outcome)
      /\ request' = [request EXCEPT ![r] =
            [op |-> "told", booking |-> request[r].booking, phone |-> phone, code |-> c,
             outcome |-> outcome]]
      /\ UNCHANGED <<stage, recipient, courier, grants, rows, lock, issued, written, lost>>
    BY DEF SendToCourier, Pends, bookingVars, codeVars
<1>2. /\ request'[r] = [op |-> "told", booking |-> request[r].booking, phone |-> phone,
                        code |-> c, outcome |-> outcome]
      /\ \A x \in Requests \ {r} : request'[x] = request[x]
      /\ DOMAIN request' = Requests /\ request' = [x \in Requests |-> request'[x]]
    BY <1>1, OneMoves DEF IInv
<1>3. /\ c \in written /\ c \in CodeIds /\ c <= issued /\ phone \in Phones
      /\ gateway[c] = NULL
      /\ \A g \in grants : g.code = c => g.purpose = "deposit" /\ courier[g.booking] = phone
    BY <1>1 DEF IInv, RequestInv, CourierInv, FreshInv, Coded
<1>4. /\ gateway'[c] = [phone |-> phone, outcome |-> outcome]
      /\ \A x \in CodeIds \ {c} : gateway'[x] = gateway[x]
      /\ gateway' \in [CodeIds -> Message \cup {NULL}]
      /\ known \subseteq known' /\ known' \subseteq known \cup {<<phone, c>>}
      /\ rows[c] = NULL
      /\ DeliveryInv'
    BY <1>1, <1>3, SmsSent DEF IInv
<1>5. \A x \in Requests : Coded(x)' => Coded(x) /\ request'[x].code = request[x].code
    BY <1>1, <1>2 DEF Coded, Pends, InSending
<1>6. \A x \in Requests \ {r} : Coded(x) => request[x].code # c
    BY <1>1 DEF IInv, RequestInv, Apart, Coded
<1>7. RequestInv'
    <2>1. ASSUME NEW x \in Requests \ {r} PROVE ReadsTrue(x)' /\ SendingInv(x)' /\ CourierInv(x)'
        <3>1. Coded(x) => gateway'[request[x].code] = gateway[request[x].code]
            BY <1>4, <1>6 DEF IInv, FreshInv
        <3>2. InSending(x) => \A p \in Phones :
                  <<p, request[x].code>> \in known' => <<p, request[x].code>> \in known
            BY <1>4, <1>6 DEF Coded
        <3> QED BY <1>1, <1>2, <3>1, <3>2, RequestKept DEF IInv, RequestInv
    <2>2. ReadsTrue(r)' /\ SendingInv(r)'
        BY <1>2 DEF ReadsTrue, SendingInv, InSending, Rotation
    <2>3. CourierInv(r)'
        BY <1>1, <1>2, <1>3, <1>4 DEF CourierInv, Pends
    <2>4. Apart'
        BY <1>5 DEF IInv, RequestInv, Apart
    <2> QED BY <2>1, <2>2, <2>3, <2>4 DEF RequestInv
<1>8. MessageIsTrue'
    <2>1. \A x \in Requests : InSending(x) => InSending(x)' /\ request'[x].code = request[x].code
        BY <1>1, <1>2 DEF Pends, InSending
    <2> QED BY <1>1, <1>3, <1>4, <2>1, MessageSent DEF IInv
<1>9. TypeInv'
    <2>1. known' \subseteq Phones \X CodeIds
        BY <1>3, <1>4 DEF IInv, TypeInv
    <2> QED BY <1>1, <1>2, <1>4, <2>1 DEF IInv, TypeInv
<1>10. FreshInv'
    BY <1>1, <1>3, <1>4, <1>5 DEF IInv, FreshInv
<1>11. GrantInv' /\ KnowInv'
    <2>1. KnowInv'
        BY <1>1, <1>3, <1>4 DEF IInv, KnowInv, Concerned
    <2> QED BY <1>1, <2>1 DEF IInv, GrantInv
<1> QED BY <1>4, <1>7, <1>8, <1>9, <1>10, <1>11 DEF IInv

LEMMA CommitCreatedStep ==
    ASSUME NEW r \in Requests, IInv, CommitCreated(r)
    PROVE  IInv'
<1> DEFINE c == request[r].code
           phone == request[r].phone
           outcome == request[r].outcome
<1>1. /\ Pends(r, "told") /\ Unlocked
      /\ rows' = [rows EXCEPT ![c] = Row(phone, outcome)]
      /\ known' = known \cup {<<Sender, c>>}
      /\ request' = Overtaken(r)
      /\ UNCHANGED <<stage, recipient, courier, grants, lock, issued, gateway, written, lost>>
    BY DEF CommitCreated, Pends, Learn, bookingVars
<1>2. /\ c \in CodeIds /\ c <= issued
      /\ phone \in Phones /\ outcome \in SmsOutcome
      /\ gateway[c] = [phone |-> phone, outcome |-> outcome]
    BY <1>1 DEF IInv, RequestInv, CourierInv, FreshInv, Coded
<1>3. RequestInv'
    BY <1>1, CommitKeeps DEF IInv
<1>4. /\ rows'[c] = Row(phone, outcome)
      /\ \A x \in CodeIds \ {c} : rows'[x] = rows[x]
      /\ rows' \in [CodeIds -> Notification \cup {NULL}]
    <2>1. Row(phone, outcome) \in Notification
        BY <1>2 DEF Row, Notification
    <2> QED BY <1>1, <1>2, <2>1 DEF IInv, TypeInv
<1>5. DeliveryInv'
    <2>1. rows'[c].phone = phone
        BY <1>4 DEF Row
    <2>2. gateway[c] # NULL
        BY <1>2, CodesAssumption DEF Message
    <2> QED BY <1>1, <1>2, <1>4, <2>1, <2>2 DEF IInv, DeliveryInv
<1>6. MessageIsTrue'
    <2>1. ASSUME NEW x \in CodeIds, gateway'[x] # NULL PROVE NeverAhead(x)'
        <3>1. \A y \in Requests : ~InSending(y)
            BY <1>1, NobodySends DEF IInv
        <3> QED BY <1>1, <2>1, <3>1 DEF IInv, MessageIsTrue, NeverAhead
    <2>2. ASSUME NEW x \in CodeIds, rows'[x] # NULL PROVE RowIsTrue(x)'
        <3>1. CASE x = c
            BY <1>1, <1>2, <1>4, <3>1 DEF RowIsTrue, Row, Arrived, SmsOutcome
        <3>2. CASE x # c
            <4>1. RowIsTrue(x)
                BY <1>4, <2>2, <3>2 DEF IInv, MessageIsTrue
            <4> QED BY <1>1, <1>4, <3>2, <4>1 DEF RowIsTrue
        <3> QED BY <3>1, <3>2
    <2> QED BY <2>1, <2>2 DEF MessageIsTrue
<1>7. TypeInv'
    BY <1>1, <1>2, <1>4, CodesAssumption DEF IInv, TypeInv, Overtaken
<1>8. FreshInv'
    <2>1. \A x \in Requests : Coded(x)' => Coded(x) /\ request'[x] = request[x]
        BY <1>1, OvertakenLeaves DEF Coded
    <2> QED BY <1>1, <1>2, <2>1 DEF IInv, FreshInv
<1>9. GrantInv' /\ KnowInv'
    BY <1>1 DEF IInv, GrantInv, KnowInv, Concerned
<1> QED BY <1>3, <1>5, <1>6, <1>7, <1>8, <1>9 DEF IInv
-----------------------------------------------------------------------------
(* Rotation and transfer.                                                  *)

LEMMA AskStep ==
    ASSUME NEW r \in Requests, NEW op \in Rotation, NEW b \in Bookings, NEW phone, IInv,
           Ask(r, op, b, phone), Asked(op, b, phone)
    PROVE  IInv'
<1>1. /\ request[r] = NULL
      /\ request' = [request EXCEPT ![r] = [op |-> op, booking |-> b, phone |-> phone]]
      /\ UNCHANGED <<stage, recipient, courier, grants, rows, lock, issued, gateway, known,
                     written, lost>>
    BY DEF Ask, bookingVars, codeVars, outside
<1>2. /\ request'[r] = [op |-> op, booking |-> b, phone |-> phone]
      /\ \A x \in Requests \ {r} : request'[x] = request[x]
      /\ DOMAIN request' = Requests /\ request' = [x \in Requests |-> request'[x]]
    BY <1>1, OneMoves DEF IInv
<1>3. ~Coded(r) /\ ~Coded(r)'
    BY <1>1, <1>2 DEF Coded, Pends, InSending, Rotation
<1>4. \A x \in Requests : Coded(x)' => Coded(x) /\ request'[x] = request[x]
    BY <1>2, <1>3 DEF Coded, Pends, InSending
<1>5. RequestInv'
    <2>1. ASSUME NEW x \in Requests \ {r} PROVE ReadsTrue(x)' /\ SendingInv(x)' /\ CourierInv(x)'
        BY <1>1, <1>2, RequestKept DEF IInv, RequestInv
    <2>2. ReadsTrue(r)'
        BY <1>1, <1>2 DEF ReadsTrue, Asked
    <2>3. SendingInv(r)' /\ CourierInv(r)'
        BY <1>3 DEF SendingInv, CourierInv, Coded
    <2>4. Apart'
        BY <1>4 DEF IInv, RequestInv, Apart
    <2> QED BY <2>1, <2>2, <2>3, <2>4 DEF RequestInv
<1>6. MessageIsTrue' /\ DeliveryInv'
    <2>1. \A x \in Requests : InSending(x) => InSending(x)' /\ request'[x].code = request[x].code
        BY <1>2, <1>3 DEF Coded, InSending
    <2> QED BY <1>1, <2>1, MessagesKept DEF IInv
<1>7. TypeInv'
    BY <1>1, <1>2 DEF IInv, TypeInv
<1>8. FreshInv'
    BY <1>1, <1>4 DEF IInv, FreshInv
<1>9. GrantInv' /\ KnowInv'
    BY <1>1 DEF IInv, GrantInv, KnowInv, Concerned
<1> QED BY <1>5, <1>6, <1>7, <1>8, <1>9 DEF IInv

(* Each route reads what it will write by.                                 *)
LEMMA RouteStep ==
    ASSUME NEW r \in Requests, NEW b \in Bookings, IInv,
           \/ \E to \in Phones \cup {NULL} : rotate_deposit_code(r, b, to)
           \/ rotate_pickup_code(r, b)
           \/ \E to \in Phones : transfer_pickup(r, b, to)
    PROVE  IInv'
<1>1. ASSUME NEW to \in Phones \cup {NULL}, rotate_deposit_code(r, b, to) PROVE IInv'
    <2>1. stage[b] # NULL
        BY <1>1, CodesAssumption DEF rotate_deposit_code, Stage
    <2> QED BY <1>1, <2>1, AskStep DEF rotate_deposit_code, Asked, Rotation
<1>2. ASSUME PickupCodeSent(b) PROVE stage[b] # NULL
    BY <1>2, CodesAssumption DEF PickupCodeSent, Stage
<1>3. CASE rotate_pickup_code(r, b)
    BY <1>2, <1>3, AskStep DEF rotate_pickup_code, Asked, Rotation
<1>4. ASSUME NEW to \in Phones, transfer_pickup(r, b, to) PROVE IInv'
    BY <1>2, <1>4, AskStep DEF transfer_pickup, Asked, Rotation
<1> QED BY <1>1, <1>3, <1>4

(* A new code is nobody's yet.                                             *)
LEMMA NewIsFresh ==
    ASSUME NEW c, NewCode(c), TypeInv, FreshInv
    PROVE  /\ c \in CodeIds /\ issued' = c /\ issued < c /\ issued' \in 0 .. MaxCodes
           /\ c \notin written /\ gateway[c] = NULL
           /\ \A phone \in Phones : <<phone, c>> \notin known
           /\ \A g \in grants : g.code # c
           /\ \A r \in Requests : Coded(r) => request[r].code # c
<1>1. c \in CodeIds /\ issued' = c /\ c = issued + 1 /\ issued \in Nat /\ c \in Nat
    BY CodesAssumption DEF NewCode, TypeInv, CodeIds
<1>2. issued < c /\ issued' \in 0 .. MaxCodes /\ ~(c <= issued)
    BY <1>1, CodesAssumption DEF CodeIds
<1> QED BY <1>1, <1>2 DEF FreshInv

(* What was issued before is issued.                                       *)
LEMMA StaysFresh ==
    ASSUME NEW c, NewCode(c), TypeInv, FreshInv, UNCHANGED <<gateway, known>>,
           written' \subseteq written \cup {c},
           \A g \in grants' : g.code \in written',
           \A r \in Requests : Coded(r)' =>
               \/ request'[r].code = c
               \/ Coded(r) /\ request'[r].code = request[r].code
    PROVE  FreshInv'
<1>1. c \in CodeIds /\ c = issued + 1 /\ issued \in Nat /\ issued' = c
    BY CodesAssumption DEF NewCode, TypeInv, CodeIds
<1>2. \A x \in CodeIds : x <= issued => x <= issued'
    BY <1>1 DEF CodeIds
<1>3. \A x \in written : x <= issued
    BY DEF FreshInv
<1>4. c <= issued'
    BY <1>1
<1> QED
    <2>1. \A r \in Requests : Coded(r)' => request'[r].code \in CodeIds /\ request'[r].code <= issued'
        BY <1>1, <1>2, <1>4 DEF FreshInv
    <2>2. \A x \in written' : x <= issued'
        BY <1>2, <1>3, <1>4 DEF TypeInv
    <2>3. \A phone \in Phones, x \in CodeIds : <<phone, x>> \in known => x <= issued'
        BY <1>2 DEF FreshInv
    <2>4. \A x \in CodeIds : gateway[x] # NULL => x <= issued'
        BY <1>2 DEF FreshInv
    <2> QED BY <2>1, <2>2, <2>3, <2>4 DEF FreshInv

LEMMA FlushStep ==
    ASSUME NEW r \in Requests, NEW c \in CodeIds, IInv, Flush(r, c)
    PROVE  IInv'
<1> DEFINE op == request[r].op
           b == request[r].booking
           asked == request[r].phone
           sends == [op |-> "flushed", of |-> op, booking |-> b, asked |-> asked,
                     phone |-> Target(r), code |-> c]
<1>1. /\ request[r] # NULL /\ op \in Rotation /\ Unlocked /\ NewCode(c)
      /\ lock' = r
      /\ request' = [request EXCEPT ![r] = sends]
      /\ UNCHANGED <<stage, recipient, courier, grants, rows, gateway, known, written, lost>>
    BY DEF Flush, bookingVars, codeVars, outside
<1>2. /\ request'[r] = sends
      /\ \A x \in Requests \ {r} : request'[x] = request[x]
      /\ DOMAIN request' = Requests /\ request' = [x \in Requests |-> request'[x]]
    BY <1>1, OneMoves DEF IInv
<1>3. Asked(op, b, asked)
    BY <1>1 DEF IInv, RequestInv, ReadsTrue
<1>4. sends \in Sending /\ Target(r) = Addressee(op, b, asked)
    <2>1. Target(r) = Addressee(op, b, asked)
        BY DEF Target, Addressee
    <2>2. recipient[b] \in Phones /\ courier[b] \in Phones \cup {NULL}
        BY <1>3 DEF IInv, TypeInv, Asked
    <2>3. Addressee(op, b, asked) \in Phones /\ asked \in Phones \cup {NULL}
        BY <1>1, <1>3, <2>2, CodesAssumption DEF Addressee, Asked, Rotation
    <2> QED BY <1>1, <1>3, <2>1, <2>3 DEF Sending, Asked
<1>5. /\ c \in CodeIds /\ issued' = c /\ issued < c /\ issued' \in 0 .. MaxCodes
      /\ c \notin written /\ gateway[c] = NULL
      /\ \A phone \in Phones : <<phone, c>> \notin known
      /\ \A g \in grants : g.code # c
      /\ \A x \in Requests : Coded(x) => request[x].code # c
    BY <1>1, NewIsFresh DEF IInv
<1>6. \A x \in Requests : ~InSending(x)
    BY <1>1, NobodySends DEF IInv
<1>7. /\ ~Coded(r)
      /\ \A x \in Requests \ {r} : Coded(x)' => Coded(x) /\ request'[x] = request[x]
    BY <1>1, <1>2 DEF Coded, Pends, InSending, Rotation
<1>8. RequestInv'
    <2>1. ASSUME NEW x \in Requests \ {r} PROVE ReadsTrue(x)' /\ SendingInv(x)' /\ CourierInv(x)'
        BY <1>1, <1>2, <1>6, RequestKept DEF IInv, RequestInv
    <2>2. ReadsTrue(r)' /\ CourierInv(r)'
        BY <1>2 DEF ReadsTrue, CourierInv, Pends, Rotation
    <2>3. SendingInv(r)'
        BY <1>1, <1>2, <1>3, <1>4, <1>5 DEF SendingInv, Asked, Addressee
    <2>4. Apart'
        <3>1. ASSUME NEW x \in Requests \ {r}, Coded(x)' PROVE request'[x].code # request'[r].code
            BY <1>2, <1>5, <1>7, <3>1
        <3>2. \A x, y \in Requests \ {r} :
                  Coded(x)' /\ Coded(y)' /\ request'[x].code = request'[y].code => x = y
            BY <1>7 DEF IInv, RequestInv, Apart
        <3> QED BY <3>1, <3>2 DEF Apart
    <2> QED BY <2>1, <2>2, <2>3, <2>4 DEF RequestInv
<1>9. MessageIsTrue' /\ DeliveryInv'
    BY <1>1, <1>6, MessagesKept DEF IInv
<1>10. TypeInv'
    BY <1>1, <1>2, <1>5 DEF IInv, TypeInv
<1>11. FreshInv'
    <2>1. \A x \in Requests : Coded(x)' =>
              \/ request'[x].code = c
              \/ Coded(x) /\ request'[x].code = request[x].code
        BY <1>2, <1>7
    <2>2. \A g \in grants' : g.code \in written'
        BY <1>1 DEF IInv, FreshInv
    <2> QED BY <1>1, <2>1, <2>2, StaysFresh DEF IInv
<1>12. GrantInv' /\ KnowInv'
    BY <1>1 DEF IInv, GrantInv, KnowInv, Concerned
<1> QED BY <1>8, <1>9, <1>10, <1>11, <1>12 DEF IInv

LEMMA SendCodeStep ==
    ASSUME NEW r \in Requests, NEW outcome \in SmsOutcome, IInv, SendCode(r, outcome)
    PROVE  IInv'
<1> DEFINE c == request[r].code
           phone == request[r].phone
           sent == [op |-> "sent", of |-> request[r].of, booking |-> request[r].booking,
                    asked |-> request[r].asked, phone |-> phone, code |-> c,
                    outcome |-> outcome]
<1>1. /\ Pends(r, "flushed")
      /\ SendSms(c, phone, outcome)
      /\ request' = [request EXCEPT ![r] = sent]
      /\ UNCHANGED <<stage, recipient, courier, grants, rows, lock, issued, written, lost>>
    BY DEF SendCode, Pends, bookingVars, codeVars
<1>2. /\ request'[r] = sent
      /\ \A x \in Requests \ {r} : request'[x] = request[x]
      /\ DOMAIN request' = Requests /\ request' = [x \in Requests |-> request'[x]]
    BY <1>1, OneMoves DEF IInv
<1>3. /\ InSending(r) /\ SendingInv(r)
      /\ c \in CodeIds /\ c <= issued /\ c \notin written /\ gateway[c] = NULL
      /\ \A p \in Phones : <<p, c>> \notin known
    BY <1>1 DEF IInv, RequestInv, SendingInv, FreshInv, Coded, InSending, Pends
<1>4. sent \in Sending /\ phone \in Phones
    <2>1. request[r] \in Sending /\ request[r].op = "flushed"
        BY <1>1, <1>3 DEF SendingInv, Pends
    <2>2. /\ request[r].of \in Rotation /\ request[r].booking \in Bookings
          /\ request[r].asked \in Phones \cup {NULL} /\ phone \in Phones
        BY <2>1 DEF Sending
    <2> QED BY <1>3, <2>2 DEF Sending
<1>5. /\ gateway'[c] = [phone |-> phone, outcome |-> outcome]
      /\ \A x \in CodeIds \ {c} : gateway'[x] = gateway[x]
      /\ gateway' \in [CodeIds -> Message \cup {NULL}]
      /\ known \subseteq known' /\ known' \subseteq known \cup {<<phone, c>>}
      /\ rows[c] = NULL
      /\ DeliveryInv'
    BY <1>1, <1>3, <1>4, SmsSent DEF IInv
<1>6. InSending(r)'
    BY <1>2, <1>4, CodesAssumption DEF InSending
<1>7. \A x \in Requests : Coded(x)' => Coded(x) /\ request'[x].code = request[x].code
    BY <1>2, <1>3 DEF Coded, Pends, InSending
<1>8. \A x \in Requests \ {r} : Coded(x) => request[x].code # c
    BY <1>3 DEF IInv, RequestInv, Apart, Coded
<1>9. RequestInv'
    <2>1. ASSUME NEW x \in Requests \ {r} PROVE ReadsTrue(x)' /\ SendingInv(x)' /\ CourierInv(x)'
        <3>1. Coded(x) => gateway'[request[x].code] = gateway[request[x].code]
            BY <1>5, <1>8 DEF IInv, FreshInv
        <3>2. InSending(x) => \A p \in Phones :
                  <<p, request[x].code>> \in known' => <<p, request[x].code>> \in known
            BY <1>5, <1>8 DEF Coded
        <3> QED BY <1>1, <1>2, <3>1, <3>2, RequestKept DEF IInv, RequestInv
    <2>2. ReadsTrue(r)' /\ CourierInv(r)'
        BY <1>2 DEF ReadsTrue, CourierInv, Pends, Rotation
    <2>3. SendingInv(r)'
        <3>1. /\ lock' = r /\ c \notin written'
              /\ Asked(sent.of, sent.booking, sent.asked)'
              /\ phone = Addressee(sent.of, sent.booking, sent.asked)'
            BY <1>1, <1>3 DEF SendingInv, Asked, Addressee
        <3>2. \A p \in Phones : <<p, c>> \in known' => p = phone
            BY <1>3, <1>5
        <3> QED BY <1>2, <1>4, <1>5, <3>1, <3>2 DEF SendingInv
    <2>4. Apart'
        BY <1>7 DEF IInv, RequestInv, Apart
    <2> QED BY <2>1, <2>2, <2>3, <2>4 DEF RequestInv
<1>10. MessageIsTrue'
    <2>1. \A x \in Requests : InSending(x) => InSending(x)' /\ request'[x].code = request[x].code
        BY <1>2, <1>6 DEF InSending
    <2>2. request'[r].code = c
        BY <1>2
    <2> QED BY <1>1, <1>3, <1>5, <1>6, <2>1, <2>2, MessageSent DEF IInv
<1>11. TypeInv'
    <2>1. known' \subseteq Phones \X CodeIds
        BY <1>3, <1>4, <1>5 DEF IInv, TypeInv
    <2> QED BY <1>1, <1>2, <1>5, <2>1 DEF IInv, TypeInv
<1>12. FreshInv'
    BY <1>1, <1>3, <1>5, <1>7 DEF IInv, FreshInv
<1>13. GrantInv' /\ KnowInv'
    <2>1. \A g \in grants : g.code # c
        BY <1>3 DEF IInv, FreshInv
    <2> QED BY <1>1, <1>5, <2>1 DEF IInv, GrantInv, KnowInv, Concerned
<1> QED BY <1>5, <1>9, <1>10, <1>11, <1>12, <1>13 DEF IInv
-----------------------------------------------------------------------------
(* What is written.                                                        *)

(* A code takes the place of the one of its purpose.                       *)
LEMMA Issued ==
    ASSUME NEW b \in Bookings, NEW purpose \in Purpose, NEW c \in CodeIds,
           grants' = issue_code(b, purpose, c), TypeInv,
           \A g \in grants : g.code # c
    PROVE  /\ grants' \subseteq AccessCode
           /\ \A g \in grants' : \/ g = Grant(b, purpose, c)
                                 \/ /\ g \in grants /\ g.code # c
                                    /\ ~(g.booking = b /\ g.purpose = purpose)
           /\ GrantInv /\ stage'[b] # NULL
                 /\ (\A x \in Bookings : stage[x] # NULL => stage'[x] # NULL) => GrantInv'
<1>1. \A g \in grants' : \/ g = Grant(b, purpose, c)
                         \/ /\ g \in grants /\ g.code # c
                            /\ ~(g.booking = b /\ g.purpose = purpose)
    BY DEF issue_code
<1>2. grants' \subseteq AccessCode
    BY <1>1 DEF TypeInv, Grant, AccessCode
<1>3. ASSUME GrantInv, stage'[b] # NULL, \A x \in Bookings : stage[x] # NULL => stage'[x] # NULL
      PROVE  GrantInv'
    BY <1>1, <1>3 DEF GrantInv, Grant, TypeInv, AccessCode
<1> QED BY <1>1, <1>2, <1>3

LEMMA CommitCodeStep ==
    ASSUME NEW r \in Requests, IInv, CommitCode(r)
    PROVE  IInv'
<1> DEFINE c == request[r].code
           b == request[r].booking
           op == request[r].of
           asked == request[r].asked
           phone == request[r].phone
           outcome == request[r].outcome
           purpose == PurposeOf(op)
<1>1. /\ Pends(r, "sent") /\ InSending(r)
      /\ grants' = issue_code(b, purpose, c)
      /\ recipient' = IF op = "transfer" THEN [recipient EXCEPT ![b] = asked] ELSE recipient
      /\ courier' = IF op = "rotate_deposit" /\ asked # NULL
                    THEN [courier EXCEPT ![b] = asked] ELSE courier
      /\ known' = IF op = "transfer" THEN known ELSE known \cup {<<Sender, c>>}
      /\ rows' = [rows EXCEPT ![c] = Row(phone, outcome)]
      /\ written' = written \cup {c}
      /\ lock' = NULL
      /\ request' = Overtaken(r)
      /\ UNCHANGED <<stage, issued, gateway, lost>>
    BY DEF CommitCode, Pends, InSending, Record, Learn
<1>2. /\ SendingInv(r) /\ request[r] \in Sending /\ request[r].op = "sent"
      /\ c \notin written /\ c <= issued
      /\ gateway[c] = [phone |-> phone, outcome |-> outcome]
      /\ \A p \in Phones : <<p, c>> \in known => p = phone
    BY <1>1 DEF IInv, RequestInv, SendingInv, FreshInv, Coded, Pends
<1>3. /\ b \in Bookings /\ op \in Rotation /\ purpose \in Purpose
      /\ c \in CodeIds /\ asked \in Phones \cup {NULL} /\ phone \in Phones
      /\ outcome \in SmsOutcome
    BY <1>2 DEF Sending, PurposeOf, Purpose
<1>4. Asked(op, b, asked) /\ phone = Addressee(op, b, asked)
    BY <1>1, <1>2 DEF SendingInv
<1>5. /\ stage[b] # NULL /\ recipient[b] \in Phones
      /\ op # "rotate_deposit" => asked \in Phones
    BY <1>3, <1>4 DEF Asked, IInv, TypeInv, Rotation
<1>6. \A g \in grants : g.code # c
    BY <1>2 DEF IInv, FreshInv
<1>7. /\ grants' \subseteq AccessCode
      /\ \A g \in grants' : \/ g = Grant(b, purpose, c)
                            \/ /\ g \in grants /\ g.code # c
                               /\ ~(g.booking = b /\ g.purpose = purpose)
      /\ GrantInv'
    BY <1>1, <1>3, <1>5, <1>6, Issued DEF IInv
<1>8. /\ recipient' \in [Bookings -> Phones \cup {NULL}]
      /\ courier' \in [Bookings -> Phones \cup {NULL}]
      /\ \A x \in Bookings : x # b => recipient'[x] = recipient[x] /\ courier'[x] = courier[x]
      /\ recipient'[b] = IF op = "transfer" THEN asked ELSE recipient[b]
      /\ courier'[b] = IF op = "rotate_deposit" /\ asked # NULL THEN asked ELSE courier[b]
    BY <1>1, <1>3, <1>5 DEF IInv, TypeInv
<1>9. RequestInv'
    <2>1. ASSUME NEW x \in Requests, Pends(x, "created"), NEW g \in grants',
                 g.code = request[x].code
          PROVE  g \in grants /\ courier'[g.booking] = courier[g.booking]
        <3>1. request[x].code \in written /\ request[x].code # c
            BY <1>2, <2>1 DEF IInv, RequestInv, CourierInv
        <3>2. g \in grants /\ ~(g.booking = b /\ g.purpose = purpose)
            BY <1>7, <2>1, <3>1 DEF Grant
        <3>3. g.purpose = "deposit" /\ g.booking \in Bookings
            BY <2>1, <3>2 DEF IInv, RequestInv, CourierInv, TypeInv, AccessCode
        <3>4. g.booking = b => op # "rotate_deposit"
            BY <3>2, <3>3 DEF PurposeOf
        <3> QED BY <1>8, <3>2, <3>3, <3>4
    <2> QED BY <1>1, <2>1, CommitKeeps DEF IInv
<1>10. /\ rows'[c] = Row(phone, outcome)
       /\ \A x \in CodeIds \ {c} : rows'[x] = rows[x]
       /\ rows' \in [CodeIds -> Notification \cup {NULL}]
    <2>1. Row(phone, outcome) \in Notification
        BY <1>3 DEF Row, Notification
    <2> QED BY <1>1, <1>3, <2>1 DEF IInv, TypeInv
<1>11. known \subseteq known' /\ known' \subseteq known \cup {<<Sender, c>>}
    BY <1>1
<1>12. DeliveryInv'
    <2>1. rows'[c].phone = phone
        BY <1>10 DEF Row
    <2>2. gateway[c] # NULL
        BY <1>2, <1>3, CodesAssumption DEF Message
    <2> QED BY <1>1, <1>2, <1>10, <1>11, <2>1, <2>2 DEF IInv, DeliveryInv
<1>13. MessageIsTrue'
    <2>1. ASSUME NEW x \in CodeIds, gateway'[x] # NULL PROVE NeverAhead(x)'
        <3>1. NeverAhead(x)
            BY <1>1, <2>1 DEF IInv, MessageIsTrue
        <3>2. \A y \in Requests : InSending(y) => y = r
            BY <1>2, <1>1 DEF IInv, RequestInv, SendingInv
        <3> QED BY <1>1, <3>1, <3>2 DEF NeverAhead
    <2>2. ASSUME NEW x \in CodeIds, rows'[x] # NULL PROVE RowIsTrue(x)'
        <3>1. CASE x = c
            <4>1. Arrived(outcome) => <<phone, c>> \in known'
                <5>1. gateway[c] # NULL
                    BY <1>2, <1>3, CodesAssumption DEF Message
                <5> QED BY <1>2, <1>3, <1>11, <5>1 DEF IInv, DeliveryInv
            <4> QED BY <1>1, <1>2, <1>3, <1>10, <3>1, <4>1 DEF RowIsTrue, Row, Arrived, SmsOutcome
        <3>2. CASE x # c
            <4>1. RowIsTrue(x)
                BY <1>10, <2>2, <3>2 DEF IInv, MessageIsTrue
            <4> QED BY <1>1, <1>10, <1>11, <3>2, <4>1 DEF RowIsTrue
        <3> QED BY <3>1, <3>2
    <2> QED BY <2>1, <2>2 DEF MessageIsTrue
<1>14. TypeInv'
    <2>1. known' \subseteq Phones \X CodeIds /\ written' \subseteq CodeIds
        BY <1>1, <1>3, <1>11, CodesAssumption DEF IInv, TypeInv
    <2>2. DOMAIN request' = Requests /\ request' = [x \in Requests |-> request'[x]]
        BY <1>1 DEF Overtaken
    <2>3. \A x \in Bookings : stage'[x] # NULL => recipient'[x] \in Phones
        BY <1>1, <1>5, <1>8 DEF IInv, TypeInv
    <2> QED BY <1>1, <1>7, <1>8, <1>10, <2>1, <2>2, <2>3 DEF IInv, TypeInv
<1>15. FreshInv'
    <2>1. \A x \in Requests : Coded(x)' => Coded(x) /\ request'[x] = request[x]
        BY <1>1, OvertakenLeaves DEF Coded
    <2>2. \A g \in grants' : g.code \in written'
        BY <1>1, <1>7 DEF IInv, FreshInv, Grant
    <2> QED BY <1>1, <1>2, <1>11, <2>1, <2>2 DEF IInv, FreshInv
<1>16. KnowInv'
    <2>1. ASSUME NEW p \in Phones, <<p, c>> \in known'
          PROVE  p \in {Sender, IF purpose = "deposit" THEN courier'[b] ELSE recipient'[b]}
        <3>1. CASE p = Sender
            BY <3>1
        <3>2. CASE p # Sender
            <4>1. p = phone
                BY <1>2, <1>11, <2>1, <3>2
            <4>2. CASE op = "rotate_deposit"
                BY <1>4, <1>8, <3>2, <4>1, <4>2 DEF Addressee, PurposeOf
            <4>3. CASE op = "rotate_pickup"
                BY <1>4, <1>8, <4>1, <4>3 DEF Addressee, Asked, PurposeOf
            <4>4. CASE op = "transfer"
                BY <1>4, <1>8, <4>1, <4>4 DEF Addressee, PurposeOf
            <4> QED BY <1>3, <4>2, <4>3, <4>4 DEF Rotation
        <3> QED BY <3>1, <3>2
    <2>2. ASSUME NEW g \in grants, g.code # c, ~(g.booking = b /\ g.purpose = purpose),
                 NEW p \in Phones, <<p, g.code>> \in known'
          PROVE  p \in Concerned(g.booking, g.purpose)'
        <3>1. p \in Concerned(g.booking, g.purpose) /\ g.booking \in Bookings /\ g.purpose \in Purpose
            BY <1>11, <2>2 DEF IInv, KnowInv, TypeInv, AccessCode
        <3>2. g.purpose = "deposit" => courier'[g.booking] = courier[g.booking]
            BY <1>8, <2>2, <3>1 DEF PurposeOf
        <3>3. g.purpose = "pickup" => recipient'[g.booking] = recipient[g.booking]
            BY <1>8, <2>2, <3>1 DEF PurposeOf
        <3> QED BY <3>1, <3>2, <3>3 DEF Concerned, Purpose
    <2>3. ASSUME NEW g \in grants', NEW p \in Phones, <<p, g.code>> \in known'
          PROVE  p \in Concerned(g.booking, g.purpose)'
        <3>1. CASE g.booking = b /\ g.purpose = purpose /\ g.code = c
            BY <2>1, <2>3, <3>1 DEF Concerned
        <3>2. CASE g \in grants /\ g.code # c /\ ~(g.booking = b /\ g.purpose = purpose)
            BY <2>2, <2>3, <3>2
        <3> QED BY <1>7, <3>1, <3>2 DEF Grant
    <2> QED BY <2>3 DEF KnowInv
<1> QED BY <1>7, <1>9, <1>12, <1>13, <1>14, <1>15, <1>16 DEF IInv

LEMMA CreateStep ==
    ASSUME NEW r \in Requests, NEW b \in Bookings, NEW to \in Recipients,
           NEW by \in Couriers \cup {NULL}, NEW c \in CodeIds, IInv,
           create_booking(r, b, to, by, c)
    PROVE  IInv'
<1> DEFINE created == [op |-> "created", booking |-> b, phone |-> by, code |-> c]
<1>1. /\ stage[b] = NULL /\ request[r] = NULL /\ Unlocked /\ NewCode(c)
      /\ stage' = [stage EXCEPT ![b] = "open"]
      /\ recipient' = [recipient EXCEPT ![b] = to]
      /\ courier' = [courier EXCEPT ![b] = by]
      /\ grants' = issue_code(b, "deposit", c)
      /\ request' = [Overtaken(NULL) EXCEPT ![r] = created]
      /\ written' = written \cup {c}
      /\ UNCHANGED <<rows, lock, gateway, known, lost>>
    BY DEF create_booking
<1>2. to \in Phones /\ by \in Phones \cup {NULL}
    BY CodesAssumption
<1>3. /\ c \in CodeIds /\ issued' = c /\ issued < c /\ issued' \in 0 .. MaxCodes
      /\ c \notin written /\ gateway[c] = NULL
      /\ \A phone \in Phones : <<phone, c>> \notin known
      /\ \A g \in grants : g.code # c
      /\ \A x \in Requests : Coded(x) => request[x].code # c
    BY <1>1, NewIsFresh DEF IInv
<1>4. /\ stage' \in [Bookings -> Stage \cup {NULL}] /\ stage'[b] = "open"
      /\ \A x \in Bookings : x # b => /\ stage'[x] = stage[x] /\ recipient'[x] = recipient[x]
                                      /\ courier'[x] = courier[x]
      /\ recipient' \in [Bookings -> Phones \cup {NULL}] /\ recipient'[b] = to
      /\ courier' \in [Bookings -> Phones \cup {NULL}] /\ courier'[b] = by
    BY <1>1, <1>2 DEF IInv, TypeInv, Stage
<1>5. "open" # NULL
    BY CodesAssumption DEF Stage
<1>6. \A g \in grants : g.booking \in Bookings /\ g.booking # b
    BY <1>1 DEF IInv, GrantInv, TypeInv, AccessCode
<1>7. /\ grants' \subseteq AccessCode
      /\ \A g \in grants' : \/ g = Grant(b, "deposit", c)
                            \/ g \in grants /\ g.code # c
      /\ GrantInv'
    <2>1. \A x \in Bookings : stage[x] # NULL => stage'[x] # NULL
        BY <1>1, <1>4
    <2> QED BY <1>1, <1>3, <1>4, <1>5, <2>1, Issued DEF IInv, Purpose
<1>8. /\ request'[r] = created
      /\ \A x \in Requests \ {r} : request'[x] = Overtaken(NULL)[x]
      /\ DOMAIN request' = Requests /\ request' = [x \in Requests |-> request'[x]]
    BY <1>1 DEF Overtaken
<1>9. \A x \in Requests \ {r} :
          \/ request'[x] = NULL
          \/ request'[x] = OVERTAKEN
          \/ Pends(x, "created") /\ request'[x] = request[x]
    BY <1>8 DEF Overtaken, Reading, Pends
<1>10. /\ \A x \in Requests : ~InSending(x)' /\ ~Pends(x, "told")'
       /\ \A x \in Requests \ {r} : Coded(x)' => Pends(x, "created") /\ request'[x] = request[x]
    BY <1>8, <1>9 DEF Coded, Pends, InSending, OVERTAKEN
<1>11. RequestInv'
    <2>1. ASSUME NEW x \in Requests PROVE ReadsTrue(x)' /\ SendingInv(x)'
        <3>1. ReadsTrue(x)'
            BY <1>8, <1>9 DEF ReadsTrue, Rotation, Pends, OVERTAKEN
        <3> QED BY <1>10, <3>1 DEF SendingInv
    <2>2. CourierInv(r)'
        <3>1. c \in written' /\ gateway'[c] = NULL
            BY <1>1, <1>3
        <3>2. \A g \in grants' : g.code = c => g.purpose = "deposit" /\ courier'[g.booking] = by
            BY <1>4, <1>7 DEF Grant
        <3> QED BY <1>2, <1>8, <1>10, <3>1, <3>2 DEF CourierInv
    <2>3. ASSUME NEW x \in Requests \ {r} PROVE CourierInv(x)'
        <3>1. CASE ~Pends(x, "created")'
            BY <1>10, <3>1 DEF CourierInv
        <3>2. CASE Pends(x, "created")'
            <4>1. Pends(x, "created") /\ request'[x] = request[x] /\ CourierInv(x)
                BY <1>10, <3>2 DEF Coded, IInv, RequestInv
            <4>2. \A g \in grants' : g.code = request[x].code =>
                      g \in grants /\ courier'[g.booking] = courier[g.booking]
                BY <1>3, <1>4, <1>6, <1>7, <4>1 DEF Coded, Grant
            <4> QED BY <1>1, <1>10, <4>1, <4>2 DEF CourierInv
        <3> QED BY <3>1, <3>2
    <2>4. Apart'
        <3>1. ASSUME NEW x \in Requests \ {r}, Coded(x)' PROVE request'[x].code # request'[r].code
            BY <1>3, <1>8, <1>10, <3>1 DEF Coded
        <3>2. \A x, y \in Requests \ {r} :
                  Coded(x)' /\ Coded(y)' /\ request'[x].code = request'[y].code => x = y
            BY <1>10 DEF IInv, RequestInv, Apart, Coded
        <3> QED BY <3>1, <3>2 DEF Apart
    <2> QED BY <2>1, <2>2, <2>3, <2>4 DEF RequestInv
<1>12. MessageIsTrue' /\ DeliveryInv'
    BY <1>1, NobodySends, MessagesKept DEF IInv
<1>13. TypeInv'
    <2>1. \A x \in Bookings : stage'[x] # NULL => recipient'[x] \in Phones
        BY <1>2, <1>4 DEF IInv, TypeInv
    <2> QED BY <1>1, <1>3, <1>4, <1>7, <1>8, <2>1 DEF IInv, TypeInv
<1>14. FreshInv'
    <2>1. \A g \in grants' : g.code \in written'
        BY <1>1, <1>7 DEF IInv, FreshInv, Grant
    <2>2. \A x \in Requests : Coded(x)' =>
              \/ request'[x].code = c
              \/ Coded(x) /\ request'[x].code = request[x].code
        BY <1>8, <1>10 DEF Coded
    <2> QED BY <1>1, <2>1, <2>2, StaysFresh DEF IInv
<1>15. KnowInv'
    <2>1. ASSUME NEW g \in grants, NEW phone \in Phones, <<phone, g.code>> \in known
          PROVE  phone \in Concerned(g.booking, g.purpose)'
        BY <1>4, <1>6, <2>1 DEF IInv, KnowInv, Concerned
    <2> QED BY <1>1, <1>3, <1>7, <2>1 DEF KnowInv, Grant
<1> QED BY <1>7, <1>11, <1>12, <1>13, <1>14, <1>15 DEF IInv
-----------------------------------------------------------------------------
(* What happens to the booking meanwhile, and the reports.                 *)

LEMMA DepositStep ==
    ASSUME NEW b \in Bookings, NEW c \in CodeIds, IInv, mark_deposited(b, c)
    PROVE  IInv'
<1>1. /\ Unlocked /\ stage[b] = "open" /\ NewCode(c)
      /\ stage' = [stage EXCEPT ![b] = "inside"]
      /\ grants' = issue_code(b, "pickup", c)
      /\ written' = written \cup {c}
      /\ request' = Overtaken(NULL)
      /\ UNCHANGED <<recipient, courier, rows, lock, gateway, known, lost>>
    BY DEF mark_deposited
<1>2. /\ c \in CodeIds /\ issued' = c /\ issued < c /\ issued' \in 0 .. MaxCodes
      /\ c \notin written /\ gateway[c] = NULL
      /\ \A phone \in Phones : <<phone, c>> \notin known
      /\ \A g \in grants : g.code # c
      /\ \A x \in Requests : Coded(x) => request[x].code # c
    BY <1>1, NewIsFresh DEF IInv
<1>3. /\ stage' \in [Bookings -> Stage \cup {NULL}] /\ stage'[b] = "inside"
      /\ stage[b] # NULL /\ stage'[b] # NULL
      /\ \A x \in Bookings : stage'[x] # NULL <=> stage[x] # NULL
    BY <1>1, CodesAssumption DEF IInv, TypeInv, Stage
<1>4. /\ grants' \subseteq AccessCode
      /\ \A g \in grants' : \/ g = Grant(b, "pickup", c)
                            \/ g \in grants /\ g.code # c
      /\ GrantInv'
    BY <1>1, <1>2, <1>3, Issued DEF IInv, Purpose
<1>5. RequestInv'
    <2>1. \A r \in Requests : Pends(r, "created") =>
              \A g \in grants' : g.code = request[r].code => g \in grants
        BY <1>2, <1>4 DEF Coded, Grant
    <2> QED BY <1>1, <2>1, CommitKeeps DEF IInv
<1>6. MessageIsTrue' /\ DeliveryInv'
    BY <1>1, NobodySends, MessagesKept DEF IInv
<1>7. TypeInv'
    <2>1. DOMAIN request' = Requests /\ request' = [x \in Requests |-> request'[x]]
        BY <1>1 DEF Overtaken
    <2> QED BY <1>1, <1>2, <1>3, <1>4, <2>1 DEF IInv, TypeInv
<1>8. FreshInv'
    <2>1. \A g \in grants' : g.code \in written'
        BY <1>1, <1>4 DEF IInv, FreshInv, Grant
    <2>2. \A r \in Requests : Coded(r)' => Coded(r) /\ request'[r].code = request[r].code
        BY <1>1, OvertakenLeaves DEF Coded
    <2> QED BY <1>1, <2>1, <2>2, StaysFresh DEF IInv
<1>9. KnowInv'
    BY <1>1, <1>2, <1>4 DEF IInv, KnowInv, Concerned, Grant
<1> QED BY <1>4, <1>5, <1>6, <1>7, <1>8, <1>9 DEF IInv

LEMMA KioskStep ==
    ASSUME NEW b \in Bookings, IInv, KioskSends(b)
    PROVE  IInv'
<1>1. PICK g \in grants : /\ g.booking = b /\ g.purpose = "pickup"
                          /\ known' = known \cup {<<recipient[b], g.code>>}
    BY DEF KioskSends, Learn
<1>2. UNCHANGED <<stage, recipient, courier, grants, rows, request, lock, issued, gateway,
                  written, lost>>
    BY DEF KioskSends, bookingVars, codeVars
<1>3. g.code \in CodeIds /\ g.code \in written /\ g.code <= issued /\ recipient[b] \in Phones
    BY <1>1 DEF IInv, TypeInv, FreshInv, GrantInv, AccessCode
<1>4. RequestInv'
    <2>1. ASSUME NEW x \in Requests PROVE ReadsTrue(x)' /\ SendingInv(x)' /\ CourierInv(x)'
        <3>1. InSending(x) => request[x].code # g.code
            BY <1>3 DEF IInv, RequestInv, SendingInv
        <3> QED BY <1>1, <1>2, <3>1, RequestKept DEF IInv, RequestInv
    <2>2. Apart'
        BY <1>2 DEF IInv, RequestInv, Apart, Coded, Pends, InSending
    <2> QED BY <2>1, <2>2 DEF RequestInv
<1>5. MessageIsTrue' /\ DeliveryInv'
    BY <1>1, <1>2, MessagesKept DEF IInv, InSending
<1>6. TypeInv'
    BY <1>1, <1>2, <1>3 DEF IInv, TypeInv
<1>7. FreshInv'
    BY <1>1, <1>2, <1>3 DEF IInv, FreshInv, Coded, Pends, InSending
<1>8. GrantInv' /\ KnowInv'
    <2>1. ASSUME NEW h \in grants, NEW phone \in Phones, <<phone, h.code>> \in known'
          PROVE  phone \in Concerned(h.booking, h.purpose)
        <3>1. CASE <<phone, h.code>> \in known
            BY <3>1 DEF IInv, KnowInv
        <3>2. CASE <<phone, h.code>> = <<recipient[b], g.code>>
            <4>1. h = g /\ phone = recipient[b]
                BY <3>2 DEF IInv, GrantInv
            <4> QED BY <1>1, <4>1 DEF Concerned
        <3> QED BY <1>1, <2>1, <3>1, <3>2
    <2> QED BY <1>2, <2>1 DEF IInv, GrantInv, KnowInv, Concerned
<1> QED BY <1>4, <1>5, <1>6, <1>7, <1>8 DEF IInv

LEMMA BookingEndsStep ==
    ASSUME NEW b \in Bookings, NEW to \in Stage, IInv, BookingEnds(b, to)
    PROVE  IInv'
<1>1. /\ Unlocked /\ stage[b] \in Stage
      /\ stage' = [stage EXCEPT ![b] = to]
      /\ request' = Overtaken(NULL)
      /\ UNCHANGED <<recipient, courier, grants, rows, lock, issued, gateway, known, written,
                     lost>>
    BY DEF BookingEnds, codeVars, outside, Stage
<1>2. /\ stage' \in [Bookings -> Stage \cup {NULL}]
      /\ \A x \in Bookings : stage'[x] # NULL <=> stage[x] # NULL
    BY <1>1, CodesAssumption DEF IInv, TypeInv
<1>3. RequestInv'
    BY <1>1, CommitKeeps DEF IInv
<1>4. MessageIsTrue' /\ DeliveryInv'
    BY <1>1, NobodySends, MessagesKept DEF IInv
<1>5. TypeInv'
    BY <1>1, <1>2 DEF IInv, TypeInv, Overtaken
<1>6. FreshInv'
    <2>1. \A r \in Requests : Coded(r)' => Coded(r) /\ request'[r] = request[r]
        BY <1>1, OvertakenLeaves DEF Coded
    <2> QED BY <1>1, <2>1 DEF IInv, FreshInv
<1>7. GrantInv' /\ KnowInv'
    <2>1. GrantInv'
        BY <1>1, <1>2 DEF IInv, GrantInv, TypeInv, AccessCode
    <2> QED BY <1>1, <2>1 DEF IInv, KnowInv, Concerned
<1> QED BY <1>3, <1>4, <1>5, <1>6, <1>7 DEF IInv

LEMMA DeliveryStep ==
    ASSUME NEW c \in CodeIds, IInv, record_delivery(c)
    PROVE  IInv'
<1>1. /\ Unlocked /\ gateway[c] # NULL /\ Matched(c) # {}
      /\ rows' = [x \in CodeIds |->
            IF x \notin Matched(c) THEN rows[x]
            ELSE IF Arrived(gateway[c].outcome) THEN [rows[x] EXCEPT !.delivered = TRUE]
            ELSE [rows[x] EXCEPT !.error = TRUE]]
      /\ request' = Overtaken(NULL)
      /\ UNCHANGED <<stage, recipient, courier, grants, lock, issued, gateway, known, written,
                     lost>>
    BY DEF record_delivery, bookingVars, outside
<1>2. Matched(c) = {c} /\ rows[c] # NULL /\ rows[c].sent /\ rows[c] \in Notification
    BY <1>1 DEF Matched, IInv, TypeInv
<1>3. /\ \A x \in CodeIds \ {c} : rows'[x] = rows[x]
      /\ rows'[c] = IF Arrived(gateway[c].outcome) THEN [rows[c] EXCEPT !.delivered = TRUE]
                    ELSE [rows[c] EXCEPT !.error = TRUE]
    BY <1>1, <1>2
<1>4. rows'[c] \in Notification /\ rows'[c].phone = rows[c].phone /\ rows'[c].sent = rows[c].sent
    BY <1>2, <1>3 DEF Notification
<1>5. DeliveryInv'
    BY <1>1, <1>2, <1>3, <1>4 DEF IInv, DeliveryInv
<1>6. MessageIsTrue'
    <2>1. ASSUME NEW x \in CodeIds, gateway'[x] # NULL PROVE NeverAhead(x)'
        <3>1. \A y \in Requests : ~InSending(y)
            BY <1>1, NobodySends DEF IInv
        <3> QED BY <1>1, <2>1, <3>1 DEF IInv, MessageIsTrue, NeverAhead
    <2>2. ASSUME NEW x \in CodeIds, rows'[x] # NULL PROVE RowIsTrue(x)'
        <3>1. CASE x = c
            <4>1. RowIsTrue(c)
                BY <1>2 DEF IInv, MessageIsTrue
            <4>2. CASE Arrived(gateway[c].outcome)
                <5>1. <<rows[c].phone, c>> \in known
                    BY <1>1, <1>2, <4>2 DEF IInv, DeliveryInv
                <5>2. ~rows[c].error
                    BY <1>2, <4>1, <4>2 DEF RowIsTrue
                <5>3. ~rows'[c].error
                    BY <1>2, <1>3, <4>2, <5>2 DEF Notification
                <5>4. rows'[c].sent
                    BY <1>2, <1>4
                <5> QED BY <1>1, <1>4, <3>1, <5>1, <5>3, <5>4 DEF RowIsTrue
            <4>3. CASE ~Arrived(gateway[c].outcome)
                <5>1. rows[c].delivered => <<rows[c].phone, c>> \in known
                    BY <4>1 DEF RowIsTrue
                <5>2. rows'[c].delivered => rows[c].delivered
                    BY <1>2, <1>3, <4>3 DEF Notification
                <5>3. rows'[c].sent
                    BY <1>2, <1>4
                <5>4. ~Arrived(gateway'[c].outcome)
                    BY <1>1, <4>3
                <5> QED BY <1>1, <1>4, <3>1, <5>1, <5>2, <5>3, <5>4 DEF RowIsTrue
            <4> QED BY <4>2, <4>3
        <3>2. CASE x # c
            <4>1. RowIsTrue(x)
                BY <1>3, <2>2, <3>2 DEF IInv, MessageIsTrue
            <4>2. rows'[x] = rows[x] /\ gateway'[x] = gateway[x] /\ known' = known
                BY <1>1, <1>3, <3>2
            <4> QED BY <4>1, <4>2 DEF RowIsTrue
        <3> QED BY <3>1, <3>2
    <2> QED BY <2>1, <2>2 DEF MessageIsTrue
<1>7. RequestInv'
    BY <1>1, CommitKeeps DEF IInv
<1>8. TypeInv'
    <2>1. rows' \in [CodeIds -> Notification \cup {NULL}]
        BY <1>1, <1>3, <1>4 DEF IInv, TypeInv
    <2> QED BY <1>1, <2>1 DEF IInv, TypeInv, Overtaken
<1>9. FreshInv'
    <2>1. \A r \in Requests : Coded(r)' => Coded(r) /\ request'[r] = request[r]
        BY <1>1, OvertakenLeaves DEF Coded
    <2> QED BY <1>1, <2>1 DEF IInv, FreshInv
<1>10. GrantInv' /\ KnowInv'
    BY <1>1 DEF IInv, GrantInv, KnowInv, Concerned
<1> QED BY <1>5, <1>6, <1>7, <1>8, <1>9, <1>10 DEF IInv
-----------------------------------------------------------------------------
(* All of them.                                                            *)

LEMMA InitInv == Init => IInv
<1> SUFFICES ASSUME Init PROVE IInv
    OBVIOUS
<1>1. TypeInv
    BY CodesAssumption DEF Init, TypeInv
<1>2. \A r \in Requests : request[r] = NULL
    BY DEF Init
<1>3. FreshInv /\ GrantInv /\ KnowInv
    BY <1>2 DEF Init, FreshInv, GrantInv, KnowInv, Coded, Pends, InSending
<1>4. RequestInv
    BY <1>2 DEF RequestInv, ReadsTrue, SendingInv, CourierInv, Apart, Coded, Pends, InSending
<1>5. DeliveryInv /\ MessageIsTrue
    BY DEF Init, DeliveryInv, MessageIsTrue
<1> QED BY <1>1, <1>3, <1>4, <1>5 DEF IInv

LEMMA StepInv == IInv /\ [Next]_vars => IInv'
<1> SUFFICES ASSUME IInv, [Next]_vars PROVE IInv'
    OBVIOUS
<1>1. ASSUME NEW r \in Requests, RequestStep(r) PROVE IInv'
    BY <1>1, CreateStep, AnswerCreatedStep, CommitCreatedStep, SendToCourierStep, SendCodeStep,
       RouteStep, FlushStep, CommitCodeStep, RefusedStep DEF RequestStep
<1>2. ASSUME NEW b \in Bookings, BookingStep(b) PROVE IInv'
    BY <1>2, DepositStep, KioskStep, BookingEndsStep DEF BookingStep
<1>3. ASSUME NEW c \in CodeIds, record_delivery(c) PROVE IInv'
    BY <1>3, DeliveryStep
<1>4. CASE OtherWriter \/ Crash
    BY <1>4, OtherWriterStep, CrashStep
<1>5. CASE UNCHANGED vars
    <2>1. UNCHANGED <<stage, recipient, courier, grants, rows, request, lock, issued, gateway,
                      known, written, lost>>
        BY <1>5 DEF vars, bookingVars, codeVars, outside
    <2>2. TypeInv' /\ FreshInv' /\ GrantInv' /\ DeliveryInv' /\ KnowInv'
        BY <2>1 DEF IInv, TypeInv, FreshInv, GrantInv, DeliveryInv, KnowInv, Concerned, Coded,
                    Pends, InSending
    <2>3. RequestInv'
        BY <2>1 DEF IInv, RequestInv, ReadsTrue, SendingInv, CourierInv, Apart, Asked, Addressee,
                    Coded, Pends, InSending
    <2>4. MessageIsTrue'
        BY <2>1 DEF IInv, MessageIsTrue, NeverAhead, RowIsTrue, InSending
    <2> QED BY <2>2, <2>3, <2>4 DEF IInv
<1> QED BY <1>1, <1>2, <1>3, <1>4, <1>5 DEF Next

LEMMA AlwaysInv == Spec => []IInv
BY InitInv, StepInv, PTL DEF Spec

(* Whoever knows a code that opens a door is the sender or the person it   *)
(* is meant for now, whatever rotations, transfers, crashes and messages   *)
(* overlap (issue_code, rotate_*_code, transfer_pickup).                   *)
THEOREM NobodyElseKnows == Spec => []OnlyTheConcernedKnow
<1>1. IInv => OnlyTheConcernedKnow
    BY DEF IInv, KnowInv, OnlyTheConcernedKnow, find_code
<1> QED BY <1>1, AlwaysInv, PTL

(* No message names a code that is then not written, unless its request    *)
(* died with the process, and the notification row tells what became of it *)
(* (autoflush in load_context, record_delivery).                           *)
THEOREM MessagesAreTrue == Spec => []MessageIsTrue
<1>1. IInv => MessageIsTrue
    BY DEF IInv
<1> QED BY <1>1, AlwaysInv, PTL
=============================================================================
