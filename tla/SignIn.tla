------------------------------- MODULE SignIn -------------------------------
(***************************************************************************)
(* Who is let in: one-time codes and refresh tokens of                     *)
(* app/modules/identity/service.py, staff accounts of                      *)
(* app/modules/staff/service.py, and the routes that call them.            *)
(*                                                                         *)
(* A request reads and decides when it begins and writes when it commits.  *)
(* SQLite refuses the commit of a request somebody else has overtaken      *)
(* (core/db.py); its caller is answered 500.  The key-value store has no   *)
(* transactions: what a request does there happens at once, stays when the *)
(* commit is refused, and is gone when the process dies.                   *)
(*                                                                         *)
(* A caller holds whatever access token it needs; an access token decides  *)
(* nothing, because every request reads its account again (core/deps.py).  *)
(* A refresh token also ends with its lifetime, which is left out: it then *)
(* behaves as a revoked one.  So is the per-address limit on requesting    *)
(* codes, which refuses some requests before anything else happens.        *)
(***************************************************************************)
EXTENDS Integers

CONSTANTS
    NULL,
    Clients,        \* phone numbers
    Admins,         \* staff logins
    Founders,       \* the owners the first start seeds
    Codes,          \* request ids of one-time codes
    Tokens,         \* rows of refresh_tokens
    Requests,       \* bound: requests under way at once
    Casts,          \* bound: the accounts that act, in one behaviour or another
    MaxAttempts,    \* otp_max_attempts
    MaxResets       \* bound: password resets of one account

Accounts == Clients \cup Admins

Change == {"activate", "deactivate", "promote", "demote"}

ASSUME SignInAssumption ==
    /\ Clients \cap Admins = {}
    /\ Founders \subseteq Admins
    /\ Founders # {}
    /\ Casts \subseteq SUBSET Accounts
    /\ NULL \notin Accounts \cup Codes \cup Tokens
    /\ MaxAttempts \in Nat \ {0}
    /\ MaxResets \in Nat

VARIABLES
    cast,       \* the accounts that sign in, or are changed, in this behaviour
    code,       \* the store's otp:<request id>: phone and attempts, or NULL
    resend,     \* phones with a running resend window
    told,       \* codes whose request id the caller was answered
    standing,   \* "active" or "blocked" (inactive), NULL before the row exists
    owners,     \* admins whose role carries users.write
    password,   \* how often the password was reset
    token,      \* refresh_tokens: subject, and where the session came from
    revoked,    \* tokens with revoked_at
    request,    \* requests under way: what they will write, or overtaken
    guesses,    \* history: guesses a code was compared with
    ended       \* history: sessions ended by a logout or a reset

kvVars    == <<code, resend>>
staffVars == <<standing, owners, password>>
tokenVars == <<token, revoked, ended>>
vars      == <<cast, kvVars, told, staffVars, tokenVars, request, guesses>>

Init ==
    /\ cast \in Casts
    /\ code = [c \in Codes |-> NULL]
    /\ resend = {}
    /\ told = {}
    /\ standing = [a \in Accounts |-> IF a \in Founders THEN "active" ELSE NULL]
    /\ owners = Founders
    /\ password = [a \in Accounts |-> 0]
    /\ token = [t \in Tokens |-> NULL]
    /\ revoked = {}
    /\ request = [r \in Requests |-> NULL]
    /\ guesses = [c \in Codes |-> 0]
    /\ ended = {}
-----------------------------------------------------------------------------
(* Transactions.                                                           *)

Begin(r, op, who, ref) ==
    /\ request[r] = NULL
    /\ request' = [request EXCEPT ![r] = [op |-> op, who |-> who, ref |-> ref]]

UnderWay == {r \in Requests : request[r] # NULL}

OVERTAKEN == [op |-> "overtaken"]

(* SQLite: a snapshot that is no longer current cannot be written from.    *)
Overtaken(r) == [x \in Requests |-> IF x \in UnderWay \ {r} THEN OVERTAKEN ELSE NULL]

Commit(r, op) ==
    /\ request[r] # NULL
    /\ request[r].op = op
    /\ request' = Overtaken(r)

Refused(r) ==
    /\ request[r] = OVERTAKEN
    /\ request' = [request EXCEPT ![r] = NULL]
    /\ UNCHANGED <<cast, kvVars, told, staffVars, tokenVars, guesses>>

Crash ==
    /\ UnderWay # {} \/ resend # {} \/ \E c \in Codes : code[c] # NULL
    /\ request' = [r \in Requests |-> NULL]
    /\ code' = [c \in Codes |-> NULL]
    /\ resend' = {}
    /\ UNCHANGED <<cast, told, staffVars, tokenVars, guesses>>
-----------------------------------------------------------------------------
(* One-time codes.                                                         *)

Active(a) == standing[a] = "active"

(* Codes whose request id is not answered yet.                             *)
Pending == {c \in Codes : \E r \in Requests :
                request[r] \in [op : {"issue"}, who : Clients, ref : {c}]}

(* The code and the window are put before the message is sent; the message *)
(* is sent before the commit that records it.                              *)
issue_otp(r, p, c) ==
    /\ p \in cast
    /\ standing[p] # "blocked"
    /\ p \notin resend
    /\ code[c] = NULL /\ c \notin told /\ c \notin Pending
    /\ code' = [code EXCEPT ![c] = [phone |-> p, attempts |-> 0]]
    /\ resend' = resend \cup {p}
    /\ Begin(r, "issue", p, c)
    /\ UNCHANGED <<cast, told, staffVars, tokenVars, guesses>>

CommitIssue(r) ==
    /\ Commit(r, "issue")
    /\ told' = told \cup {request[r].ref}
    /\ UNCHANGED <<cast, kvVars, staffVars, tokenVars, guesses>>

ResendEnds(p) ==
    /\ p \in resend
    /\ resend' = resend \ {p}
    /\ UNCHANGED <<cast, code, told, staffVars, tokenVars, request, guesses>>

CodeExpires(c) ==
    /\ code[c] # NULL
    /\ code' = [code EXCEPT ![c] = NULL]
    /\ UNCHANGED <<cast, resend, told, staffVars, tokenVars, request, guesses>>

(* Mutant: the attempt that reaches the limit is still compared.           *)
ExhaustedLate(c) == code[c].attempts + 1 > MaxAttempts

Exhausted(c) == code[c].attempts + 1 >= MaxAttempts

Guess(c) == guesses' = [guesses EXCEPT ![c] = @ + 1]

VerifyExhausted(c) ==
    /\ c \in told /\ code[c] # NULL
    /\ Exhausted(c)
    /\ code' = [code EXCEPT ![c] = NULL]
    /\ UNCHANGED <<cast, resend, told, staffVars, tokenVars, request, guesses>>

VerifyWrong(c) ==
    /\ c \in told /\ code[c] # NULL
    /\ ~Exhausted(c)
    /\ code' = [code EXCEPT ![c].attempts = @ + 1]
    /\ Guess(c)
    /\ UNCHANGED <<cast, resend, told, staffVars, tokenVars, request>>

(* Mutant: the code is left to its lifetime.                               *)
VerifyKeepingCode(r, c) ==
    /\ c \in told /\ code[c] # NULL
    /\ ~Exhausted(c)
    /\ Guess(c)
    /\ IF standing[code[c].phone] = "blocked"
       THEN UNCHANGED request
       ELSE Begin(r, "sign_in", code[c].phone, c)
    /\ UNCHANGED <<cast, kvVars, told, staffVars, tokenVars>>

(* The right code is spent before the account is looked at.                *)
VerifyRight(r, c) ==
    /\ c \in told /\ code[c] # NULL
    /\ ~Exhausted(c)
    /\ code' = [code EXCEPT ![c] = NULL]
    /\ Guess(c)
    /\ IF standing[code[c].phone] = "blocked"
       THEN UNCHANGED request
       ELSE Begin(r, "sign_in", code[c].phone, c)
    /\ UNCHANGED <<cast, resend, told, staffVars, tokenVars>>

(* issue_token_pair: a new row, the first or the next of its session.      *)
Mint(t, a, chain, via, under) ==
    /\ token[t] = NULL
    /\ token' = [token EXCEPT ![t] =
          [subject |-> a, chain |-> chain, via |-> via, under |-> under]]

(* The account that signs in is not blocked: it is there, or it is made.   *)
get_or_create_client(p) == [standing EXCEPT ![p] = "active"]

CommitSignIn(r, t) ==
    /\ Commit(r, "sign_in")
    /\ standing' = get_or_create_client(request[r].who)
    /\ Mint(t, request[r].who, t, request[r].ref, 0)
    /\ UNCHANGED <<cast, kvVars, told, owners, password, revoked, ended, guesses>>
-----------------------------------------------------------------------------
(* Refresh tokens.                                                         *)

Live(t) == token[t] # NULL /\ t \notin revoked

(* Mutant: a refresh looks only at the token.                              *)
UsableUnchecked(a) == TRUE

(* _assert_subject_usable                                                  *)
Usable(a) == Active(a)

refresh(r, t) ==
    /\ Live(t)
    /\ Usable(token[t].subject)
    /\ Begin(r, "refresh", token[t].subject, t)
    /\ UNCHANGED <<cast, kvVars, told, staffVars, tokenVars, guesses>>

(* Mutant: the presented token is left alive.                              *)
RotateKeeping(r, t) ==
    /\ Commit(r, "refresh")
    /\ LET old == token[request[r].ref]
       IN  Mint(t, old.subject, old.chain, old.via, old.under)
    /\ UNCHANGED <<cast, kvVars, told, staffVars, revoked, ended, guesses>>

rotate_refresh_token(r, t) ==
    /\ Commit(r, "refresh")
    /\ LET old == token[request[r].ref]
       IN  Mint(t, old.subject, old.chain, old.via, old.under)
    /\ revoked' = revoked \cup {request[r].ref}
    /\ UNCHANGED <<cast, kvVars, told, staffVars, ended, guesses>>

LiveOf(a) == {t \in Tokens : Live(t) /\ token[t].subject = a}

OnDuty == \E a \in Admins : Active(a)

(* Logging out with the refresh token at hand ends that session only.      *)
(* Among staff, whoever is on duty may present anybody's token.            *)
LogoutOne(r, t) ==
    /\ Live(t)
    /\ IF token[t].subject \in Clients THEN Active(token[t].subject) ELSE OnDuty
    /\ Begin(r, "logout", token[t].subject, t)
    /\ UNCHANGED <<cast, kvVars, told, staffVars, tokenVars, guesses>>

(* A client that does not know it ends all of its sessions.                *)
LogoutAll(r, p) ==
    /\ Active(p)
    /\ LiveOf(p) # {}
    /\ Begin(r, "logout", p, NULL)
    /\ UNCHANGED <<cast, kvVars, told, staffVars, tokenVars, guesses>>

LoggedOut(r) ==
    IF request[r].ref = NULL THEN LiveOf(request[r].who) ELSE {request[r].ref}

End(ts) ==
    /\ revoked' = revoked \cup ts
    /\ ended' = ended \cup {token[t].chain : t \in ts}

CommitLogout(r) ==
    /\ Commit(r, "logout")
    /\ End(LoggedOut(r))
    /\ UNCHANGED <<cast, kvVars, told, staffVars, token, guesses>>
-----------------------------------------------------------------------------
(* Staff.                                                                  *)

(* The password typed is the current one when the request reads it.        *)
login(r, a) ==
    /\ a \in cast
    /\ Active(a)
    /\ Begin(r, "login", a, password[a])
    /\ UNCHANGED <<cast, kvVars, told, staffVars, tokenVars, guesses>>

CommitLogin(r, t) ==
    /\ Commit(r, "login")
    /\ Mint(t, request[r].who, t, NULL, request[r].ref)
    /\ UNCHANGED <<cast, kvVars, told, staffVars, revoked, ended, guesses>>

(* require_permission("users.write")                                       *)
MayWriteUsers(actor) == Active(actor) /\ actor \in owners

create_user(r, actor, a, owner) ==
    /\ MayWriteUsers(actor)
    /\ a \in cast /\ standing[a] = NULL
    /\ Begin(r, "create", a, owner)
    /\ UNCHANGED <<cast, kvVars, told, staffVars, tokenVars, guesses>>

CommitCreate(r) ==
    /\ Commit(r, "create")
    /\ standing' = [standing EXCEPT ![request[r].who] = "active"]
    /\ owners' = IF request[r].ref THEN owners \cup {request[r].who} ELSE owners
    /\ UNCHANGED <<cast, kvVars, told, password, tokenVars, guesses>>

(* Mutant: nobody is kept from locking themselves out.                     *)
AnyLockout(actor, a, change) == FALSE

LockingSelfOut(actor, a, change) ==
    actor = a /\ change \in {"deactivate", "promote", "demote"}

update_user(r, actor, a, change) ==
    /\ MayWriteUsers(actor)
    /\ a \in cast /\ standing[a] # NULL
    /\ ~LockingSelfOut(actor, a, change)
    /\ Begin(r, "update", a, change)
    /\ UNCHANGED <<cast, kvVars, told, staffVars, tokenVars, guesses>>

CommitUpdate(r) ==
    /\ Commit(r, "update")
    /\ LET a == request[r].who
           change == request[r].ref
       IN  /\ standing' = [standing EXCEPT ![a] =
                 CASE change = "activate"   -> "active"
                   [] change = "deactivate" -> "blocked"
                   [] OTHER                 -> @]
           /\ owners' = CASE change = "promote" -> owners \cup {a}
                          [] change = "demote"  -> owners \ {a}
                          [] OTHER              -> owners
    /\ UNCHANGED <<cast, kvVars, told, password, tokenVars, guesses>>

reset_password(r, actor, a) ==
    /\ MayWriteUsers(actor)
    /\ a \in cast /\ standing[a] # NULL
    /\ password[a] < MaxResets
    /\ Begin(r, "reset", a, NULL)
    /\ UNCHANGED <<cast, kvVars, told, staffVars, tokenVars, guesses>>

(* Mutant: the reset changes the password only.                            *)
ResetCosmetic(r) ==
    /\ Commit(r, "reset")
    /\ password' = [password EXCEPT ![request[r].who] = @ + 1]
    /\ UNCHANGED <<cast, kvVars, told, standing, owners, tokenVars, guesses>>

CommitReset(r) ==
    /\ Commit(r, "reset")
    /\ password' = [password EXCEPT ![request[r].who] = @ + 1]
    /\ End(LiveOf(request[r].who))
    /\ UNCHANGED <<cast, kvVars, told, standing, owners, token, guesses>>

(* block_client and unblock_client, by anybody on duty who may.            *)
BlockOrUnblock(r, p, op) ==
    /\ p \in cast /\ standing[p] # NULL
    /\ OnDuty
    /\ Begin(r, op, p, NULL)
    /\ UNCHANGED <<cast, kvVars, told, staffVars, tokenVars, guesses>>

block_client(r) ==
    /\ Commit(r, "block")
    /\ standing' = [standing EXCEPT ![request[r].who] = "blocked"]
    /\ UNCHANGED <<cast, kvVars, told, owners, password, tokenVars, guesses>>

unblock_client(r) ==
    /\ Commit(r, "unblock")
    /\ standing' = [standing EXCEPT ![request[r].who] = "active"]
    /\ UNCHANGED <<cast, kvVars, told, owners, password, tokenVars, guesses>>
-----------------------------------------------------------------------------
StoreStep ==
    \/ \E p \in Clients : ResendEnds(p)
    \/ \E c \in Codes : CodeExpires(c) \/ VerifyExhausted(c) \/ VerifyWrong(c)

ClientBegins(r) ==
    \/ \E p \in Clients, c \in Codes : issue_otp(r, p, c)
    \/ \E c \in Codes : VerifyRight(r, c)
    \/ \E t \in Tokens : refresh(r, t) \/ LogoutOne(r, t)
    \/ \E p \in Clients : LogoutAll(r, p)

StaffBegins(r) ==
    \/ \E a \in Admins : login(r, a)
    \/ \E actor, a \in Admins :
          \/ \E owner \in BOOLEAN : create_user(r, actor, a, owner)
          \/ \E change \in Change : update_user(r, actor, a, change)
          \/ reset_password(r, actor, a)
    \/ \E p \in Clients, op \in {"block", "unblock"} : BlockOrUnblock(r, p, op)

Ends(r) ==
    \/ CommitIssue(r)
    \/ \E t \in Tokens : CommitSignIn(r, t) \/ CommitLogin(r, t) \/ rotate_refresh_token(r, t)
    \/ CommitLogout(r)
    \/ CommitCreate(r)
    \/ CommitUpdate(r)
    \/ CommitReset(r)
    \/ block_client(r)
    \/ unblock_client(r)
    \/ Refused(r)

Next ==
    \/ StoreStep
    \/ Crash
    \/ \E r \in Requests : ClientBegins(r) \/ StaffBegins(r) \/ Ends(r)

Spec == Init /\ [][Next]_vars
-----------------------------------------------------------------------------
(* Properties.                                                             *)

Session == [subject : Accounts, chain : Tokens, via : Codes \cup {NULL}, under : 0 .. MaxResets]

Request ==
    [op : {"issue"}, who : Clients, ref : Codes]
        \cup [op : {"sign_in"}, who : Clients, ref : Codes]
        \cup [op : {"refresh"}, who : Accounts, ref : Tokens]
        \cup [op : {"logout"}, who : Accounts, ref : Tokens \cup {NULL}]
        \cup [op : {"login"}, who : Admins, ref : 0 .. MaxResets]
        \cup [op : {"create"}, who : Admins, ref : BOOLEAN]
        \cup [op : {"update"}, who : Admins, ref : Change]
        \cup [op : {"reset"}, who : Admins, ref : {NULL}]
        \cup [op : {"block", "unblock"}, who : Clients, ref : {NULL}]

TypeOK ==
    /\ cast \in Casts
    /\ code \in [Codes -> [phone : Clients, attempts : 0 .. MaxAttempts - 1] \cup {NULL}]
    /\ resend \subseteq Clients
    /\ told \subseteq Codes
    /\ standing \in [Accounts -> {"active", "blocked", NULL}]
    /\ owners \subseteq Admins
    /\ password \in [Accounts -> 0 .. MaxResets]
    /\ token \in [Tokens -> Session \cup {NULL}]
    /\ revoked \subseteq Tokens
    /\ request \in [Requests -> Request \cup {NULL, OVERTAKEN}]
    /\ guesses \in [Codes -> Nat]
    /\ ended \subseteq Tokens

(* A code is compared with fewer guesses than otp_max_attempts, and opens  *)
(* one session, however requests overlap and whatever commits are refused. *)
CodeHoldsOut ==
    /\ \A c \in Codes : guesses[c] < MaxAttempts
    /\ \A t, u \in Tokens :
          /\ token[t] # NULL /\ token[u] # NULL
          /\ token[t].via # NULL /\ token[t].via = token[u].via
          => token[t].chain = token[u].chain

(* "A stolen token is single-use": a session is a chain of tokens of which *)
(* at most one works, also when two refreshes present the same token.      *)
OneLinkLives ==
    \A t, u \in Tokens :
        Live(t) /\ Live(u) /\ token[t].chain = token[u].chain => t = u

(* A session that was ended, by a logout or a reset of the password, stays *)
(* ended, also when a refresh or a login was under way: "leaving live      *)
(* refresh tokens behind would make the reset cosmetic".                   *)
EndedStaysEnded ==
    \A t \in Tokens : Live(t) =>
        /\ token[t].chain \notin ended
        /\ token[t].subject \in Admins => token[t].under = password[token[t].subject]

(* Somebody who may write users remains, whoever demotes whom at once.     *)
OwnerRemains == \E a \in owners : Active(a)

(* No token is given to an account that has been blocked, also when the    *)
(* block arrives between the check and the token.                          *)
NoTokenForBlocked ==
    [][\A t \in Tokens :
          token[t] = NULL /\ token'[t] # NULL => standing[token'[t].subject] # "blocked"
      ]_vars
=============================================================================
