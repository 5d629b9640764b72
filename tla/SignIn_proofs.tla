---------------------------- MODULE SignIn_proofs ----------------------------
(***************************************************************************)
(* For any accounts, codes, tokens and number of requests at once: codes   *)
(* hold out, a session has one live token, what was ended stays ended and  *)
(* an owner remains.                                                       *)
(*                                                                         *)
(* The argument is that of optimistic transactions: whatever a request has *)
(* read is still true while it has not been overtaken (Seen), because      *)
(* every commit overtakes all the others.                                  *)
(***************************************************************************)
EXTENDS SignIn, TLAPS

(* What r will commit, if it commits.                                      *)
Pends(r, op) == request[r] # NULL /\ request[r].op = op

(* What a request has read when it began.                                  *)
SeenTokens(r) ==
    /\ Pends(r, "refresh") =>
          /\ Live(request[r].ref)
          /\ request[r].who = token[request[r].ref].subject
          /\ Active(request[r].who)
    /\ Pends(r, "logout") => request[r].ref = NULL \/ Live(request[r].ref)

SeenAccounts(r) ==
    /\ Pends(r, "sign_in") => standing[request[r].who] # "blocked"
    /\ Pends(r, "login") =>
          /\ Active(request[r].who)
          /\ request[r].ref = password[request[r].who]
    /\ Pends(r, "reset") => password[request[r].who] < MaxResets
    /\ Pends(r, "update") /\ request[r].ref \in {"deactivate", "demote"} =>
          \E actor \in owners : actor # request[r].who /\ Active(actor)

Seen(r) == SeenTokens(r) /\ SeenAccounts(r)

(* A code that will not be compared again.                                 *)
Spent(c) == c \in told /\ code[c] = NULL

(* A code that is being turned into a session, which nobody else does.     *)
Exchanging(r) ==
    Pends(r, "sign_in") =>
        /\ Spent(request[r].ref)
        /\ \A t \in Tokens : token[t] # NULL => token[t].via # request[r].ref
        /\ \A x \in Requests :
              Pends(x, "sign_in") /\ request[x].ref = request[r].ref => x = r

GuessInv ==
    \A c \in Codes :
        /\ guesses[c] < MaxAttempts
        /\ c \notin told => guesses[c] = 0
        /\ code[c] # NULL => guesses[c] = code[c].attempts

CodeInv ==
    /\ \A t \in Tokens : token[t] # NULL /\ token[t].via # NULL => Spent(token[t].via)
    /\ \A r \in Requests : Exchanging(r)

(* Every link of a session, and every session, is a token that was minted. *)
ChainInv ==
    /\ \A t \in Tokens : token[t] # NULL => token[token[t].chain] # NULL
    /\ \A t \in revoked \cup ended : token[t] # NULL

IInv ==
    /\ TypeOK
    /\ GuessInv
    /\ CodeInv
    /\ ChainInv
    /\ CodeHoldsOut
    /\ OneLinkLives
    /\ EndedStaysEnded
    /\ OwnerRemains
    /\ \A r \in Requests : Seen(r)
-----------------------------------------------------------------------------
(* A commit overtakes every other request, so nothing pends behind it.     *)
LEMMA NothingPends ==
    ASSUME NEW x \in Requests, NEW op, op # "overtaken", request' = Overtaken(x)
    PROVE  \A r \in Requests : ~Pends(r, op)'
BY DEF Overtaken, OVERTAKEN, Pends

(* What a request has read does not change but by a commit.                *)
LEMMA SeenKept ==
    ASSUME NEW r \in Requests, request'[r] = request[r],
           UNCHANGED <<staffVars, token, revoked>>, Seen(r)
    PROVE  Seen(r)'
BY DEF Seen, SeenTokens, SeenAccounts, Pends, Live, Active, staffVars

(* A request that begins is the only one that changes.                     *)
LEMMA BeginsOne ==
    ASSUME TypeOK, NEW r \in Requests, NEW op, NEW who, NEW ref, Begin(r, op, who, ref)
    PROVE  /\ request'[r] = [op |-> op, who |-> who, ref |-> ref]
           /\ \A x \in Requests \ {r} : request'[x] = request[x]
BY DEF Begin, TypeOK

(* A commit finds its request as it began.                                 *)
LEMMA CommitFinds ==
    ASSUME TypeOK, NEW r \in Requests, NEW op, op # "overtaken", Commit(r, op)
    PROVE  /\ Pends(r, op)
           /\ request[r] \in Request
           /\ request' = Overtaken(r)
BY DEF Commit, Pends, TypeOK, OVERTAKEN
-----------------------------------------------------------------------------
(* Types.                                                                  *)

LEMMA BeginsTyped ==
    ASSUME TypeOK, NEW r \in Requests, NEW op, NEW who, NEW ref, Begin(r, op, who, ref),
           [op |-> op, who |-> who, ref |-> ref] \in Request
    PROVE  request' \in [Requests -> Request \cup {NULL, OVERTAKEN}]
BY DEF Begin, TypeOK

LEMMA OvertakenTyped ==
    ASSUME NEW r \in Requests, request' = Overtaken(r)
    PROVE  request' \in [Requests -> Request \cup {NULL, OVERTAKEN}]
BY DEF Overtaken

LEMMA StepTypes == IInv /\ [Next]_vars => TypeOK'
<1> SUFFICES ASSUME IInv, [Next]_vars PROVE TypeOK'
    OBVIOUS
<1> USE SignInAssumption DEF Accounts, kvVars, staffVars, tokenVars
<1>0. TypeOK
    BY DEF IInv
<1>1. CASE StoreStep \/ Crash
    <2>1. ASSUME NEW p \in Clients, ResendEnds(p) PROVE TypeOK'
        BY <1>0, <2>1 DEF ResendEnds, TypeOK
    <2>2. ASSUME NEW c \in Codes, CodeExpires(c) \/ VerifyExhausted(c) PROVE TypeOK'
        BY <1>0, <2>2 DEF CodeExpires, VerifyExhausted, TypeOK
    <2>3. ASSUME NEW c \in Codes, VerifyWrong(c) PROVE TypeOK'
        <3>1. code[c] \in [phone : Clients, attempts : 0 .. MaxAttempts - 1]
            BY <1>0, <2>3 DEF VerifyWrong, TypeOK
        <3>2. code' \in [Codes -> [phone : Clients, attempts : 0 .. MaxAttempts - 1] \cup {NULL}]
            BY <1>0, <2>3, <3>1 DEF VerifyWrong, Exhausted, TypeOK
        <3>3. guesses' \in [Codes -> Nat]
            BY <1>0, <2>3 DEF VerifyWrong, Guess, TypeOK
        <3> QED BY <1>0, <2>3, <3>2, <3>3 DEF VerifyWrong, TypeOK
    <2>4. CASE Crash
        BY <1>0, <2>4 DEF Crash, TypeOK
    <2> QED BY <1>1, <2>1, <2>2, <2>3, <2>4 DEF StoreStep
<1>2. ASSUME NEW r \in Requests, ClientBegins(r) PROVE TypeOK'
    <2>1. ASSUME NEW p \in Clients, NEW c \in Codes, issue_otp(r, p, c) PROVE TypeOK'
        <3>1. request' \in [Requests -> Request \cup {NULL, OVERTAKEN}]
            BY <1>0, <2>1, BeginsTyped DEF issue_otp, Request
        <3> QED BY <1>0, <2>1, <3>1 DEF issue_otp, TypeOK
    <2>2. ASSUME NEW c \in Codes, VerifyRight(r, c) PROVE TypeOK'
        <3>1. code[c].phone \in Clients
            BY <1>0, <2>2 DEF VerifyRight, TypeOK
        <3>2. request' \in [Requests -> Request \cup {NULL, OVERTAKEN}]
            <4>1. CASE UNCHANGED request
                BY <1>0, <4>1 DEF TypeOK
            <4>2. CASE Begin(r, "sign_in", code[c].phone, c)
                BY <1>0, <3>1, <4>2, BeginsTyped DEF Request
            <4> QED BY <2>2, <4>1, <4>2 DEF VerifyRight
        <3>3. guesses' \in [Codes -> Nat]
            BY <1>0, <2>2 DEF VerifyRight, Guess, TypeOK
        <3> QED BY <1>0, <2>2, <3>2, <3>3 DEF VerifyRight, TypeOK
    <2>3. ASSUME NEW t \in Tokens, refresh(r, t) \/ LogoutOne(r, t) PROVE TypeOK'
        <3>1. token[t].subject \in Accounts
            BY <1>0, <2>3 DEF refresh, LogoutOne, Live, TypeOK, Session
        <3>2. request' \in [Requests -> Request \cup {NULL, OVERTAKEN}]
            BY <1>0, <2>3, <3>1, BeginsTyped DEF refresh, LogoutOne, Request
        <3> QED BY <1>0, <2>3, <3>2 DEF refresh, LogoutOne, TypeOK
    <2>4. ASSUME NEW p \in Clients, LogoutAll(r, p) PROVE TypeOK'
        <3>1. request' \in [Requests -> Request \cup {NULL, OVERTAKEN}]
            BY <1>0, <2>4, BeginsTyped DEF LogoutAll, Request
        <3> QED BY <1>0, <2>4, <3>1 DEF LogoutAll, TypeOK
    <2> QED BY <1>2, <2>1, <2>2, <2>3, <2>4 DEF ClientBegins
<1>3. ASSUME NEW r \in Requests, StaffBegins(r) PROVE TypeOK'
    <2>1. request' \in [Requests -> Request \cup {NULL, OVERTAKEN}]
        <3>1. ASSUME NEW a \in Admins, login(r, a)
              PROVE request' \in [Requests -> Request \cup {NULL, OVERTAKEN}]
            <4>1. password[a] \in 0 .. MaxResets
                BY <1>0 DEF TypeOK
            <4> QED BY <1>0, <3>1, <4>1, BeginsTyped DEF login, Request
        <3>2. ASSUME NEW actor \in Admins, NEW a \in Admins, NEW owner \in BOOLEAN,
                     create_user(r, actor, a, owner)
              PROVE request' \in [Requests -> Request \cup {NULL, OVERTAKEN}]
            BY <1>0, <3>2, BeginsTyped DEF create_user, Request
        <3>3. ASSUME NEW actor \in Admins, NEW a \in Admins, NEW change \in Change,
                     update_user(r, actor, a, change)
              PROVE request' \in [Requests -> Request \cup {NULL, OVERTAKEN}]
            BY <1>0, <3>3, BeginsTyped DEF update_user, Request
        <3>4. ASSUME NEW actor \in Admins, NEW a \in Admins, reset_password(r, actor, a)
              PROVE request' \in [Requests -> Request \cup {NULL, OVERTAKEN}]
            BY <1>0, <3>4, BeginsTyped DEF reset_password, Request
        <3>5. ASSUME NEW p \in Clients, NEW op \in {"block", "unblock"}, BlockOrUnblock(r, p, op)
              PROVE request' \in [Requests -> Request \cup {NULL, OVERTAKEN}]
            BY <1>0, <3>5, BeginsTyped DEF BlockOrUnblock, Request
        <3> QED BY <1>3, <3>1, <3>2, <3>3, <3>4, <3>5 DEF StaffBegins
    <2>2. UNCHANGED <<cast, kvVars, told, staffVars, tokenVars, guesses>>
        BY <1>3 DEF StaffBegins, login, create_user, update_user, reset_password, BlockOrUnblock
    <2> QED BY <1>0, <2>1, <2>2 DEF TypeOK
<1>4. ASSUME NEW r \in Requests, Ends(r) PROVE TypeOK'
    <2>1. CASE CommitIssue(r)
        <3>1. request[r].ref \in Codes
            BY <1>0, <2>1, CommitFinds DEF CommitIssue, Pends, Request
        <3>2. request' \in [Requests -> Request \cup {NULL, OVERTAKEN}]
            BY <1>0, <2>1, CommitFinds, OvertakenTyped DEF CommitIssue
        <3> QED BY <1>0, <2>1, <3>1, <3>2 DEF CommitIssue, TypeOK
    <2>2. ASSUME NEW t \in Tokens, CommitSignIn(r, t) PROVE TypeOK'
        <3>1. request[r].who \in Clients /\ request[r].ref \in Codes
            BY <1>0, <2>2, CommitFinds DEF CommitSignIn, Pends, Request
        <3>2. token' \in [Tokens -> Session \cup {NULL}]
            BY <1>0, <2>2, <3>1 DEF CommitSignIn, Mint, TypeOK, Session
        <3>3. standing' \in [Accounts -> {"active", "blocked", NULL}]
            BY <1>0, <2>2, <3>1 DEF CommitSignIn, get_or_create_client, TypeOK
        <3>4. request' \in [Requests -> Request \cup {NULL, OVERTAKEN}]
            BY <1>0, <2>2, CommitFinds, OvertakenTyped DEF CommitSignIn
        <3> QED BY <1>0, <2>2, <3>2, <3>3, <3>4 DEF CommitSignIn, TypeOK
    <2>3. ASSUME NEW t \in Tokens, CommitLogin(r, t) PROVE TypeOK'
        <3>1. request[r].who \in Admins /\ request[r].ref \in 0 .. MaxResets
            BY <1>0, <2>3, CommitFinds DEF CommitLogin, Pends, Request
        <3>2. token' \in [Tokens -> Session \cup {NULL}]
            BY <1>0, <2>3, <3>1 DEF CommitLogin, Mint, TypeOK, Session
        <3>3. request' \in [Requests -> Request \cup {NULL, OVERTAKEN}]
            BY <1>0, <2>3, CommitFinds, OvertakenTyped DEF CommitLogin
        <3> QED BY <1>0, <2>3, <3>2, <3>3 DEF CommitLogin, TypeOK
    <2>4. ASSUME NEW t \in Tokens, rotate_refresh_token(r, t) PROVE TypeOK'
        <3>1. request[r].ref \in Tokens /\ Live(request[r].ref)
            BY <1>0, <2>4, CommitFinds DEF rotate_refresh_token, Pends, Request, IInv, Seen, SeenTokens
        <3>2. token[request[r].ref] \in Session
            BY <1>0, <3>1 DEF Live, TypeOK
        <3>3. token' \in [Tokens -> Session \cup {NULL}]
            BY <1>0, <2>4, <3>2 DEF rotate_refresh_token, Mint, TypeOK, Session
        <3>4. request' \in [Requests -> Request \cup {NULL, OVERTAKEN}]
            BY <1>0, <2>4, CommitFinds, OvertakenTyped DEF rotate_refresh_token
        <3> QED BY <1>0, <2>4, <3>1, <3>3, <3>4 DEF rotate_refresh_token, TypeOK
    <2>5. CASE CommitLogout(r) \/ CommitReset(r)
        <3>1. request' \in [Requests -> Request \cup {NULL, OVERTAKEN}]
            BY <1>0, <2>5, CommitFinds, OvertakenTyped DEF CommitLogout, CommitReset
        <3>2. password' \in [Accounts -> 0 .. MaxResets]
            <4>1. CASE CommitLogout(r)
                BY <1>0, <4>1 DEF CommitLogout, TypeOK
            <4>2. CASE CommitReset(r)
                <5>1. request[r].who \in Accounts /\ password[request[r].who] < MaxResets
                    BY <1>0, <4>2, CommitFinds DEF CommitReset, Pends, Request, IInv, Seen, SeenAccounts
                <5> QED BY <1>0, <4>2, <5>1 DEF CommitReset, TypeOK
            <4> QED BY <2>5, <4>1, <4>2
        <3>3. PICK ts \in SUBSET Tokens : End(ts) /\ \A t \in ts : Live(t)
            <4>1. CASE CommitLogout(r)
                <5>1. request[r].ref = NULL \/ (request[r].ref \in Tokens /\ Live(request[r].ref))
                    BY <1>0, <4>1, CommitFinds DEF CommitLogout, Pends, Request, IInv, Seen, SeenTokens
                <5> QED BY <4>1, <5>1 DEF CommitLogout, LoggedOut, LiveOf
            <4>2. CASE CommitReset(r)
                BY <4>2 DEF CommitReset, LiveOf
            <4> QED BY <2>5, <4>1, <4>2
        <3>4. revoked' \subseteq Tokens /\ ended' \subseteq Tokens
            BY <1>0, <3>3 DEF End, Live, TypeOK, Session
        <3> QED BY <1>0, <2>5, <3>1, <3>2, <3>4 DEF CommitLogout, CommitReset, TypeOK
    <2>6. CASE CommitCreate(r) \/ CommitUpdate(r)
        <3>1. request[r].who \in Admins
            BY <1>0, <2>6, CommitFinds DEF CommitCreate, CommitUpdate, Pends, Request
        <3>2. request' \in [Requests -> Request \cup {NULL, OVERTAKEN}]
            BY <1>0, <2>6, CommitFinds, OvertakenTyped DEF CommitCreate, CommitUpdate
        <3>3. standing' \in [Accounts -> {"active", "blocked", NULL}] /\ owners' \subseteq Admins
            BY <1>0, <2>6, <3>1 DEF CommitCreate, CommitUpdate, TypeOK
        <3> QED BY <1>0, <2>6, <3>2, <3>3 DEF CommitCreate, CommitUpdate, TypeOK
    <2>7. CASE block_client(r) \/ unblock_client(r)
        <3>1. request[r].who \in Clients
            BY <1>0, <2>7, CommitFinds DEF block_client, unblock_client, Pends, Request
        <3>2. request' \in [Requests -> Request \cup {NULL, OVERTAKEN}]
            BY <1>0, <2>7, CommitFinds, OvertakenTyped DEF block_client, unblock_client
        <3> QED BY <1>0, <2>7, <3>1, <3>2 DEF block_client, unblock_client, TypeOK
    <2>8. CASE Refused(r)
        BY <1>0, <2>8 DEF Refused, TypeOK
    <2> QED BY <1>4, <2>1, <2>2, <2>3, <2>4, <2>5, <2>6, <2>7, <2>8 DEF Ends
<1>5. CASE UNCHANGED vars
    BY <1>0, <1>5 DEF vars, TypeOK
<1> QED BY <1>1, <1>2, <1>3, <1>4, <1>5 DEF Next
-----------------------------------------------------------------------------
(* What commits do to the tokens.                                          *)

(* t becomes a link of a session: a new one, or that of a token it ends.   *)
Minted(t, row, gone) ==
    /\ Mint(t, row.subject, row.chain, row.via, row.under)
    /\ row \in Session
    /\ revoked' = revoked \cup gone
    /\ standing[row.subject] # "blocked"
    /\ row.subject \in Admins => row.under = password[row.subject]
    /\ row.chain \notin ended
    /\ UNCHANGED <<code, told, guesses, owners, password, ended>>

LEMMA RotationMints ==
    ASSUME IInv, NEW r \in Requests, NEW t \in Tokens, rotate_refresh_token(r, t)
    PROVE  /\ request[r].ref \in Tokens /\ Live(request[r].ref)
           /\ Minted(t, token[request[r].ref], {request[r].ref})
<1>0. TypeOK
    BY DEF IInv
<1>1. /\ request[r].ref \in Tokens /\ Live(request[r].ref)
      /\ Active(token[request[r].ref].subject)
    BY <1>0, CommitFinds DEF rotate_refresh_token, Pends, Request, IInv, Seen, SeenTokens
<1>2. token[request[r].ref] \in Session
    BY <1>0, <1>1 DEF Live, TypeOK
<1>3. /\ token[request[r].ref].chain \notin ended
      /\ token[request[r].ref].subject \in Admins =>
            token[request[r].ref].under = password[token[request[r].ref].subject]
    BY <1>1 DEF IInv, EndedStaysEnded
<1> QED BY <1>1, <1>2, <1>3 DEF rotate_refresh_token, Minted, Active, kvVars, staffVars

LEMMA SignInMints ==
    ASSUME IInv, NEW r \in Requests, NEW t \in Tokens, CommitSignIn(r, t)
    PROVE  /\ request[r].ref \in Codes /\ Pends(r, "sign_in")
           /\ Minted(t, [subject |-> request[r].who, chain |-> t,
                          via |-> request[r].ref, under |-> 0], {})
<1>0. TypeOK /\ ChainInv
    BY DEF IInv
<1>1. /\ request[r].who \in Clients /\ request[r].ref \in Codes
      /\ Pends(r, "sign_in")
      /\ standing[request[r].who] # "blocked"
    BY <1>0, CommitFinds DEF CommitSignIn, Pends, Request, IInv, Seen, SeenAccounts
<1>2. token[t] = NULL /\ t \notin ended
    BY <1>0 DEF CommitSignIn, Mint, ChainInv
<1>3. request[r].who \notin Admins /\ request[r].who \in Accounts /\ 0 \in 0 .. MaxResets
    BY <1>1, SignInAssumption DEF Accounts
<1> QED BY <1>1, <1>2, <1>3 DEF CommitSignIn, Minted, Session, kvVars

LEMMA LoginMints ==
    ASSUME IInv, NEW r \in Requests, NEW t \in Tokens, CommitLogin(r, t)
    PROVE  Minted(t, [subject |-> request[r].who, chain |-> t,
                      via |-> NULL, under |-> request[r].ref], {})
<1>0. TypeOK /\ ChainInv
    BY DEF IInv
<1>1. /\ request[r].who \in Admins /\ request[r].ref \in 0 .. MaxResets
      /\ Active(request[r].who) /\ request[r].ref = password[request[r].who]
    BY <1>0, CommitFinds DEF CommitLogin, Pends, Request, IInv, Seen, SeenAccounts
<1>2. token[t] = NULL /\ t \notin ended
    BY <1>0 DEF CommitLogin, Mint, ChainInv
<1> QED BY <1>1, <1>2 DEF CommitLogin, Minted, Session, Accounts, Active, kvVars, staffVars

LEMMA LogoutEnds ==
    ASSUME IInv, NEW r \in Requests, CommitLogout(r)
    PROVE  LoggedOut(r) \subseteq Tokens /\ \A t \in LoggedOut(r) : Live(t)
<1>1. request[r].ref = NULL \/ (request[r].ref \in Tokens /\ Live(request[r].ref))
    BY CommitFinds DEF CommitLogout, Pends, Request, IInv, Seen, SeenTokens
<1> QED BY <1>1 DEF LoggedOut, LiveOf
-----------------------------------------------------------------------------
(* Sessions.                                                               *)

LEMMA MintKeepsSessions ==
    ASSUME IInv, NEW t \in Tokens, NEW row, NEW gone, Minted(t, row, gone),
           \/ row.chain = t /\ gone = {}
           \/ \E old \in Tokens : Live(old) /\ row = token[old] /\ gone = {old}
    PROVE  (ChainInv /\ OneLinkLives /\ EndedStaysEnded)'
<1>0. TypeOK /\ ChainInv /\ OneLinkLives /\ EndedStaysEnded
    BY DEF IInv
<1>1. /\ token[t] = NULL
      /\ token' = [token EXCEPT ![t] = [subject |-> row.subject, chain |-> row.chain,
                                        via |-> row.via, under |-> row.under]]
      /\ token'[t] = row
      /\ revoked' = revoked \cup gone
      /\ UNCHANGED <<password, ended>>
    BY <1>0 DEF Minted, Mint, Session, TypeOK
<1>2. \A u \in Tokens \ {t} : token'[u] = token[u]
    BY <1>1, <1>0 DEF TypeOK
<1>3. row.chain \in Tokens /\ row.chain \notin ended
    BY DEF Minted, Session
<1>4. \A u \in Tokens \ {t} : Live(u)' => Live(u) /\ u \notin gone
    BY <1>1, <1>2 DEF Live
<1>5. ChainInv'
    BY <1>0, <1>1, <1>2, <1>3 DEF ChainInv, TypeOK, Live, Session
<1>6. \A u \in Tokens \ {t} : Live(u)' => token[u].chain # row.chain
    <2>1. CASE row.chain = t /\ gone = {}
        BY <1>0, <1>1, <1>4, <2>1 DEF ChainInv, Live
    <2>2. CASE \E old \in Tokens : Live(old) /\ row = token[old] /\ gone = {old}
        BY <1>0, <1>4, <2>2 DEF OneLinkLives
    <2> QED BY <2>1, <2>2
<1>7. OneLinkLives'
    BY <1>0, <1>1, <1>2, <1>4, <1>6 DEF OneLinkLives
<1>8. EndedStaysEnded'
    BY <1>0, <1>1, <1>2, <1>3, <1>4 DEF EndedStaysEnded, Minted
<1> QED BY <1>5, <1>7, <1>8

LEMMA EndKeepsSessions ==
    ASSUME IInv, NEW ts \in SUBSET Tokens, End(ts), \A t \in ts : Live(t), token' = token,
           \A a \in Admins : password'[a] = password[a] \/ LiveOf(a) \subseteq ts
    PROVE  (ChainInv /\ OneLinkLives /\ EndedStaysEnded)'
<1>0. TypeOK /\ ChainInv /\ OneLinkLives /\ EndedStaysEnded
    BY DEF IInv
<1>1. \A u \in Tokens : Live(u)' => Live(u) /\ u \notin ts
    BY DEF Live, End
<1>2. ChainInv'
    BY <1>0 DEF ChainInv, End, Live
<1>3. OneLinkLives'
    BY <1>0, <1>1 DEF OneLinkLives
<1>4. ASSUME NEW u \in Tokens, Live(u)'
      PROVE  /\ token[u].chain \notin ended'
             /\ token[u].subject \in Admins => token[u].under = password'[token[u].subject]
    <2>1. token[u].chain \notin ended'
        BY <1>0, <1>1, <1>4 DEF End, EndedStaysEnded, OneLinkLives
    <2>2. token[u].subject \in Admins => token[u].under = password'[token[u].subject]
        BY <1>0, <1>1, <1>4 DEF EndedStaysEnded, LiveOf
    <2> QED BY <2>1, <2>2
<1>5. EndedStaysEnded'
    BY <1>4 DEF EndedStaysEnded
<1> QED BY <1>2, <1>3, <1>5

LEMMA StepSessions == IInv /\ [Next]_vars => (ChainInv /\ OneLinkLives /\ EndedStaysEnded)'
<1> SUFFICES ASSUME IInv, [Next]_vars PROVE (ChainInv /\ OneLinkLives /\ EndedStaysEnded)'
    OBVIOUS
<1>0. TypeOK /\ ChainInv /\ OneLinkLives /\ EndedStaysEnded
    BY DEF IInv
<1>1. CASE UNCHANGED <<token, revoked, ended, password>>
    BY <1>0, <1>1 DEF ChainInv, OneLinkLives, EndedStaysEnded, Live
<1>2. ASSUME NEW r \in Requests, NEW t \in Tokens, rotate_refresh_token(r, t)
      PROVE (ChainInv /\ OneLinkLives /\ EndedStaysEnded)'
    BY <1>2, RotationMints, MintKeepsSessions
<1>3. ASSUME NEW r \in Requests, NEW t \in Tokens, CommitSignIn(r, t)
      PROVE (ChainInv /\ OneLinkLives /\ EndedStaysEnded)'
    <2> DEFINE row == [subject |-> request[r].who, chain |-> t, via |-> request[r].ref, under |-> 0]
    <2>1. Minted(t, row, {}) /\ row.chain = t
        BY <1>3, SignInMints
    <2> HIDE DEF row
    <2> QED BY <2>1, MintKeepsSessions
<1>4. ASSUME NEW r \in Requests, NEW t \in Tokens, CommitLogin(r, t)
      PROVE (ChainInv /\ OneLinkLives /\ EndedStaysEnded)'
    <2> DEFINE row == [subject |-> request[r].who, chain |-> t, via |-> NULL, under |-> request[r].ref]
    <2>1. Minted(t, row, {}) /\ row.chain = t
        BY <1>4, LoginMints
    <2> HIDE DEF row
    <2> QED BY <2>1, MintKeepsSessions
<1>5. ASSUME NEW r \in Requests, CommitLogout(r)
      PROVE (ChainInv /\ OneLinkLives /\ EndedStaysEnded)'
    BY <1>5, LogoutEnds, EndKeepsSessions DEF CommitLogout, staffVars
<1>6. ASSUME NEW r \in Requests, CommitReset(r)
      PROVE (ChainInv /\ OneLinkLives /\ EndedStaysEnded)'
    <2>1. \A a \in Admins : password'[a] = password[a] \/ LiveOf(a) \subseteq LiveOf(request[r].who)
        BY <1>0, <1>6 DEF CommitReset, TypeOK, Accounts
    <2>2. LiveOf(request[r].who) \subseteq Tokens /\ \A t \in LiveOf(request[r].who) : Live(t)
        BY DEF LiveOf
    <2> QED BY <1>6, <2>1, <2>2, EndKeepsSessions DEF CommitReset
<1>7. CASE StoreStep \/ Crash
    BY <1>1, <1>7 DEF StoreStep, Crash, ResendEnds, CodeExpires, VerifyExhausted, VerifyWrong,
        staffVars, tokenVars
<1>8. ASSUME NEW r \in Requests, ClientBegins(r) \/ StaffBegins(r)
      PROVE UNCHANGED <<token, revoked, ended, password>>
    BY <1>8 DEF ClientBegins, StaffBegins, issue_otp, VerifyRight, refresh, LogoutOne, LogoutAll,
        login, create_user, update_user, reset_password, BlockOrUnblock, staffVars, tokenVars
<1>9. ASSUME NEW r \in Requests,
             \/ CommitIssue(r) \/ CommitCreate(r) \/ CommitUpdate(r)
             \/ block_client(r) \/ unblock_client(r) \/ Refused(r)
      PROVE UNCHANGED <<token, revoked, ended, password>>
    BY <1>9 DEF CommitIssue, CommitCreate, CommitUpdate, block_client, unblock_client, Refused,
        staffVars, tokenVars
<1> QED BY <1>1, <1>2, <1>3, <1>4, <1>5, <1>6, <1>7, <1>8, <1>9 DEF Next, Ends, vars, staffVars, tokenVars
-----------------------------------------------------------------------------
(* One-time codes.                                                         *)

LEMMA StepGuesses == IInv /\ [Next]_vars => GuessInv'
<1> SUFFICES ASSUME IInv, [Next]_vars PROVE GuessInv'
    OBVIOUS
<1> USE SignInAssumption
<1>0. TypeOK /\ GuessInv
    BY DEF IInv
<1>1. CASE UNCHANGED <<code, told, guesses>>
    BY <1>0, <1>1 DEF GuessInv
<1>2. ASSUME NEW c \in Codes, CodeExpires(c) \/ VerifyExhausted(c) PROVE GuessInv'
    BY <1>0, <1>2 DEF CodeExpires, VerifyExhausted, GuessInv, TypeOK
<1>3. ASSUME NEW c \in Codes, VerifyWrong(c) PROVE GuessInv'
    <2>1. code[c] \in [phone : Clients, attempts : 0 .. MaxAttempts - 1]
        BY <1>0, <1>3 DEF VerifyWrong, TypeOK
    <2>2. /\ guesses'[c] = guesses[c] + 1 /\ code'[c].attempts = code[c].attempts + 1
          /\ \A d \in Codes \ {c} : code'[d] = code[d] /\ guesses'[d] = guesses[d]
        BY <1>0, <1>3, <2>1 DEF VerifyWrong, Guess, TypeOK
    <2>3. guesses[c] = code[c].attempts /\ guesses[c] + 1 < MaxAttempts
        BY <1>0, <1>3, <2>1 DEF VerifyWrong, Exhausted, GuessInv
    <2> QED BY <1>0, <1>3, <2>2, <2>3 DEF VerifyWrong, GuessInv
<1>4. ASSUME NEW r \in Requests, NEW c \in Codes, VerifyRight(r, c) PROVE GuessInv'
    <2>1. code[c] \in [phone : Clients, attempts : 0 .. MaxAttempts - 1]
        BY <1>0, <1>4 DEF VerifyRight, TypeOK
    <2>2. /\ guesses'[c] = guesses[c] + 1 /\ code'[c] = NULL
          /\ \A d \in Codes \ {c} : code'[d] = code[d] /\ guesses'[d] = guesses[d]
        BY <1>0, <1>4, <2>1 DEF VerifyRight, Guess, TypeOK
    <2>3. guesses[c] = code[c].attempts /\ guesses[c] + 1 < MaxAttempts
        BY <1>0, <1>4, <2>1 DEF VerifyRight, Exhausted, GuessInv
    <2> QED BY <1>0, <1>4, <2>2, <2>3 DEF VerifyRight, GuessInv
<1>5. ASSUME NEW r \in Requests, NEW p \in Clients, NEW c \in Codes, issue_otp(r, p, c) PROVE GuessInv'
    BY <1>0, <1>5 DEF issue_otp, GuessInv, TypeOK
<1>6. ASSUME NEW r \in Requests, CommitIssue(r) PROVE GuessInv'
    BY <1>0, <1>6 DEF CommitIssue, GuessInv, kvVars
<1>7. CASE Crash
    BY <1>0, <1>7 DEF Crash, GuessInv
<1>8. ASSUME NEW p \in Clients, ResendEnds(p) PROVE UNCHANGED <<code, told, guesses>>
    BY <1>8 DEF ResendEnds
<1>9. ASSUME NEW r \in Requests,
             \/ StaffBegins(r)
             \/ \E t \in Tokens : refresh(r, t) \/ LogoutOne(r, t)
             \/ \E p \in Clients : LogoutAll(r, p)
      PROVE UNCHANGED <<code, told, guesses>>
    BY <1>9 DEF StaffBegins, refresh, LogoutOne, LogoutAll, login, create_user, update_user,
        reset_password, BlockOrUnblock, kvVars
<1>10. ASSUME NEW r \in Requests, Ends(r), ~CommitIssue(r) PROVE UNCHANGED <<code, told, guesses>>
    BY <1>10 DEF Ends, CommitSignIn, CommitLogin, rotate_refresh_token, CommitLogout, CommitCreate,
        CommitUpdate, CommitReset, block_client, unblock_client, Refused, kvVars
<1> QED BY <1>1, <1>2, <1>3, <1>4, <1>5, <1>6, <1>7, <1>8, <1>9, <1>10
    DEF Next, StoreStep, ClientBegins, vars, kvVars

LEMMA SpentForGood ==
    ASSUME IInv, [Next]_vars, NEW c \in Codes, Spent(c)
    PROVE  Spent(c)'
<1>0. TypeOK
    BY DEF IInv
<1>1. ASSUME NEW d \in Codes, CodeExpires(d) \/ VerifyExhausted(d) \/ VerifyWrong(d) PROVE Spent(c)'
    BY <1>0, <1>1 DEF CodeExpires, VerifyExhausted, VerifyWrong, Spent, TypeOK
<1>2. ASSUME NEW r \in Requests, NEW d \in Codes, VerifyRight(r, d) PROVE Spent(c)'
    BY <1>0, <1>2 DEF VerifyRight, Spent, TypeOK
<1>3. ASSUME NEW r \in Requests, NEW p \in Clients, NEW d \in Codes, issue_otp(r, p, d) PROVE Spent(c)'
    BY <1>0, <1>3 DEF issue_otp, Spent, TypeOK
<1>4. ASSUME NEW r \in Requests, CommitIssue(r) PROVE Spent(c)'
    BY <1>4 DEF CommitIssue, Spent, kvVars
<1>5. CASE Crash
    BY <1>5 DEF Crash, Spent
<1>6. ASSUME NEW p \in Clients, ResendEnds(p) PROVE UNCHANGED <<code, told>>
    BY <1>6 DEF ResendEnds
<1>7. ASSUME NEW r \in Requests,
             \/ StaffBegins(r)
             \/ \E t \in Tokens : refresh(r, t) \/ LogoutOne(r, t)
             \/ \E p \in Clients : LogoutAll(r, p)
      PROVE UNCHANGED <<code, told>>
    BY <1>7 DEF StaffBegins, refresh, LogoutOne, LogoutAll, login, create_user, update_user,
        reset_password, BlockOrUnblock, kvVars
<1>8. ASSUME NEW r \in Requests, Ends(r), ~CommitIssue(r) PROVE UNCHANGED <<code, told>>
    BY <1>8 DEF Ends, CommitSignIn, CommitLogin, rotate_refresh_token, CommitLogout, CommitCreate,
        CommitUpdate, CommitReset, block_client, unblock_client, Refused, kvVars
<1> QED BY <1>1, <1>2, <1>3, <1>4, <1>5, <1>6, <1>7, <1>8
    DEF Next, StoreStep, ClientBegins, vars, kvVars, Spent

(* One code, one session.                                                  *)
OneSession ==
    \A t, u \in Tokens :
        /\ token[t] # NULL /\ token[u] # NULL
        /\ token[t].via # NULL /\ token[t].via = token[u].via
        => token[t].chain = token[u].chain

(* Codes are only concerned by tokens that are minted and sign-ins that    *)
(* begin.                                                                  *)
LEMMA QuietForCodes ==
    ASSUME IInv, [Next]_vars, token' = token,
           \A x \in Requests : request'[x] = request[x] \/ ~Pends(x, "sign_in")'
    PROVE  (CodeInv /\ OneSession)'
<1>0. TypeOK /\ CodeInv /\ OneSession
    BY DEF IInv, CodeHoldsOut, OneSession
<1>1. \A t \in Tokens : token[t] # NULL /\ token[t].via # NULL => token[t].via \in Codes
    BY <1>0 DEF TypeOK, Session
<1>2. \A r \in Requests : Pends(r, "sign_in") => request[r].ref \in Codes
    BY <1>0 DEF TypeOK, Request, Pends, OVERTAKEN
<1>3. (\A t \in Tokens : token[t] # NULL /\ token[t].via # NULL => Spent(token[t].via))'
    BY <1>0, <1>1, SpentForGood DEF CodeInv
<1>4. ASSUME NEW r \in Requests PROVE Exchanging(r)'
    BY <1>0, <1>2, SpentForGood DEF CodeInv, Exchanging, Pends
<1>5. OneSession'
    BY <1>0 DEF OneSession
<1> QED BY <1>3, <1>4, <1>5 DEF CodeInv

LEMMA MintKeepsCodes ==
    ASSUME IInv, [Next]_vars, NEW t \in Tokens, NEW row, NEW gone, Minted(t, row, gone),
           \A x \in Requests : ~Pends(x, "sign_in")',
           \/ \E old \in Tokens : token[old] # NULL /\ row = token[old]
           \/ row.via = NULL
           \/ \E r \in Requests : Pends(r, "sign_in") /\ row.via = request[r].ref
    PROVE  (CodeInv /\ OneSession)'
<1>0. TypeOK /\ CodeInv /\ OneSession
    BY DEF IInv, CodeHoldsOut, OneSession
<1>1. /\ token[t] = NULL
      /\ token'[t] = row
      /\ \A u \in Tokens \ {t} : token'[u] = token[u]
    BY <1>0 DEF Minted, Mint, Session, TypeOK
<1>2. row.via # NULL => row.via \in Codes /\ Spent(row.via)
    BY <1>0 DEF Minted, Session, CodeInv, Exchanging
<1>3. \A u \in Tokens : token[u] # NULL /\ token[u].via # NULL => token[u].via \in Codes
    BY <1>0 DEF TypeOK, Session
<1>4. (\A u \in Tokens : token[u] # NULL /\ token[u].via # NULL => Spent(token[u].via))'
    BY <1>0, <1>1, <1>2, <1>3, SpentForGood DEF CodeInv
<1>5. \A u \in Tokens : token[u] # NULL /\ token[u].via # NULL /\ token[u].via = row.via
          => token[u].chain = row.chain
    BY <1>0 DEF OneSession, CodeInv, Exchanging
<1>6. OneSession'
    BY <1>0, <1>1, <1>5 DEF OneSession
<1> QED BY <1>4, <1>6 DEF CodeInv, Exchanging

LEMMA StepCodes == IInv /\ [Next]_vars => (CodeInv /\ OneSession)'
<1> SUFFICES ASSUME IInv, [Next]_vars PROVE (CodeInv /\ OneSession)'
    OBVIOUS
<1>0. TypeOK /\ CodeInv /\ OneSession
    BY DEF IInv, CodeHoldsOut, OneSession
<1>1. ASSUME NEW r \in Requests, NEW t \in Tokens, rotate_refresh_token(r, t)
      PROVE (CodeInv /\ OneSession)'
    <2>1. \A x \in Requests : ~Pends(x, "sign_in")'
        BY <1>0, <1>1, CommitFinds, NothingPends DEF rotate_refresh_token
    <2>2. /\ request[r].ref \in Tokens /\ Live(request[r].ref)
          /\ Minted(t, token[request[r].ref], {request[r].ref})
        BY <1>1, RotationMints
    <2> QED BY <2>1, <2>2, MintKeepsCodes DEF Live
<1>2. ASSUME NEW r \in Requests, NEW t \in Tokens, CommitSignIn(r, t)
      PROVE (CodeInv /\ OneSession)'
    <2> DEFINE row == [subject |-> request[r].who, chain |-> t, via |-> request[r].ref, under |-> 0]
    <2>1. \A x \in Requests : ~Pends(x, "sign_in")'
        BY <1>0, <1>2, CommitFinds, NothingPends DEF CommitSignIn
    <2>2. Minted(t, row, {}) /\ row.via = request[r].ref /\ Pends(r, "sign_in")
        BY <1>2, SignInMints
    <2> HIDE DEF row
    <2> QED BY <2>1, <2>2, MintKeepsCodes
<1>3. ASSUME NEW r \in Requests, NEW t \in Tokens, CommitLogin(r, t)
      PROVE (CodeInv /\ OneSession)'
    <2> DEFINE row == [subject |-> request[r].who, chain |-> t, via |-> NULL, under |-> request[r].ref]
    <2>1. \A x \in Requests : ~Pends(x, "sign_in")'
        BY <1>0, <1>3, CommitFinds, NothingPends DEF CommitLogin
    <2>2. Minted(t, row, {}) /\ row.via = NULL
        BY <1>3, LoginMints
    <2> HIDE DEF row
    <2> QED BY <2>1, <2>2, MintKeepsCodes
<1>4. ASSUME NEW r \in Requests, NEW c \in Codes, VerifyRight(r, c)
      PROVE (CodeInv /\ OneSession)'
    <2>1. CASE UNCHANGED request
        BY <1>4, <2>1, QuietForCodes DEF VerifyRight, tokenVars
    <2>2. CASE Begin(r, "sign_in", code[c].phone, c)
        <3>1. /\ request'[r] = [op |-> "sign_in", who |-> code[c].phone, ref |-> c]
              /\ \A x \in Requests \ {r} : request'[x] = request[x]
            BY <1>0, <2>2, BeginsOne
        <3>2. ~Spent(c) /\ Spent(c)' /\ token' = token
            BY <1>0, <1>4 DEF VerifyRight, Spent, TypeOK, tokenVars
        <3>3. \A t \in Tokens : token[t] # NULL => token[t].via # c
            BY <1>0, <3>2, SignInAssumption DEF CodeInv
        <3>4. \A x \in Requests : Pends(x, "sign_in") => request[x].ref # c
            BY <1>0, <3>2 DEF CodeInv, Exchanging
        <3>5. Exchanging(r)'
            BY <3>1, <3>2, <3>3, <3>4 DEF Exchanging, Pends
        <3>6. \A x \in Requests : Pends(x, "sign_in") => request[x].ref \in Codes
            BY <1>0 DEF TypeOK, Request, Pends, OVERTAKEN
        <3>7. ASSUME NEW x \in Requests \ {r} PROVE Exchanging(x)'
            BY <1>0, <3>1, <3>2, <3>4, <3>6, SpentForGood DEF CodeInv, Exchanging, Pends
        <3>8. \A t \in Tokens : token[t] # NULL /\ token[t].via # NULL => token[t].via \in Codes
            BY <1>0 DEF TypeOK, Session
        <3>9. (\A t \in Tokens : token[t] # NULL /\ token[t].via # NULL => Spent(token[t].via))'
            BY <1>0, <3>2, <3>8, SpentForGood DEF CodeInv
        <3> QED BY <1>0, <3>2, <3>5, <3>7, <3>9 DEF CodeInv, OneSession
    <2> QED BY <1>4, <2>1, <2>2 DEF VerifyRight
<1>5. ASSUME NEW r \in Requests, Ends(r),
             \A t \in Tokens : ~(CommitSignIn(r, t) \/ CommitLogin(r, t) \/ rotate_refresh_token(r, t))
      PROVE (CodeInv /\ OneSession)'
    <2>1. token' = token
        BY <1>5 DEF Ends, CommitIssue, CommitLogout, CommitCreate, CommitUpdate, CommitReset,
            block_client, unblock_client, Refused, tokenVars
    <2>2. CASE Refused(r)
        <3>1. \A x \in Requests : request'[x] = request[x] \/ ~Pends(x, "sign_in")'
            BY <1>0, <2>2 DEF Refused, TypeOK, Pends
        <3> QED BY <2>1, <3>1, QuietForCodes
    <2>3. CASE ~Refused(r)
        <3>1. request' = Overtaken(r)
            BY <1>5, <2>3 DEF Ends, CommitIssue, CommitLogout, CommitCreate, CommitUpdate, CommitReset,
                block_client, unblock_client, Commit
        <3>2. \A x \in Requests : ~Pends(x, "sign_in")'
            BY <3>1, NothingPends
        <3> QED BY <2>1, <3>2, QuietForCodes
    <2> QED BY <2>2, <2>3
<1>6. ASSUME NEW r \in Requests, NEW op, NEW who, NEW ref, Begin(r, op, who, ref), op # "sign_in",
             token' = token
      PROVE (CodeInv /\ OneSession)'
    <2>1. \A x \in Requests : request'[x] = request[x] \/ ~Pends(x, "sign_in")'
        <3>1. /\ request'[r] = [op |-> op, who |-> who, ref |-> ref]
              /\ \A x \in Requests \ {r} : request'[x] = request[x]
            BY <1>0, <1>6, BeginsOne
        <3>2. ~Pends(r, "sign_in")'
            BY <1>6, <3>1 DEF Pends
        <3> QED BY <3>1, <3>2
    <2> QED BY <1>6, <2>1, QuietForCodes
<1>7. ASSUME NEW r \in Requests, NEW p \in Clients, NEW c \in Codes, issue_otp(r, p, c)
      PROVE (CodeInv /\ OneSession)'
    BY <1>6, <1>7 DEF issue_otp, tokenVars
<1>8. ASSUME NEW r \in Requests,
             \/ StaffBegins(r)
             \/ \E t \in Tokens : refresh(r, t) \/ LogoutOne(r, t)
             \/ \E p \in Clients : LogoutAll(r, p)
      PROVE (CodeInv /\ OneSession)'
    <2>1. token' = token
        BY <1>8 DEF StaffBegins, refresh, LogoutOne, LogoutAll, login, create_user, update_user,
            reset_password, BlockOrUnblock, tokenVars
    <2>2. PICK op \in {"refresh", "logout", "login", "create", "update", "reset", "block", "unblock"} :
              \E who, ref : Begin(r, op, who, ref)
        BY <1>8 DEF StaffBegins, refresh, LogoutOne, LogoutAll, login, create_user, update_user,
            reset_password, BlockOrUnblock
    <2> QED BY <1>6, <2>1, <2>2
<1>9. CASE StoreStep \/ Crash \/ UNCHANGED vars
    <2>1. token' = token
        BY <1>9 DEF StoreStep, Crash, ResendEnds, CodeExpires, VerifyExhausted, VerifyWrong, vars, tokenVars
    <2>2. \A x \in Requests : request'[x] = request[x] \/ ~Pends(x, "sign_in")'
        BY <1>9 DEF StoreStep, Crash, ResendEnds, CodeExpires, VerifyExhausted, VerifyWrong, vars, Pends
    <2> QED BY <2>1, <2>2, QuietForCodes
<1> QED BY <1>1, <1>2, <1>3, <1>4, <1>5, <1>7, <1>8, <1>9 DEF Next, ClientBegins
-----------------------------------------------------------------------------
(* Owners, and what requests have read.                                    *)

LEMMA StepOwners == IInv /\ [Next]_vars => OwnerRemains'
<1> SUFFICES ASSUME IInv, [Next]_vars PROVE OwnerRemains'
    OBVIOUS
<1> USE SignInAssumption DEF Accounts
<1>0. TypeOK /\ OwnerRemains
    BY DEF IInv
<1>1. PICK owner \in owners : owner \in Admins /\ Active(owner)
    BY <1>0 DEF OwnerRemains, TypeOK
<1>2. ASSUME NEW r \in Requests, CommitUpdate(r) PROVE OwnerRemains'
    <2>1. /\ request[r].who \in Admins
          /\ request[r].ref \in Change
          /\ request[r].ref \in {"deactivate", "demote"} =>
                \E actor \in owners : actor # request[r].who /\ Active(actor)
        BY <1>0, <1>2, CommitFinds DEF CommitUpdate, Pends, Request, IInv, Seen, SeenAccounts
    <2>2. \A a \in Accounts \ {request[r].who} : standing'[a] = standing[a]
        BY <1>0, <1>2 DEF CommitUpdate, TypeOK
    <2>3. owners \ {request[r].who} \subseteq owners'
        BY <1>2 DEF CommitUpdate
    <2>4. CASE request[r].ref \in {"deactivate", "demote"}
        BY <1>0, <2>1, <2>2, <2>3, <2>4 DEF OwnerRemains, Active, TypeOK
    <2>5. CASE request[r].ref = "activate"
        BY <1>0, <1>1, <1>2, <2>1, <2>2, <2>5 DEF CommitUpdate, OwnerRemains, Active, TypeOK
    <2>6. CASE request[r].ref = "promote"
        BY <1>0, <1>1, <1>2, <2>1, <2>2, <2>6 DEF CommitUpdate, OwnerRemains, Active, TypeOK
    <2> QED BY <2>1, <2>4, <2>5, <2>6 DEF Change
<1>3. ASSUME NEW r \in Requests, CommitCreate(r) PROVE OwnerRemains'
    <2>1. request[r].who \in Admins
        BY <1>0, <1>3, CommitFinds DEF CommitCreate, Pends, Request
    <2>2. owner \in owners' /\ standing'[owner] = "active"
        BY <1>0, <1>1, <1>3, <2>1 DEF CommitCreate, Active, TypeOK
    <2> QED BY <2>2 DEF OwnerRemains, Active
<1>4. ASSUME NEW r \in Requests, block_client(r) \/ unblock_client(r) PROVE OwnerRemains'
    <2>1. request[r].who \in Clients
        BY <1>0, <1>4, CommitFinds DEF block_client, unblock_client, Pends, Request
    <2>2. owner \in owners' /\ standing'[owner] = "active"
        BY <1>0, <1>1, <1>4, <2>1 DEF block_client, unblock_client, Active, TypeOK
    <2> QED BY <2>2 DEF OwnerRemains, Active
<1>5. ASSUME NEW r \in Requests, NEW t \in Tokens, CommitSignIn(r, t) PROVE OwnerRemains'
    <2>1. owner \in owners' /\ standing'[owner] = "active"
        BY <1>0, <1>1, <1>5 DEF CommitSignIn, get_or_create_client, Active, TypeOK
    <2> QED BY <2>1 DEF OwnerRemains, Active
<1>6. CASE UNCHANGED <<standing, owners>>
    BY <1>0, <1>6 DEF OwnerRemains, Active
<1>7. ASSUME NEW r \in Requests, Ends(r), ~CommitUpdate(r), ~CommitCreate(r), ~block_client(r),
             ~unblock_client(r), \A t \in Tokens : ~CommitSignIn(r, t)
      PROVE UNCHANGED <<standing, owners>>
    BY <1>7 DEF Ends, CommitIssue, CommitLogin, rotate_refresh_token, CommitLogout, CommitReset, Refused,
        staffVars
<1>8. ASSUME NEW r \in Requests, ClientBegins(r) \/ StaffBegins(r) PROVE UNCHANGED <<standing, owners>>
    BY <1>8 DEF ClientBegins, StaffBegins, issue_otp, VerifyRight, refresh, LogoutOne, LogoutAll,
        login, create_user, update_user, reset_password, BlockOrUnblock, staffVars
<1>9. CASE StoreStep \/ Crash \/ UNCHANGED vars
    BY <1>6, <1>9 DEF StoreStep, Crash, ResendEnds, CodeExpires, VerifyExhausted, VerifyWrong,
        staffVars, vars
<1> QED BY <1>2, <1>3, <1>4, <1>5, <1>6, <1>7, <1>8, <1>9 DEF Next

(* A request that begins has seen what is there.                           *)
LEMMA BeginSees ==
    ASSUME IInv, [Next]_vars, NEW r \in Requests, ClientBegins(r) \/ StaffBegins(r)
    PROVE  \A x \in Requests : Seen(x)'
<1> USE SignInAssumption DEF Accounts, staffVars, tokenVars
<1>0. TypeOK /\ \A x \in Requests : Seen(x)
    BY DEF IInv
<1>1. UNCHANGED <<staffVars, tokenVars>>
    BY DEF ClientBegins, StaffBegins, issue_otp, VerifyRight, refresh, LogoutOne, LogoutAll,
        login, create_user, update_user, reset_password, BlockOrUnblock
<1>2. ASSUME NEW op, NEW who, NEW ref, Begin(r, op, who, ref), Seen(r)'
      PROVE  \A x \in Requests : Seen(x)'
    <2>1. \A x \in Requests \ {r} : request'[x] = request[x]
        BY <1>0, <1>2, BeginsOne
    <2> QED BY <1>0, <1>1, <1>2, <2>1, SeenKept
<1>3. ASSUME NEW op, NEW who, NEW ref, Begin(r, op, who, ref),
             op \notin {"refresh", "logout", "sign_in", "login", "reset", "update"}
      PROVE  Seen(r)'
    <2>1. request'[r] = [op |-> op, who |-> who, ref |-> ref]
        BY <1>0, <1>3, BeginsOne
    <2> QED BY <1>3, <2>1 DEF Seen, SeenTokens, SeenAccounts, Pends
<1>4. ASSUME NEW p \in Clients, NEW c \in Codes, issue_otp(r, p, c)
      PROVE  \A x \in Requests : Seen(x)'
    BY <1>2, <1>3, <1>4 DEF issue_otp
<1>5. ASSUME NEW c \in Codes, VerifyRight(r, c)
      PROVE  \A x \in Requests : Seen(x)'
    <2>1. CASE UNCHANGED request
        BY <1>0, <1>1, <2>1, SeenKept
    <2>2. CASE Begin(r, "sign_in", code[c].phone, c) /\ standing[code[c].phone] # "blocked"
        <3>1. request'[r] = [op |-> "sign_in", who |-> code[c].phone, ref |-> c]
            BY <1>0, <2>2, BeginsOne
        <3>2. Seen(r)'
            BY <1>1, <2>2, <3>1 DEF Seen, SeenTokens, SeenAccounts, Pends
        <3> QED BY <1>2, <2>2, <3>2
    <2> QED BY <1>5, <2>1, <2>2 DEF VerifyRight
<1>6. ASSUME NEW t \in Tokens, refresh(r, t)
      PROVE  \A x \in Requests : Seen(x)'
    <2>1. request'[r] = [op |-> "refresh", who |-> token[t].subject, ref |-> t]
        BY <1>0, <1>6, BeginsOne DEF refresh
    <2>2. Seen(r)'
        BY <1>1, <1>6, <2>1 DEF refresh, Usable, Active, Live, Seen, SeenTokens, SeenAccounts, Pends
    <2> QED BY <1>2, <1>6, <2>2 DEF refresh
<1>7. ASSUME NEW t \in Tokens, LogoutOne(r, t)
      PROVE  \A x \in Requests : Seen(x)'
    <2>1. request'[r] = [op |-> "logout", who |-> token[t].subject, ref |-> t]
        BY <1>0, <1>7, BeginsOne DEF LogoutOne
    <2>2. Seen(r)'
        BY <1>1, <1>7, <2>1 DEF LogoutOne, Live, Seen, SeenTokens, SeenAccounts, Pends
    <2> QED BY <1>2, <1>7, <2>2 DEF LogoutOne
<1>8. ASSUME NEW p \in Clients, LogoutAll(r, p)
      PROVE  \A x \in Requests : Seen(x)'
    <2>1. request'[r] = [op |-> "logout", who |-> p, ref |-> NULL]
        BY <1>0, <1>8, BeginsOne DEF LogoutAll
    <2>2. Seen(r)'
        BY <2>1 DEF Seen, SeenTokens, SeenAccounts, Pends
    <2> QED BY <1>2, <1>8, <2>2 DEF LogoutAll
<1>9. ASSUME NEW a \in Admins, login(r, a)
      PROVE  \A x \in Requests : Seen(x)'
    <2>1. request'[r] = [op |-> "login", who |-> a, ref |-> password[a]]
        BY <1>0, <1>9, BeginsOne DEF login
    <2>2. Seen(r)'
        BY <1>1, <1>9, <2>1 DEF login, Active, Seen, SeenTokens, SeenAccounts, Pends
    <2> QED BY <1>2, <1>9, <2>2 DEF login
<1>10. ASSUME NEW actor \in Admins, NEW a \in Admins, NEW owner \in BOOLEAN,
              create_user(r, actor, a, owner)
       PROVE  \A x \in Requests : Seen(x)'
    BY <1>2, <1>3, <1>10 DEF create_user
<1>11. ASSUME NEW actor \in Admins, NEW a \in Admins, NEW change \in Change,
              update_user(r, actor, a, change)
       PROVE  \A x \in Requests : Seen(x)'
    <2>1. request'[r] = [op |-> "update", who |-> a, ref |-> change]
        BY <1>0, <1>11, BeginsOne DEF update_user
    <2>2. change \in {"deactivate", "demote"} => actor \in owners /\ actor # a /\ Active(actor)
        BY <1>11 DEF update_user, MayWriteUsers, LockingSelfOut
    <2>3. Seen(r)'
        BY <1>1, <2>1, <2>2 DEF Active, Seen, SeenTokens, SeenAccounts, Pends
    <2> QED BY <1>2, <1>11, <2>3 DEF update_user
<1>12. ASSUME NEW actor \in Admins, NEW a \in Admins, reset_password(r, actor, a)
       PROVE  \A x \in Requests : Seen(x)'
    <2>1. request'[r] = [op |-> "reset", who |-> a, ref |-> NULL]
        BY <1>0, <1>12, BeginsOne DEF reset_password
    <2>2. Seen(r)'
        BY <1>1, <1>12, <2>1 DEF reset_password, Seen, SeenTokens, SeenAccounts, Pends
    <2> QED BY <1>2, <1>12, <2>2 DEF reset_password
<1>13. ASSUME NEW p \in Clients, NEW op \in {"block", "unblock"}, BlockOrUnblock(r, p, op)
       PROVE  \A x \in Requests : Seen(x)'
    BY <1>2, <1>3, <1>13 DEF BlockOrUnblock
<1> QED BY <1>4, <1>5, <1>6, <1>7, <1>8, <1>9, <1>10, <1>11, <1>12, <1>13 DEF ClientBegins, StaffBegins

LEMMA StepSeen == IInv /\ [Next]_vars => \A r \in Requests : Seen(r)'
<1> SUFFICES ASSUME IInv, [Next]_vars PROVE \A r \in Requests : Seen(r)'
    OBVIOUS
<1> USE DEF staffVars, tokenVars
<1>0. TypeOK /\ \A r \in Requests : Seen(r)
    BY DEF IInv
<1>1. ASSUME NEW r \in Requests, ClientBegins(r) \/ StaffBegins(r)
      PROVE  \A x \in Requests : Seen(x)'
    BY <1>1, BeginSees
<1>2. ASSUME NEW r \in Requests, Refused(r)
      PROVE  \A x \in Requests : Seen(x)'
    <2>1. ASSUME NEW x \in Requests, request'[x] # request[x] PROVE Seen(x)'
        BY <1>0, <1>2, <2>1 DEF Refused, TypeOK, Seen, SeenTokens, SeenAccounts, Pends
    <2> QED BY <1>0, <1>2, <2>1, SeenKept DEF Refused
<1>3. ASSUME NEW r \in Requests, Ends(r), ~Refused(r)
      PROVE  \A x \in Requests : Seen(x)'
    <2>1. request' = Overtaken(r)
        BY <1>3 DEF Ends, CommitIssue, CommitSignIn, CommitLogin, rotate_refresh_token, CommitLogout,
            CommitCreate, CommitUpdate, CommitReset, block_client, unblock_client, Commit
    <2>2. \A op \in {"refresh", "logout", "sign_in", "login", "reset", "update"} :
              \A x \in Requests : ~Pends(x, op)'
        BY <2>1, NothingPends
    <2> QED BY <2>2 DEF Seen, SeenTokens, SeenAccounts
<1>4. CASE Crash
    BY <1>4 DEF Crash, Seen, SeenTokens, SeenAccounts, Pends
<1>5. CASE StoreStep \/ UNCHANGED vars
    <2>1. UNCHANGED <<staffVars, tokenVars, request>>
        BY <1>5 DEF StoreStep, ResendEnds, CodeExpires, VerifyExhausted, VerifyWrong, vars
    <2> QED BY <1>0, <2>1, SeenKept
<1> QED BY <1>1, <1>2, <1>3, <1>4, <1>5 DEF Next
-----------------------------------------------------------------------------
LEMMA InitInv == Init => IInv
<1> SUFFICES ASSUME Init PROVE IInv
    OBVIOUS
<1> USE SignInAssumption
<1>1. TypeOK
    BY DEF Init, TypeOK, Accounts
<1>2. GuessInv /\ CodeInv /\ ChainInv /\ CodeHoldsOut /\ OneLinkLives /\ EndedStaysEnded
    BY DEF Init, GuessInv, CodeInv, Exchanging, Pends, ChainInv, CodeHoldsOut, OneLinkLives,
        EndedStaysEnded, Live
<1>3. OwnerRemains
    BY DEF Init, OwnerRemains, Active, Accounts
<1>4. \A r \in Requests : Seen(r)
    BY DEF Init, Seen, SeenTokens, SeenAccounts, Pends
<1> QED BY <1>1, <1>2, <1>3, <1>4 DEF IInv

LEMMA StepInv == IInv /\ [Next]_vars => IInv'
<1>1. ASSUME GuessInv, OneSession PROVE CodeHoldsOut
    BY <1>1 DEF GuessInv, OneSession, CodeHoldsOut
<1>2. IInv /\ [Next]_vars => CodeHoldsOut'
    BY <1>1, StepGuesses, StepCodes, PTL
<1> QED BY <1>2, StepTypes, StepGuesses, StepCodes, StepSessions, StepOwners, StepSeen DEF IInv

LEMMA AlwaysInv == Spec => []IInv
BY InitInv, StepInv, PTL DEF Spec

(* Types, for any accounts, codes and tokens.  That a password is not      *)
(* reset more often than it may be, and that an attempt stays below the    *)
(* limit, are part of it.                                                  *)
THEOREM TypeCorrect == Spec => []TypeOK
<1>1. IInv => TypeOK
    BY DEF IInv
<1> QED BY <1>1, AlwaysInv, PTL

(* A code is compared fewer times than otp_max_attempts and opens one      *)
(* session.                                                                *)
THEOREM CodesHoldOut == Spec => []CodeHoldsOut
<1>1. IInv => CodeHoldsOut
    BY DEF IInv
<1> QED BY <1>1, AlwaysInv, PTL

(* Of a session at most one refresh token works.                           *)
THEOREM OneLink == Spec => []OneLinkLives
<1>1. IInv => OneLinkLives
    BY DEF IInv
<1> QED BY <1>1, AlwaysInv, PTL

(* No token of an ended session works, and none from before a reset.       *)
THEOREM EndedForGood == Spec => []EndedStaysEnded
<1>1. IInv => EndedStaysEnded
    BY DEF IInv
<1> QED BY <1>1, AlwaysInv, PTL

(* Somebody who may write users is always there and active.                *)
THEOREM AnOwnerRemains == Spec => []OwnerRemains
<1>1. IInv => OwnerRemains
    BY DEF IInv
<1> QED BY <1>1, AlwaysInv, PTL

(* No step mints a token for an account that is blocked.                   *)
THEOREM BlockedGetNone == Spec => NoTokenForBlocked
<1>1. ASSUME IInv, [Next]_vars, NEW t \in Tokens, token[t] = NULL, token'[t] # NULL
      PROVE  standing[token'[t].subject] # "blocked"
    <2>0. TypeOK
        BY <1>1 DEF IInv
    <2>1. PICK r \in Requests, u \in Tokens :
              CommitSignIn(r, u) \/ CommitLogin(r, u) \/ rotate_refresh_token(r, u)
        BY <1>1 DEF Next, StoreStep, Crash, ResendEnds, CodeExpires, VerifyExhausted, VerifyWrong,
            ClientBegins, StaffBegins, issue_otp, VerifyRight, refresh, LogoutOne, LogoutAll,
            login, create_user, update_user, reset_password, BlockOrUnblock, Ends, CommitIssue,
            CommitLogout, CommitCreate, CommitUpdate, CommitReset, block_client, unblock_client,
            Refused, tokenVars, vars
    <2>2. PICK row, gone : Minted(u, row, gone)
        BY <1>1, <2>1, SignInMints, LoginMints, RotationMints
    <2>3. token'[u] = row /\ \A x \in Tokens \ {u} : token'[x] = token[x]
        BY <2>0, <2>2 DEF Minted, Mint, Session, TypeOK
    <2> QED BY <1>1, <2>2, <2>3 DEF Minted
<1>2. IInv /\ [Next]_vars =>
          [\A t \in Tokens : token[t] = NULL /\ token'[t] # NULL => standing[token'[t].subject] # "blocked"]_vars
    BY <1>1
<1> QED BY <1>2, AlwaysInv, PTL DEF Spec, NoTokenForBlocked
=============================================================================
