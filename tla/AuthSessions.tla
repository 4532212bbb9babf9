---------------------------- MODULE AuthSessions ----------------------------
(***************************************************************************)
(* Accounts and sessions: the handlers of api/v1/routes_auth.py over the   *)
(* users and refresh_tokens tables, with the tokens of core/security.py    *)
(* and the check of api/v1/deps.py.                                        *)
(*                                                                         *)
(* Handlers run concurrently and are split at their database round trips.  *)
(* A token is its claims: two tokens minted for a user in the same unit of *)
(* time are the same string.  Requests that are refused without touching   *)
(* the database (a password that is too long or wrong, an unknown address, *)
(* a token of the wrong type) have no step.                                *)
(***************************************************************************)
EXTENDS Integers, Sequences, Functions

CONSTANTS
    Emails,       \* addresses
    NoEmail,      \* none of them
    Requests,     \* handlers that may be in flight
    AccessLife,   \* ACCESS_TOKEN_EXPIRE_MINUTES, in units of the clock
    RefreshLife,  \* REFRESH_TOKEN_EXPIRE_DAYS, in units of the clock
    MaxDelay,     \* bound: how long a handler may take
    MaxTime,      \* bound: the clock
    MaxSessions   \* bound: rows of refresh_tokens

ASSUME AuthAssumption ==
    /\ NoEmail \notin Emails
    /\ AccessLife \in Nat
    /\ RefreshLife \in Nat
    /\ MaxDelay \in Nat
    /\ MaxTime \in Nat
    /\ MaxSessions \in Nat

VARIABLES
    now,     \* the clock tokens are minted and checked by
    users,   \* addresses of the users table; a user's id is its position
    rows,    \* the refresh_tokens table
    tokens,  \* the tokens clients have been given, until they expire
    req,     \* the handlers
    ended    \* history: rows that existed when a completed logout began

vars == <<now, users, rows, tokens, req, ended>>

Token   == [type : {"access", "refresh"}, sub : Nat \ {0}, exp : Nat]
Row     == [user : Nat \ {0}, exp : Nat, revoked : BOOLEAN]
Handler == [pc    : {"idle", "insert", "issue", "mint", "load", "revoke"},
            email : Emails \cup {NoEmail},
            user  : Nat,          \* 0: none
            since : Nat,          \* when the request came in
            count : Nat,          \* history: rows there were when logout began
            seen  : SUBSET Nat]   \* the rows logout has loaded

TypeOK ==
    /\ now \in Nat
    /\ users \in Seq(Emails)
    /\ rows \in Seq(Row)
    /\ tokens \subseteq Token
    /\ req \in [Requests -> Handler]
    /\ ended \subseteq Nat

Idle == [pc |-> "idle", email |-> NoEmail, user |-> 0, since |-> 0, count |-> 0, seen |-> {}]

Init ==
    /\ now = 0
    /\ users = <<>>
    /\ rows = <<>>
    /\ tokens = {}
    /\ req = [r \in Requests |-> Idle]
    /\ ended = {}

----------------------------------------------------------------------------
\* Wrong: the type claim is not looked at.
DecodesAnyType(t, type) == t.exp >= now

\* _decode_token: not expired, and of the expected type.
Decodes(t, type) == t.exp >= now /\ t.type = type

AccessToken(u, at)  == [type |-> "access", sub |-> u, exp |-> at + AccessLife]
RefreshToken(u, at) == [type |-> "refresh", sub |-> u, exp |-> at + RefreshLife]

\* A request comes in and its handler reaches the await at h.pc.
Begins(r, h) ==
    /\ req[r].pc = "idle"
    /\ req' = [req EXCEPT ![r] = [h EXCEPT !.since = now]]

Returns(r) == req' = [req EXCEPT ![r] = Idle]

\* register finds the address free and hashes the password.
Register(r, e) ==
    /\ e \notin Range(users)
    /\ Begins(r, [Idle EXCEPT !.pc = "insert", !.email = e])
    /\ UNCHANGED <<now, users, rows, tokens, ended>>

\* Wrong: the column is not unique.
InsertAnyway(r) ==
    /\ req[r].pc = "insert"
    /\ users' = Append(users, req[r].email)
    /\ Returns(r)
    /\ UNCHANGED <<now, rows, tokens, ended>>

\* The INSERT commits; users.email is unique.
InsertUser(r) ==
    /\ req[r].pc = "insert"
    /\ req[r].email \notin Range(users)
    /\ users' = Append(users, req[r].email)
    /\ Returns(r)
    /\ UNCHANGED <<now, rows, tokens, ended>>

\* A commit raises (a unique violation, or the database is gone): 500, and
\* nothing is written.
CommitFails(r) ==
    /\ req[r].pc \in {"insert", "issue", "revoke"}
    /\ Returns(r)
    /\ UNCHANGED <<now, users, rows, tokens, ended>>

\* Wrong: the tokens are handed out before their row is committed.
LoginAnswersFirst(r, u) ==
    /\ u \in DOMAIN users
    /\ Len(rows) < MaxSessions
    /\ Begins(r, [Idle EXCEPT !.pc = "issue", !.user = u])
    /\ tokens' = tokens \cup {AccessToken(u, now), RefreshToken(u, now)}
    /\ UNCHANGED <<now, users, rows, ended>>

\* login finds the user, and the password is right; _issue_token_pair mints
\* both tokens.
Login(r, u) ==
    /\ u \in DOMAIN users
    /\ Len(rows) < MaxSessions
    /\ Begins(r, [Idle EXCEPT !.pc = "issue", !.user = u])
    /\ UNCHANGED <<now, users, rows, tokens, ended>>

\* The session's row is committed and the tokens are handed out.
IssueTokenPair(r) ==
    LET u == req[r].user  at == req[r].since IN
    /\ req[r].pc = "issue"
    /\ rows' = Append(rows, [user |-> u, exp |-> at + RefreshLife, revoked |-> FALSE])
    /\ tokens' = tokens \cup {AccessToken(u, at), RefreshToken(u, at)}
    /\ Returns(r)
    /\ UNCHANGED <<now, users, ended>>

\* refresh_access_token decodes the token and asks for its user.
Refresh(r, t) ==
    /\ Decodes(t, "refresh")
    /\ t.sub \in DOMAIN users
    /\ Begins(r, [Idle EXCEPT !.pc = "mint", !.user = t.sub])
    /\ UNCHANGED <<now, users, rows, tokens, ended>>

\* The user is there (rows of users are never deleted): a new access token.
MintAccess(r) ==
    /\ req[r].pc = "mint"
    /\ tokens' = tokens \cup {AccessToken(req[r].user, now)}
    /\ Returns(r)
    /\ UNCHANGED <<now, users, rows, ended>>

\* get_current_user accepts the access token; logout asks for the sessions.
Logout(r, t) ==
    /\ Decodes(t, "access")
    /\ t.sub \in DOMAIN users
    /\ Begins(r, [Idle EXCEPT !.pc = "load", !.user = t.sub, !.count = Len(rows)])
    /\ UNCHANGED <<now, users, rows, tokens, ended>>

\* Wrong: the sessions of every user are loaded.
LoadEverySession(r) ==
    /\ req[r].pc = "load"
    /\ req' = [req EXCEPT ![r].pc = "revoke",
                          ![r].seen = {i \in DOMAIN rows : ~rows[i].revoked}]
    /\ UNCHANGED <<now, users, rows, tokens, ended>>

\* The user's rows that are not revoked.
LoadSessions(r) ==
    /\ req[r].pc = "load"
    /\ req' = [req EXCEPT ![r].pc = "revoke",
                          ![r].seen = {i \in DOMAIN rows :
                                         rows[i].user = req[r].user /\ ~rows[i].revoked}]
    /\ UNCHANGED <<now, users, rows, tokens, ended>>

\* Wrong: only one of the sessions is revoked.
RevokeNewest(r) ==
    /\ req[r].pc = "revoke"
    /\ rows' = [i \in DOMAIN rows |->
                  [rows[i] EXCEPT !.revoked =
                     @ \/ (i \in req[r].seen /\ \A j \in req[r].seen : j <= i)]]
    /\ ended' = ended \cup {i \in 1 .. req[r].count : rows[i].user = req[r].user}
    /\ Returns(r)
    /\ UNCHANGED <<now, users, tokens>>

\* The rows loaded are marked and committed.
Revoke(r) ==
    /\ req[r].pc = "revoke"
    /\ rows' = [i \in DOMAIN rows |->
                  [rows[i] EXCEPT !.revoked = @ \/ i \in req[r].seen]]
    /\ ended' = ended \cup {i \in 1 .. req[r].count : rows[i].user = req[r].user}
    /\ Returns(r)
    /\ UNCHANGED <<now, users, tokens>>

Tick ==
    /\ now < MaxTime
    /\ \A r \in Requests : req[r].pc # "idle" => now - req[r].since < MaxDelay
    /\ now' = now + 1
    /\ tokens' = {t \in tokens : t.exp >= now'}
    /\ UNCHANGED <<users, rows, req, ended>>

AuthStep(r) ==
    \/ \E e \in Emails : Register(r, e)
    \/ InsertUser(r)
    \/ CommitFails(r)
    \/ \E u \in DOMAIN users : Login(r, u)
    \/ IssueTokenPair(r)
    \/ \E t \in tokens : Refresh(r, t)
    \/ MintAccess(r)
    \/ \E t \in tokens : Logout(r, t)
    \/ LoadSessions(r)
    \/ Revoke(r)

Next == Tick \/ \E r \in Requests : AuthStep(r)

Spec == Init /\ [][Next]_vars

----------------------------------------------------------------------------
(***************************************************************************)
(* However registrations race, an address has one account, so that login's *)
(* scalar_one_or_none (routes_auth.py:112) never meets two.                *)
(***************************************************************************)
OneAccountPerEmail ==
    \A i, j \in DOMAIN users : users[i] = users[j] => i = j

(***************************************************************************)
(* "outstanding sessions can be enumerated" (routes_auth.py:32-34): every  *)
(* refresh token a client holds has its row, whatever commit failed.       *)
(***************************************************************************)
SessionsAreListed ==
    \A t \in tokens :
        t.type = "refresh" => \E i \in DOMAIN rows : rows[i].user = t.sub /\ rows[i].exp = t.exp

(***************************************************************************)
(* Renewal cannot prolong a session beyond its row: no token of a user is  *)
(* good for longer than the last of the rows says, one access token's life *)
(* and the time of the request that minted it.  Since refresh does not     *)
(* look at revoked (routes_auth.py:134-180), this is what ends a session.  *)
(***************************************************************************)
RenewalsEnd ==
    \A t \in tokens : \E i \in DOMAIN rows :
        rows[i].user = t.sub /\ t.exp <= rows[i].exp + AccessLife + MaxDelay

(***************************************************************************)
(* "Revokes all of the current user's outstanding refresh tokens"          *)
(* (routes_auth.py:191): a completed logout has revoked every session      *)
(* there was when it began.                                                *)
(***************************************************************************)
LogoutRevokesAll == \A i \in ended : rows[i].revoked

(***************************************************************************)
(* A row changes only by being revoked, for good, by a logout of its user. *)
(***************************************************************************)
OnlyOwnerRevokes ==
    [][\A i \in DOMAIN rows :
          rows'[i] # rows[i] =>
              /\ rows'[i] = [rows[i] EXCEPT !.revoked = TRUE]
              /\ \E r \in Requests : req[r].pc = "revoke" /\ req[r].user = rows[i].user]_vars

(***************************************************************************)
(* "refresh tokens are persisted server-side so /auth/logout can revoke    *)
(* all of a user's sessions" (README.md:17): a refresh is admitted only    *)
(* while the user has a session that is not revoked.  The code does not    *)
(* keep to it.                                                             *)
(***************************************************************************)
LogoutEndsSessions ==
    [][\A r \in Requests :
          req[r].pc = "idle" /\ req'[r].pc = "mint" =>
              \E i \in DOMAIN rows : rows[i].user = req'[r].user /\ ~rows[i].revoked]_vars
=============================================================================
