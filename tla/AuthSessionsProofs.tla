------------------------- MODULE AuthSessionsProofs -------------------------
(***************************************************************************)
(* Proofs about AuthSessions for any number of addresses, requests and     *)
(* sessions and any lifetimes.                                             *)
(*                                                                         *)
(* Every step appends to the tables or revokes (Kept), so whatever a       *)
(* handler has learnt from them (HandlerOK) and whatever vouches for a     *)
(* token (Vouched) stays true while other handlers run.                    *)
(***************************************************************************)
EXTENDS AuthSessions, SequenceTheorems, TLAPS

\* The rows that logout has found, of those there were when it began.
LoadedOK(r) ==
    /\ req[r].seen \subseteq DOMAIN rows
    /\ \A i \in req[r].seen : rows[i].user = req[r].user
    /\ \A i \in 1 .. req[r].count :
          rows[i].user = req[r].user => rows[i].revoked \/ i \in req[r].seen

\* What a handler in flight relies on.
HandlerOK(r) ==
    /\ req[r].pc = "insert" => req[r].email \in Emails
    /\ req[r].pc # "idle" => req[r].since <= now /\ now <= req[r].since + MaxDelay
    /\ req[r].pc \in {"issue", "mint", "load", "revoke"} => req[r].user \in DOMAIN users
    /\ req[r].pc = "mint" =>
          \E i \in DOMAIN rows : rows[i].user = req[r].user /\ rows[i].exp >= req[r].since
    /\ req[r].pc \in {"load", "revoke"} => req[r].count <= Len(rows)
    /\ req[r].pc = "revoke" => LoadedOK(r)

\* The rows that a token rests on.
Vouched(t) ==
    /\ t.type = "refresh" => \E i \in DOMAIN rows : rows[i].user = t.sub /\ rows[i].exp = t.exp
    /\ \E i \in DOMAIN rows : rows[i].user = t.sub /\ t.exp <= rows[i].exp + AccessLife + MaxDelay

EndedRevoked == \A i \in ended : i \in DOMAIN rows /\ rows[i].revoked

AuthInv ==
    /\ TypeOK
    /\ OneAccountPerEmail
    /\ \A r \in Requests : HandlerOK(r)
    /\ \A t \in tokens : Vouched(t)
    /\ EndedRevoked

\* The tables grow, and their rows change by being revoked only.
Kept ==
    /\ Len(users) <= Len(users')
    /\ Len(rows) <= Len(rows')
    /\ \A i \in DOMAIN rows :
          /\ rows'[i].user = rows[i].user
          /\ rows'[i].exp = rows[i].exp
          /\ rows[i].revoked => rows'[i].revoked

----------------------------------------------------------------------------
LEMMA IdleIsHandler == Idle \in Handler /\ Idle.pc = "idle"
BY DEF Idle, Handler

LEMMA Tables ==
    ASSUME TypeOK
    PROVE  /\ DOMAIN users = 1 .. Len(users) /\ Len(users) \in Nat
           /\ DOMAIN rows = 1 .. Len(rows) /\ Len(rows) \in Nat
           /\ \A i \in DOMAIN rows : rows[i] \in Row
           /\ \A i \in DOMAIN users : users[i] \in Emails /\ i \in Nat \ {0}
BY DEF TypeOK

\* What the tables say stays said.
LEMMA HandlerStaysOK ==
    ASSUME TypeOK, TypeOK', Kept, NEW r \in Requests, HandlerOK(r),
           req'[r] = req[r], now' = now
    PROVE  HandlerOK(r)'
<1>1. /\ DOMAIN users = 1 .. Len(users) /\ DOMAIN users' = 1 .. Len(users')
      /\ DOMAIN rows = 1 .. Len(rows) /\ DOMAIN rows' = 1 .. Len(rows')
      /\ Len(users) \in Nat /\ Len(users') \in Nat /\ Len(rows) \in Nat /\ Len(rows') \in Nat
  BY Tables DEF TypeOK
<1>2. req[r].count \in Nat /\ req[r].user \in Nat
  BY DEF TypeOK, Handler
<1>3. /\ req[r].pc \in {"issue", "mint", "load", "revoke"} => req[r].user \in DOMAIN users'
      /\ req[r].pc \in {"load", "revoke"} => req[r].count <= Len(rows')
  BY <1>1, <1>2 DEF HandlerOK, Kept
<1>4. req[r].pc = "mint" =>
          \E i \in DOMAIN rows' : rows'[i].user = req[r].user /\ rows'[i].exp >= req[r].since
  BY <1>1 DEF HandlerOK, Kept
<1>5. ASSUME req[r].pc = "revoke" PROVE LoadedOK(r)'
  <2>1. req[r].seen \subseteq DOMAIN rows' /\ 1 .. req[r].count \subseteq DOMAIN rows
    BY <1>1, <1>2, <1>5 DEF HandlerOK, LoadedOK, Kept
  <2> QED BY <1>5, <2>1 DEF HandlerOK, LoadedOK, Kept
<1> QED BY <1>3, <1>4, <1>5 DEF HandlerOK

LEMMA TokenStaysVouched ==
    ASSUME TypeOK, TypeOK', Kept, NEW t, Vouched(t)
    PROVE  Vouched(t)'
<1>1. DOMAIN rows \subseteq DOMAIN rows'
  BY Tables DEF TypeOK, Kept
<1> QED BY <1>1 DEF Vouched, Kept

(***************************************************************************)
(* A step of the handler of r: what is new in it is to be shown right.     *)
(***************************************************************************)
LEMMA HandlerStep ==
    ASSUME AuthInv, TypeOK', Kept, now' = now, NEW r \in Requests,
           NEW h, req' = [req EXCEPT ![r] = h], HandlerOK(r)',
           OneAccountPerEmail', EndedRevoked',
           \A t \in tokens' \ tokens : Vouched(t)'
    PROVE  AuthInv'
<1>1. \A q \in Requests : q # r => req'[q] = req[q]
  BY DEF AuthInv, TypeOK
<1>2. \A q \in Requests : HandlerOK(q)'
  BY <1>1, HandlerStaysOK DEF AuthInv
<1>3. \A t \in tokens' : Vouched(t)'
  BY TokenStaysVouched DEF AuthInv
<1> QED BY <1>2, <1>3 DEF AuthInv

\* A handler that returns relies on nothing.
LEMMA ReturnsOK ==
    ASSUME TypeOK, NEW r \in Requests, Returns(r)
    PROVE  HandlerOK(r)' /\ req' \in [Requests -> Handler]
BY IdleIsHandler DEF Returns, HandlerOK, TypeOK

\* A step that leaves the tables and tokens alone.
LEMMA QuietStep ==
    ASSUME AuthInv, UNCHANGED <<now, users, rows, tokens, ended>>, NEW r \in Requests,
           NEW h \in Handler, req' = [req EXCEPT ![r] = h], HandlerOK(r)'
    PROVE  AuthInv'
<1>1. TypeOK' /\ Kept
  BY DEF AuthInv, TypeOK, Kept
<1>2. OneAccountPerEmail' /\ EndedRevoked'
  BY DEF AuthInv, OneAccountPerEmail, EndedRevoked
<1> QED BY <1>1, <1>2, HandlerStep

----------------------------------------------------------------------------
LEMMA BeginInv ==
    ASSUME AuthInv, NEW r \in Requests,
           \/ \E e \in Emails : Register(r, e)
           \/ \E u \in DOMAIN users : Login(r, u)
           \/ \E t \in tokens : Refresh(r, t)
           \/ \E t \in tokens : Logout(r, t)
    PROVE  AuthInv'
<1>1. req \in [Requests -> Handler] /\ now \in Nat /\ MaxDelay \in Nat
  BY AuthAssumption DEF AuthInv, TypeOK
<1>2. CASE \E e \in Emails : Register(r, e)
  <2> PICK e \in Emails : Register(r, e)
    BY <1>2
  <2> DEFINE h == [Idle EXCEPT !.pc = "insert", !.email = e, !.since = now]
  <2>1. h \in Handler /\ h.pc = "insert" /\ h.email = e /\ h.since = now
    BY <1>1 DEF Idle, Handler
  <2>2. req' = [req EXCEPT ![r] = h] /\ UNCHANGED <<now, users, rows, tokens, ended>>
    BY DEF Register, Begins, Idle
  <2>3. req'[r] = h
    BY <1>1, <2>2
  <2> HIDE DEF h
  <2>4. HandlerOK(r)'
    BY <1>1, <2>1, <2>2, <2>3 DEF HandlerOK
  <2> QED BY <2>1, <2>2, <2>4, QuietStep
<1>3. CASE \E u \in DOMAIN users : Login(r, u)
  <2> PICK u \in DOMAIN users : Login(r, u)
    BY <1>3
  <2> DEFINE h == [Idle EXCEPT !.pc = "issue", !.user = u, !.since = now]
  <2>1. h \in Handler /\ h.pc = "issue" /\ h.user = u /\ h.since = now
    BY <1>1, Tables DEF Idle, Handler, AuthInv
  <2>2. req' = [req EXCEPT ![r] = h] /\ UNCHANGED <<now, users, rows, tokens, ended>>
    BY DEF Login, Begins, Idle
  <2>3. req'[r] = h
    BY <1>1, <2>2
  <2> HIDE DEF h
  <2>4. HandlerOK(r)'
    BY <1>1, <2>1, <2>2, <2>3 DEF HandlerOK
  <2> QED BY <2>1, <2>2, <2>4, QuietStep
<1>4. CASE \E t \in tokens : Refresh(r, t)
  <2> PICK t \in tokens : Refresh(r, t)
    BY <1>4
  <2> DEFINE h == [Idle EXCEPT !.pc = "mint", !.user = t.sub, !.since = now]
  <2>0. t.sub \in DOMAIN users /\ t.sub \in Nat
    BY Tables DEF Refresh, AuthInv
  <2>1. h \in Handler /\ h.pc = "mint" /\ h.user = t.sub /\ h.since = now
    BY <1>1, <2>0 DEF Idle, Handler
  <2>2. req' = [req EXCEPT ![r] = h] /\ UNCHANGED <<now, users, rows, tokens, ended>>
    BY DEF Refresh, Begins, Idle
  <2>3. req'[r] = h
    BY <1>1, <2>2
  <2> HIDE DEF h
  <2>4. \E i \in DOMAIN rows : rows[i].user = t.sub /\ rows[i].exp >= now
    BY DEF AuthInv, Vouched, Refresh, Decodes
  <2>5. HandlerOK(r)'
    BY <1>1, <2>0, <2>1, <2>2, <2>3, <2>4 DEF HandlerOK
  <2> QED BY <2>1, <2>2, <2>5, QuietStep
<1>5. CASE \E t \in tokens : Logout(r, t)
  <2> PICK t \in tokens : Logout(r, t)
    BY <1>5
  <2> DEFINE h == [Idle EXCEPT !.pc = "load", !.user = t.sub, !.count = Len(rows), !.since = now]
  <2>0. t.sub \in DOMAIN users /\ t.sub \in Nat /\ Len(rows) \in Nat
    BY Tables DEF Logout, AuthInv
  <2>1. /\ h \in Handler /\ h.pc = "load" /\ h.user = t.sub /\ h.since = now
        /\ h.count = Len(rows)
    BY <1>1, <2>0 DEF Idle, Handler
  <2>2. req' = [req EXCEPT ![r] = h] /\ UNCHANGED <<now, users, rows, tokens, ended>>
    BY DEF Logout, Begins, Idle
  <2>3. req'[r] = h
    BY <1>1, <2>2
  <2> HIDE DEF h
  <2>4. HandlerOK(r)'
    BY <1>1, <2>0, <2>1, <2>2, <2>3 DEF HandlerOK
  <2> QED BY <2>1, <2>2, <2>4, QuietStep
<1> QED BY <1>2, <1>3, <1>4, <1>5

LEMMA InsertUserInv ==
    ASSUME AuthInv, NEW r \in Requests, InsertUser(r)
    PROVE  AuthInv'
<1> PICK e \in Emails : e = req[r].email
  BY DEF InsertUser, AuthInv, HandlerOK
<1> PICK n \in Nat : n = Len(users)
  BY Tables DEF AuthInv
<1>1. /\ users \in Seq(Emails) /\ users' = Append(users, e)
      /\ e \notin Range(users) /\ Returns(r)
      /\ UNCHANGED <<now, rows, tokens, ended>>
  BY DEF InsertUser, AuthInv, TypeOK
<1>2. /\ users' \in Seq(Emails) /\ DOMAIN users' = 1 .. n + 1 /\ Len(users') = n + 1
      /\ DOMAIN users = 1 .. n /\ users'[n + 1] = e
      /\ \A i \in 1 .. n : users'[i] = users[i] /\ users[i] # e
  BY <1>1 DEF Range
<1>3. HandlerOK(r)' /\ req' \in [Requests -> Handler]
  BY <1>1, ReturnsOK DEF AuthInv
<1>4. TypeOK' /\ Kept
  BY <1>1, <1>2, <1>3 DEF AuthInv, TypeOK, Kept
<1>5. OneAccountPerEmail'
  BY <1>2 DEF AuthInv, OneAccountPerEmail
<1>6. EndedRevoked'
  BY <1>1 DEF AuthInv, EndedRevoked
<1> QED BY <1>1, <1>3, <1>4, <1>5, <1>6, HandlerStep DEF Returns

LEMMA IssueTokenPairInv ==
    ASSUME AuthInv, NEW r \in Requests, IssueTokenPair(r)
    PROVE  AuthInv'
<1> PICK u : u = req[r].user
  OBVIOUS
<1> PICK at : at = req[r].since
  OBVIOUS
<1> PICK n \in Nat : n = Len(rows)
  BY Tables DEF AuthInv
<1> DEFINE new == [user |-> u, exp |-> at + RefreshLife, revoked |-> FALSE]
<1>1. /\ req[r] \in Handler /\ rows \in Seq(Row) /\ req[r].pc = "issue"
      /\ AccessLife \in Nat /\ RefreshLife \in Nat /\ MaxDelay \in Nat
  BY AuthAssumption DEF IssueTokenPair, AuthInv, TypeOK
<1>2. u \in Nat \ {0} /\ at \in Nat
  BY <1>1, Tables DEF AuthInv, HandlerOK, Handler
<1>3. /\ rows' = Append(rows, new) /\ Returns(r)
      /\ tokens' = tokens \cup {AccessToken(u, at), RefreshToken(u, at)}
      /\ UNCHANGED <<now, users, ended>>
  BY DEF IssueTokenPair
<1>4. new \in Row /\ new.user = u /\ new.exp = at + RefreshLife
  BY <1>1, <1>2 DEF Row
<1> HIDE DEF new
<1>5. /\ rows' \in Seq(Row) /\ Len(rows') = n + 1 /\ DOMAIN rows' = 1 .. n + 1
      /\ DOMAIN rows = 1 .. n /\ rows'[n + 1] = new
      /\ \A i \in 1 .. n : rows'[i] = rows[i]
  BY <1>1, <1>3, <1>4
<1>6. HandlerOK(r)' /\ req' \in [Requests -> Handler]
  BY <1>3, ReturnsOK DEF AuthInv
<1>7. tokens' \subseteq Token
  BY <1>1, <1>2, <1>3 DEF AuthInv, TypeOK, Token, AccessToken, RefreshToken
<1>8. TypeOK' /\ Kept
  BY <1>3, <1>5, <1>6, <1>7 DEF AuthInv, TypeOK, Kept
<1>9. OneAccountPerEmail' /\ EndedRevoked'
  BY <1>3, <1>5 DEF AuthInv, OneAccountPerEmail, EndedRevoked
<1>10. Vouched(AccessToken(u, at))' /\ Vouched(RefreshToken(u, at))'
  <2>1. n + 1 \in DOMAIN rows' /\ rows'[n + 1].user = u /\ rows'[n + 1].exp = at + RefreshLife
    BY <1>4, <1>5
  <2>2. /\ at + AccessLife <= at + RefreshLife + AccessLife + MaxDelay
        /\ at + RefreshLife <= at + RefreshLife + AccessLife + MaxDelay
    BY <1>1, <1>2
  <2> QED BY <2>1, <2>2 DEF Vouched, AccessToken, RefreshToken
<1>11. \A t \in tokens' \ tokens : Vouched(t)'
  BY <1>3, <1>10
<1> QED BY <1>3, <1>6, <1>8, <1>9, <1>11, HandlerStep DEF Returns

LEMMA MintAccessInv ==
    ASSUME AuthInv, NEW r \in Requests, MintAccess(r)
    PROVE  AuthInv'
<1> PICK u : u = req[r].user
  OBVIOUS
<1>1. /\ req[r] \in Handler /\ req[r].pc = "mint" /\ now \in Nat
      /\ AccessLife \in Nat /\ RefreshLife \in Nat /\ MaxDelay \in Nat
  BY AuthAssumption DEF MintAccess, AuthInv, TypeOK
<1>2. u \in Nat \ {0} /\ req[r].since \in Nat /\ now <= req[r].since + MaxDelay
  BY <1>1, Tables DEF AuthInv, HandlerOK, Handler
<1>3. /\ tokens' = tokens \cup {AccessToken(u, now)} /\ Returns(r)
      /\ UNCHANGED <<now, users, rows, ended>>
  BY DEF MintAccess
<1>4. PICK i \in DOMAIN rows : rows[i].user = u /\ rows[i].exp >= req[r].since
  BY <1>1 DEF AuthInv, HandlerOK
<1>5. rows[i].exp \in Nat
  BY Tables DEF AuthInv, Row
<1>6. Vouched(AccessToken(u, now))'
  <2>1. now + AccessLife <= rows[i].exp + AccessLife + MaxDelay
    BY <1>1, <1>2, <1>4, <1>5
  <2> QED BY <1>3, <1>4, <2>1 DEF Vouched, AccessToken
<1>7. HandlerOK(r)' /\ req' \in [Requests -> Handler]
  BY <1>3, ReturnsOK DEF AuthInv
<1>8. tokens' \subseteq Token
  BY <1>1, <1>2, <1>3 DEF AuthInv, TypeOK, Token, AccessToken
<1>9. TypeOK' /\ Kept
  BY <1>3, <1>7, <1>8 DEF AuthInv, TypeOK, Kept
<1>10. OneAccountPerEmail' /\ EndedRevoked'
  BY <1>3 DEF AuthInv, OneAccountPerEmail, EndedRevoked
<1> QED BY <1>3, <1>6, <1>7, <1>9, <1>10, HandlerStep DEF Returns

LEMMA LoadSessionsInv ==
    ASSUME AuthInv, NEW r \in Requests, LoadSessions(r)
    PROVE  AuthInv'
<1> PICK u : u = req[r].user
  OBVIOUS
<1> PICK found : found = {i \in DOMAIN rows : rows[i].user = u /\ ~rows[i].revoked}
  OBVIOUS
<1> DEFINE h == [req[r] EXCEPT !.pc = "revoke", !.seen = found]
<1>1. /\ req \in [Requests -> Handler] /\ req[r] \in Handler /\ req[r].pc = "load"
      /\ req' = [req EXCEPT ![r].pc = "revoke", ![r].seen = found]
      /\ UNCHANGED <<now, users, rows, tokens, ended>>
  BY DEF LoadSessions, AuthInv, TypeOK
<1>2. found \subseteq DOMAIN rows /\ DOMAIN rows \subseteq Nat /\ DOMAIN rows = 1 .. Len(rows)
      /\ Len(rows) \in Nat
  BY Tables DEF AuthInv
<1>3. /\ h \in Handler /\ h.pc = "revoke" /\ h.seen = found /\ h.user = u
      /\ h.count = req[r].count /\ h.since = req[r].since /\ h.count \in Nat
  BY <1>1, <1>2 DEF Handler
<1>4. req' = [req EXCEPT ![r] = h]
  BY <1>1
<1> HIDE DEF h
<1>5. req'[r] = h
  BY <1>1, <1>4
<1>6. 1 .. h.count \subseteq DOMAIN rows
  BY <1>1, <1>2, <1>3 DEF AuthInv, HandlerOK
<1>7. LoadedOK(r)'
  BY <1>1, <1>2, <1>3, <1>5, <1>6 DEF LoadedOK
<1>8. HandlerOK(r)'
  BY <1>1, <1>3, <1>5, <1>7 DEF AuthInv, HandlerOK
<1> QED BY <1>1, <1>3, <1>4, <1>8, QuietStep

\* What revoking does to a row.
LEMMA RevokeRows ==
    ASSUME AuthInv, NEW r \in Requests, Revoke(r)
    PROVE  /\ rows' \in Seq(Row) /\ Len(rows') = Len(rows)
           /\ \A i \in DOMAIN rows :
                 /\ rows'[i] \in Row
                 /\ rows'[i].user = rows[i].user /\ rows'[i].exp = rows[i].exp
                 /\ rows'[i].revoked <=> rows[i].revoked \/ i \in req[r].seen
<1> DEFINE new(i) == [rows[i] EXCEPT !.revoked = @ \/ i \in req[r].seen]
<1>1. rows' = [i \in DOMAIN rows |-> new(i)] /\ DOMAIN rows = 1 .. Len(rows) /\ Len(rows) \in Nat
  BY Tables DEF Revoke, AuthInv
<1>2. ASSUME NEW i \in DOMAIN rows
      PROVE  /\ new(i) \in Row /\ new(i).user = rows[i].user /\ new(i).exp = rows[i].exp
             /\ new(i).revoked <=> rows[i].revoked \/ i \in req[r].seen
  BY Tables DEF AuthInv, Row
<1> HIDE DEF new
<1>3. rows' \in [1 .. Len(rows) -> Row]
  BY <1>1, <1>2
<1>4. rows' \in Seq(Row) /\ Len(rows') = Len(rows)
  BY <1>1, <1>3, SeqDef
<1> QED BY <1>1, <1>2, <1>4 DEF new

LEMMA RevokeInv ==
    ASSUME AuthInv, NEW r \in Requests, Revoke(r)
    PROVE  AuthInv'
<1>1. /\ req[r] \in Handler /\ req[r].pc = "revoke" /\ Returns(r)
      /\ ended' = ended \cup {i \in 1 .. req[r].count : rows[i].user = req[r].user}
      /\ UNCHANGED <<now, users, tokens>>
  BY DEF Revoke, AuthInv, TypeOK
<1>2. /\ DOMAIN rows = 1 .. Len(rows) /\ Len(rows) \in Nat
      /\ req[r].count \in Nat /\ req[r].count <= Len(rows)
  BY <1>1, Tables DEF AuthInv, HandlerOK, Handler
<1>3. HandlerOK(r)' /\ req' \in [Requests -> Handler]
  BY <1>1, ReturnsOK DEF AuthInv
<1>4. TypeOK' /\ Kept
  <2>1. ended' \subseteq Nat
    <3>1. \A i \in 1 .. req[r].count : i \in Nat
      BY <1>2
    <3> QED BY <1>1, <3>1 DEF AuthInv, TypeOK
  <2>2. TypeOK'
    BY <1>1, <1>3, <2>1, RevokeRows DEF AuthInv, TypeOK
  <2>3. Kept
    BY <1>1, <1>2, RevokeRows, Tables DEF AuthInv, Kept
  <2> QED BY <2>2, <2>3
<1>5. EndedRevoked'
  <2> SUFFICES ASSUME NEW i \in ended' PROVE i \in DOMAIN rows' /\ rows'[i].revoked
    BY DEF EndedRevoked
  <2>1. DOMAIN rows' = DOMAIN rows
    BY <1>2, <1>4, RevokeRows, Tables DEF TypeOK
  <2>2. CASE i \in ended
    BY <2>1, <2>2, RevokeRows DEF AuthInv, EndedRevoked
  <2>3. CASE i \notin ended
    <3>1. i \in 1 .. req[r].count /\ rows[i].user = req[r].user /\ i \in DOMAIN rows
      BY <1>1, <1>2, <2>3
    <3>2. rows[i].revoked \/ i \in req[r].seen
      BY <1>1, <3>1 DEF AuthInv, HandlerOK, LoadedOK
    <3> QED BY <2>1, <3>1, <3>2, RevokeRows
  <2> QED BY <2>2, <2>3
<1>6. OneAccountPerEmail'
  BY <1>1 DEF AuthInv, OneAccountPerEmail
<1> QED BY <1>1, <1>3, <1>4, <1>5, <1>6, HandlerStep DEF Returns

LEMMA TickInv ==
    ASSUME AuthInv, Tick
    PROVE  AuthInv'
<1>1. /\ now \in Nat /\ now' = now + 1 /\ tokens' \subseteq tokens /\ MaxDelay \in Nat
      /\ UNCHANGED <<users, rows, req, ended>>
  BY AuthAssumption DEF Tick, AuthInv, TypeOK
<1>2. ASSUME NEW r \in Requests PROVE HandlerOK(r)'
  <2>1. req[r].since \in Nat
    BY DEF AuthInv, TypeOK, Handler
  <2>2. req[r].pc # "idle" => req[r].since <= now' /\ now' <= req[r].since + MaxDelay
    BY <1>1, <2>1 DEF AuthInv, HandlerOK, Tick
  <2> QED BY <1>1, <2>2 DEF AuthInv, HandlerOK, LoadedOK
<1>3. TypeOK'
  BY <1>1 DEF AuthInv, TypeOK
<1>4. OneAccountPerEmail' /\ EndedRevoked' /\ \A t \in tokens' : Vouched(t)'
  BY <1>1 DEF AuthInv, OneAccountPerEmail, EndedRevoked, Vouched
<1> QED BY <1>2, <1>3, <1>4 DEF AuthInv

LEMMA AuthInvStep == AuthInv /\ [Next]_vars => AuthInv'
<1> SUFFICES ASSUME AuthInv, [Next]_vars PROVE AuthInv'
  OBVIOUS
<1>1. ASSUME NEW r \in Requests, AuthStep(r) PROVE AuthInv'
  <2>1. CASE CommitFails(r)
    BY <2>1, QuietStep, ReturnsOK, IdleIsHandler DEF CommitFails, Returns, AuthInv
  <2> QED BY <1>1, <2>1, BeginInv, InsertUserInv, IssueTokenPairInv, MintAccessInv,
             LoadSessionsInv, RevokeInv DEF AuthStep
<1>2. CASE Tick
  BY <1>2, TickInv
<1>3. CASE UNCHANGED vars
  BY <1>3 DEF vars, AuthInv, TypeOK, OneAccountPerEmail, HandlerOK, LoadedOK, Vouched,
              EndedRevoked
<1> QED BY <1>1, <1>2, <1>3 DEF Next

THEOREM AuthInvariance == Spec => []AuthInv
<1>1. Init => AuthInv
  <2> SUFFICES ASSUME Init PROVE AuthInv
    OBVIOUS
  <2>1. TypeOK
    BY IdleIsHandler DEF Init, TypeOK
  <2> QED BY <2>1, IdleIsHandler DEF Init, AuthInv, OneAccountPerEmail, HandlerOK, EndedRevoked
<1> QED BY <1>1, AuthInvStep, PTL DEF Spec

----------------------------------------------------------------------------
(***************************************************************************)
(* Type correctness.                                                       *)
(***************************************************************************)
THEOREM TypeCorrect == Spec => []TypeOK
<1>1. AuthInv => TypeOK
  BY DEF AuthInv
<1> QED BY <1>1, AuthInvariance, PTL

(***************************************************************************)
(* An address has one account however many registrations race              *)
(* (routes_auth.py:76-98, models.py:17).                                   *)
(***************************************************************************)
THEOREM AccountsUnique == Spec => []OneAccountPerEmail
<1>1. AuthInv => OneAccountPerEmail
  BY DEF AuthInv
<1> QED BY <1>1, AuthInvariance, PTL

(***************************************************************************)
(* No refresh token is handed out without its row (routes_auth.py:42-54).  *)
(***************************************************************************)
THEOREM SessionsListed == Spec => []SessionsAreListed
<1>1. AuthInv => SessionsAreListed
  BY DEF AuthInv, Vouched, SessionsAreListed
<1> QED BY <1>1, AuthInvariance, PTL

(***************************************************************************)
(* Renewal ends with the session's row, whatever the lifetimes             *)
(* (routes_auth.py:134-180, security.py:62-121).                           *)
(***************************************************************************)
THEOREM RenewalsBounded == Spec => []RenewalsEnd
<1>1. AuthInv => RenewalsEnd
  BY DEF AuthInv, Vouched, RenewalsEnd
<1> QED BY <1>1, AuthInvariance, PTL

(***************************************************************************)
(* A completed logout has revoked all sessions there were when it began,   *)
(* for good (routes_auth.py:183-203).                                      *)
(***************************************************************************)
THEOREM LogoutsRevokeAll == Spec => []LogoutRevokesAll
<1>1. AuthInv => LogoutRevokesAll
  BY DEF AuthInv, EndedRevoked, LogoutRevokesAll
<1> QED BY <1>1, AuthInvariance, PTL

(***************************************************************************)
(* Nobody but a logout of its user changes a row.                          *)
(***************************************************************************)
THEOREM OwnersRevoke == Spec => OnlyOwnerRevokes
<1> DEFINE Owned ==
      \A i \in DOMAIN rows :
          rows'[i] # rows[i] =>
              /\ rows'[i] = [rows[i] EXCEPT !.revoked = TRUE]
              /\ \E r \in Requests : req[r].pc = "revoke" /\ req[r].user = rows[i].user
<1>1. ASSUME AuthInv, [Next]_vars PROVE Owned
  <2> SUFFICES ASSUME NEW i \in DOMAIN rows, rows'[i] # rows[i]
               PROVE  /\ rows'[i] = [rows[i] EXCEPT !.revoked = TRUE]
                      /\ \E r \in Requests : req[r].pc = "revoke" /\ req[r].user = rows[i].user
    OBVIOUS
  <2>1. ASSUME NEW r \in Requests, IssueTokenPair(r) PROVE FALSE
    <3>1. \E x : rows' = Append(rows, x)
      BY <2>1 DEF IssueTokenPair
    <3>2. rows \in Seq(Row) /\ i \in 1 .. Len(rows)
      BY <1>1, Tables DEF AuthInv, TypeOK
    <3> QED BY <3>1, <3>2
  <2>2. PICK r \in Requests : Revoke(r)
    BY <1>1, <2>1 DEF Next, vars, AuthStep, Tick, Register, InsertUser, CommitFails, Login,
                      Refresh, MintAccess, Logout, LoadSessions
  <2>3. /\ rows'[i] \in Row /\ rows'[i].user = rows[i].user /\ rows'[i].exp = rows[i].exp
        /\ rows'[i].revoked <=> rows[i].revoked \/ i \in req[r].seen
        /\ rows[i] \in Row /\ req[r].pc = "revoke"
    BY <1>1, <2>2, RevokeRows, Tables DEF AuthInv, Revoke
  <2>4. i \in req[r].seen
    <3>1. rows'[i].revoked # rows[i].revoked
      BY <2>3 DEF Row
    <3> QED BY <2>3, <3>1 DEF Row
  <2>5. rows'[i] = [rows[i] EXCEPT !.revoked = TRUE]
    BY <2>3, <2>4 DEF Row
  <2>6. req[r].user = rows[i].user
    BY <1>1, <2>3, <2>4 DEF AuthInv, HandlerOK, LoadedOK
  <2> QED BY <2>3, <2>5, <2>6
<1>2. AuthInv /\ [Next]_vars => [Owned]_vars
  BY <1>1
<1> QED BY <1>2, AuthInvariance, PTL DEF Spec, OnlyOwnerRevokes
=============================================================================
