-------------------------- MODULE BotServiceProofs --------------------------
(***************************************************************************)
(* Proofs about BotService and its two halves, for any number of bots,     *)
(* users and concurrent requests, any tick interval and any number of      *)
(* edits and restarts.  First the endpoints (BotApi), and that they        *)
(* implement BotLifecycle one request at a time; then the worker           *)
(* (Scheduler, here the instance Worker, whose active bots are those of    *)
(* the bots table); last, that the two together implement each of them.    *)
(***************************************************************************)
EXTENDS BotService, TLAPS

\* A handler past its SELECT works on a bot that its user owns.
Owned ==
    \A r \in Requests : req[r].pc = "loaded" =>
        /\ bots[req[r].bot].state # "absent"
        /\ bots[req[r].bot].owner = req[r].user
        /\ req[r].op # "create"

ApiInv == TypeOK /\ TradesPinBot /\ Owned

LEMMA IdleType == Idle \in Handler /\ AnyUser \in Users
  BY ApiAssumption DEF Idle, Handler, AnyUser, Ops, Statuses

LEMMA AssignedType ==
    ASSUME NEW op \in Ops
    PROVE  Assigned(op).active \in BOOLEAN /\ Assigned(op).status \in Statuses
  BY DEF Assigned, Statuses

LEMMA WrittenRow ==
    ASSUME NEW row \in Row, NEW h \in Handler
    PROVE  /\ Written(row, h) \in Row
           /\ Written(row, h).state = row.state
           /\ Written(row, h).owner = row.owner
           /\ row.active = h.active =>
                Written(row, h).active = Assigned(h.op).active
           /\ row.status = h.status =>
                Written(row, h).status = Assigned(h.op).status
<1> DEFINE a == IF Assigned(h.op).active # h.active THEN Assigned(h.op).active ELSE row.active
           s == IF Assigned(h.op).status # h.status THEN Assigned(h.op).status ELSE row.status
<1>1. h.op \in Ops
  BY DEF Handler
<1>2. a \in BOOLEAN /\ s \in Statuses
  BY <1>1, AssignedType DEF Row
<1>3. Written(row, h) = [row EXCEPT !.active = a, !.status = s]
  BY DEF Written
<1> QED BY <1>2, <1>3 DEF Row

LEMMA InitApi == Init => ApiInv
<1> SUFFICES ASSUME Init PROVE ApiInv
  OBVIOUS
<1>1. bots \in [Bots -> Row]
  BY IdleType DEF Init, Row, Statuses
<1>2. req \in [Requests -> Handler] /\ \A r \in Requests : req[r].pc = "idle"
  BY IdleType DEF Init, Idle
<1>3. traded = {}
  BY DEF Init
<1> QED BY <1>1, <1>2, <1>3 DEF ApiInv, TypeOK, TradesPinBot, Owned

LEMMA EndpointStep == ApiInv /\ [Next]_vars => ApiInv'
<1> SUFFICES ASSUME ApiInv, [Next]_vars PROVE ApiInv'
  OBVIOUS
<1> USE DEF ApiInv
<1>0. bots \in [Bots -> Row] /\ req \in [Requests -> Handler] /\ traded \in SUBSET Bots
  BY DEF TypeOK
<1>1. ASSUME NEW r \in Requests, NEW u \in Users, NEW b \in Bots, Create(r, u, b)
      PROVE  ApiInv'
  <2>1. TypeOK'
    BY <1>0, <1>1, IdleType DEF Create, TypeOK, Row, Handler, Idle, Ops, Statuses
  <2>2. TradesPinBot'
    BY <1>0, <1>1 DEF Create, TradesPinBot, Present
  <2>3. Owned'
    BY <1>0, <1>1, IdleType DEF Create, Owned, Handler, Idle
  <2> QED BY <2>1, <2>2, <2>3
<1>2. ASSUME NEW r \in Requests, NEW op \in Ops \ {"create"}, NEW u \in Users, NEW b \in Bots,
             Load(r, op, u, b)
      PROVE  ApiInv'
  <2>1. TypeOK'
    BY <1>0, <1>2 DEF Load, TypeOK, Row, Handler
  <2>2. TradesPinBot'
    BY <1>2 DEF Load, TradesPinBot, Present
  <2>3. Owned'
    BY <1>0, <1>2 DEF Load, Owned, Present
  <2> QED BY <2>1, <2>2, <2>3
<1>3. ASSUME NEW r \in Requests, CommitUpdate(r) PROVE ApiInv'
  <2> PICK b \in Bots : b = req[r].bot
    BY <1>0 DEF Handler
  <2> PICK new \in Row : /\ bots' = [bots EXCEPT ![b] = new]
                         /\ new.state = bots[b].state /\ new.owner = bots[b].owner
    BY <1>0, <1>3, WrittenRow DEF CommitUpdate
  <2>1. /\ req' = [req EXCEPT ![r].pc = "refresh"] /\ traded' = traded
    BY <1>3 DEF CommitUpdate
  <2>2. TypeOK'
    BY <1>0, <2>1 DEF TypeOK, Handler
  <2>3. TradesPinBot'
    BY <1>0, <2>1 DEF TradesPinBot, Present
  <2>4. Owned'
    BY <1>0, <2>1 DEF Owned, Handler
  <2> QED BY <2>2, <2>3, <2>4
<1>4. ASSUME NEW r \in Requests, CommitStale(r) PROVE ApiInv'
  BY <1>0, <1>4, IdleType DEF CommitStale, TypeOK, TradesPinBot, Present, Owned, Idle
<1>5. ASSUME NEW r \in Requests, CommitDelete(r) PROVE ApiInv'
  <2> PICK b \in Bots : b = req[r].bot
    BY <1>0 DEF Handler
  <2>1. /\ bots' = IF b \notin traded THEN [bots EXCEPT ![b].state = "deleted"] ELSE bots
        /\ req' = [req EXCEPT ![r] = Idle] /\ traded' = traded
    BY <1>5 DEF CommitDelete
  <2>2. TypeOK'
    BY <1>0, <2>1, IdleType DEF TypeOK, Row
  <2>3. TradesPinBot'
    BY <1>0, <2>1 DEF TradesPinBot, Present
  <2>4. Owned'
    BY <1>0, <2>1, IdleType DEF Owned, Idle, Row
  <2> QED BY <2>2, <2>3, <2>4
<1>6. ASSUME NEW r \in Requests, Refresh(r) PROVE ApiInv'
  BY <1>0, <1>6, IdleType DEF Refresh, TypeOK, TradesPinBot, Present, Owned, Idle
<1>7. ASSUME NEW b \in Bots, RecordTrade(b) PROVE ApiInv'
  BY <1>0, <1>7 DEF RecordTrade, TypeOK, TradesPinBot, Present, Owned
<1>8. CASE UNCHANGED vars
  BY <1>8 DEF vars, TypeOK, TradesPinBot, Present, Owned
<1> QED BY <1>1, <1>2, <1>3, <1>4, <1>5, <1>6, <1>7, <1>8 DEF Next, RequestStep

LEMMA ApiInvariance == Spec => []ApiInv
  BY InitApi, EndpointStep, PTL DEF Spec

----------------------------------------------------------------------------
(***************************************************************************)
(* Type correctness, for any number of bots, users and requests.           *)
(***************************************************************************)
THEOREM TypeCorrect == Spec => []TypeOK
  BY ApiInvariance, PTL DEF ApiInv

(***************************************************************************)
(* A bot with trades is never deleted, however many requests race with     *)
(* the worker's commit of a trade.                                         *)
(***************************************************************************)
THEOREM TradesPinTheirBot == Spec => []TradesPinBot
  BY ApiInvariance, PTL DEF ApiInv

(***************************************************************************)
(* A deleted bot stays deleted and unchanged, whatever was in flight.      *)
(***************************************************************************)
THEOREM DeletedForGood == Spec => NoResurrection
<1>1. ASSUME ApiInv, [Next]_vars, NEW b \in Bots, bots[b].state = "deleted"
      PROVE  bots'[b] = bots[b]
  <2> bots \in [Bots -> Row] /\ req \in [Requests -> Handler]
    BY <1>1 DEF ApiInv, TypeOK
  <2>1. CASE UNCHANGED vars
    BY <2>1 DEF vars
  <2>2. ASSUME NEW r \in Requests, RequestStep(r) PROVE bots'[b] = bots[b]
    <3>1. ASSUME NEW u \in Users, NEW c \in Bots, Create(r, u, c) PROVE bots'[b] = bots[b]
      BY <1>1, <3>1 DEF Create
    <3>2. ASSUME CommitUpdate(r) PROVE bots'[b] = bots[b]
      BY <1>1, <3>2 DEF CommitUpdate, Present, Handler
    <3>3. ASSUME CommitDelete(r) PROVE bots'[b] = bots[b]
      BY <1>1, <3>3 DEF CommitDelete, Handler, Row
    <3> QED BY <2>2, <3>1, <3>2, <3>3 DEF RequestStep, Load, CommitStale, Refresh
  <2>3. ASSUME NEW c \in Bots, RecordTrade(c) PROVE bots'[b] = bots[b]
    BY <2>3 DEF RecordTrade
  <2> QED BY <1>1, <2>1, <2>2, <2>3 DEF Next
<1>2. ApiInv /\ [Next]_vars =>
        [\A b \in Bots : bots[b].state = "deleted" => bots'[b] = bots[b]]_vars
  BY <1>1
<1> QED BY <1>2, ApiInvariance, PTL DEF Spec, NoResurrection

(***************************************************************************)
(* Nobody but its owner changes an existing bot, and its owner stays.      *)
(***************************************************************************)
THEOREM OwnersChangeTheirBots == Spec => OnlyOwnerChanges
<1> DEFINE Authorised ==
      \A b \in Bots :
          bots'[b] # bots[b] /\ bots[b].state # "absent" =>
              /\ bots'[b].owner = bots[b].owner
              /\ \E r \in Requests :
                    req[r].pc = "loaded" /\ req[r].bot = b /\ req[r].user = bots[b].owner
<1>1. ASSUME ApiInv, Next, NEW b \in Bots, bots'[b] # bots[b], bots[b].state # "absent"
      PROVE  /\ bots'[b].owner = bots[b].owner
             /\ \E r \in Requests :
                   req[r].pc = "loaded" /\ req[r].bot = b /\ req[r].user = bots[b].owner
  <2> bots \in [Bots -> Row] /\ req \in [Requests -> Handler] /\ Owned
    BY <1>1 DEF ApiInv, TypeOK
  <2>1. PICK r \in Requests : RequestStep(r)
    BY <1>1 DEF Next, RecordTrade
  <2>2. ~ \E u \in Users, c \in Bots : Create(r, u, c)
    BY <1>1 DEF Create
  <2>3. CommitUpdate(r) \/ CommitDelete(r)
    BY <1>1, <2>1, <2>2 DEF RequestStep, Load, CommitStale, Refresh
  <2>4. /\ req[r].pc = "loaded" /\ req[r].bot \in Bots
        /\ req[r].user = bots[req[r].bot].owner
    BY <2>3 DEF CommitUpdate, CommitDelete, Owned, Handler
  <2>5. PICK new \in Row : /\ bots' = [bots EXCEPT ![req[r].bot] = new]
                           /\ new.owner = bots[req[r].bot].owner
    <3>1. CASE CommitUpdate(r)
      BY <2>4, <3>1, WrittenRow DEF CommitUpdate
    <3>2. CASE CommitDelete(r)
      <4>1. [bots[req[r].bot] EXCEPT !.state = "deleted"] \in Row
        BY <2>4 DEF Row
      <4> QED BY <2>4, <3>2, <4>1 DEF CommitDelete, Row
    <3> QED BY <2>3, <3>1, <3>2
  <2>6. req[r].bot = b
    BY <1>1, <2>4, <2>5
  <2> QED BY <2>4, <2>5, <2>6
<1>2. ApiInv /\ [Next]_vars => [Authorised]_vars
  BY <1>1
<1> QED BY <1>2, ApiInvariance, PTL DEF Spec, OnlyOwnerChanges

(***************************************************************************)
(* A commit that was not raced leaves the bot as its endpoint says,        *)
(* whatever other requests did before or do meanwhile to other bots.       *)
(***************************************************************************)
THEOREM UnracedCommitsTake == Spec => UnracedCommitTakes
<1> DEFINE Unraced(h) == /\ h.pc = "loaded" /\ Present(h.bot)
                         /\ bots[h.bot].active = h.active /\ bots[h.bot].status = h.status
           Taken(h)   == /\ bots'[h.bot].active = (h.op = "start")
                         /\ bots'[h.bot].status = (IF h.op = "start" THEN "running"
                                                   ELSE IF h.op = "pause" THEN "paused"
                                                   ELSE "stopped")
<1>1. ASSUME ApiInv, Next, NEW r \in Requests, Unraced(req[r]), req'[r].pc = "refresh"
      PROVE  Taken(req[r])
  <2>1. bots \in [Bots -> Row] /\ req \in [Requests -> Handler] /\ Owned
    BY <1>1 DEF ApiInv, TypeOK
  <2>2. CommitUpdate(r)
    <3>1. PICK q \in Requests : RequestStep(q)
      BY <1>1 DEF Next, RecordTrade
    <3>2. q = r
      BY <1>1, <2>1, <3>1 DEF RequestStep, Create, Load, CommitUpdate, CommitStale,
                              CommitDelete, Refresh
    <3>3. ~ CommitStale(r) /\ ~ CommitDelete(r)
      BY <1>1, <2>1 DEF CommitStale, CommitDelete, Idle
    <3>4. ~ Refresh(r) /\ req[r].pc # "idle"
      BY <1>1 DEF Refresh
    <3> QED BY <3>1, <3>2, <3>3, <3>4 DEF RequestStep, Create, Load
  <2>3. PICK h \in Handler : h = req[r]
    BY <2>1
  <2>4. PICK row \in Row : row = bots[h.bot]
    BY <2>1, <2>3 DEF Handler
  <2>5. /\ h.bot \in Bots /\ h.op \in {"start", "pause", "stop"}
        /\ row.active = h.active /\ row.status = h.status
        /\ bots'[h.bot] = IF Dirty(h) THEN Written(row, h) ELSE row
    BY <1>1, <2>1, <2>2, <2>3, <2>4 DEF CommitUpdate, Handler, Ops, Owned
  <2>6. bots'[h.bot].active = Assigned(h.op).active /\ bots'[h.bot].status = Assigned(h.op).status
    <3>1. CASE Dirty(h)
      BY <2>4, <2>5, <3>1, WrittenRow
    <3>2. CASE ~Dirty(h)
      BY <2>5, <3>2 DEF Dirty, Assigned
    <3> QED BY <3>1, <3>2
  <2> QED BY <2>3, <2>5, <2>6 DEF Assigned
<1>2. ApiInv /\ [Next]_vars =>
        [\A r \in Requests :
          LET h == req[r] IN
          (/\ h.pc = "loaded" /\ req'[r].pc = "refresh"
           /\ Present(h.bot)
           /\ bots[h.bot].active = h.active /\ bots[h.bot].status = h.status)
          => /\ bots'[h.bot].active = (h.op = "start")
             /\ bots'[h.bot].status = (IF h.op = "start" THEN "running"
                                       ELSE IF h.op = "pause" THEN "paused"
                                       ELSE "stopped")]_vars
  BY <1>1
<1> QED BY <1>2, ApiInvariance, PTL DEF Spec, UnracedCommitTakes
----------------------------------------------------------------------------
(***************************************************************************)
(* One request at a time: what a handler loaded is still in its row.       *)
(***************************************************************************)
Fresh ==
    \A r \in Requests : req[r].pc = "loaded" =>
        /\ Present(req[r].bot)
        /\ bots[req[r].bot].active = req[r].active
        /\ bots[req[r].bot].status = req[r].status
        /\ req[r].op = "pause" => req[r].status = "running"

SerialInv == ApiInv /\ Fresh /\ ActiveIffRunning

OneAtATime == \A r, s \in Requests : r = s

\* What a commit does to a bot that has not changed since it was loaded.
LEMMA FreshCommit ==
    ASSUME SerialInv, NEW r \in Requests, CommitUpdate(r)
    PROVE  LET b == req[r].bot
               op == req[r].op
           IN  /\ b \in Bots /\ op \in {"start", "pause", "stop"} /\ Present(b)
               /\ op = "pause" => bots[b].status = "running"
               /\ \E new \in Row :
                     /\ bots' = [bots EXCEPT ![b] = new]
                     /\ new.state = "present"
                     /\ new.active = Assigned(op).active
                     /\ new.status = Assigned(op).status
<1>0. bots \in [Bots -> Row] /\ req \in [Requests -> Handler] /\ Owned
  BY DEF SerialInv, ApiInv, TypeOK
<1>1. PICK h \in Handler : h = req[r]
  BY <1>0
<1>2. PICK row \in Row : row = bots[h.bot]
  BY <1>0, <1>1 DEF Handler
<1>3. /\ h.bot \in Bots /\ h.op \in {"start", "pause", "stop"}
      /\ row.state = "present" /\ row.active = h.active /\ row.status = h.status
      /\ h.op = "pause" => row.status = "running"
      /\ bots' = [bots EXCEPT ![h.bot] = IF Dirty(h) THEN Written(row, h) ELSE row]
  BY <1>0, <1>1, <1>2 DEF CommitUpdate, Handler, Ops, Owned, SerialInv, Fresh, Present
<1>4. CASE Dirty(h)
  <2> DEFINE new == Written(row, h)
  <2>1. /\ new \in Row /\ new.state = "present"
        /\ new.active = Assigned(h.op).active /\ new.status = Assigned(h.op).status
    BY <1>2, <1>3, WrittenRow
  <2>2. bots' = [bots EXCEPT ![h.bot] = new]
    BY <1>3, <1>4
  <2> HIDE DEF new
  <2> QED BY <1>1, <1>2, <1>3, <2>1, <2>2 DEF Present
<1>5. CASE ~Dirty(h)
  <2>1. Assigned(h.op).active = h.active /\ Assigned(h.op).status = h.status
    BY <1>5 DEF Dirty, Assigned
  <2> QED BY <1>1, <1>2, <1>3, <1>5, <2>1 DEF Present
<1> QED BY <1>4, <1>5

LEMMA SerialInit == Init => SerialInv
<1> SUFFICES ASSUME Init PROVE SerialInv
  OBVIOUS
<1>1. Fresh
  BY DEF Init, Fresh, Idle
<1>2. ActiveIffRunning
  BY DEF Init, ActiveIffRunning
<1> QED BY <1>1, <1>2, InitApi DEF SerialInv

LEMMA SerialStep ==
    ASSUME OneAtATime PROVE SerialInv /\ [Next]_vars => SerialInv'
<1> SUFFICES ASSUME SerialInv, [Next]_vars PROVE Fresh' /\ ActiveIffRunning'
  BY EndpointStep DEF SerialInv
<1>0. /\ bots \in [Bots -> Row] /\ req \in [Requests -> Handler]
      /\ Fresh /\ ActiveIffRunning
  BY DEF SerialInv, ApiInv, TypeOK
<1>1. ASSUME NEW r \in Requests, NEW u \in Users, NEW b \in Bots, Create(r, u, b)
      PROVE  Fresh' /\ ActiveIffRunning'
  <2>1. \A s \in Requests : req'[s].pc = "refresh"
    BY <1>0, <1>1 DEF Create, OneAtATime, Idle
  <2>2. ActiveIffRunning'
    BY <1>0, <1>1, IdleType DEF Create, ActiveIffRunning, Present
  <2> QED BY <2>1, <2>2 DEF Fresh
<1>2. ASSUME NEW r \in Requests, NEW op \in Ops \ {"create"}, NEW u \in Users, NEW b \in Bots,
             Load(r, op, u, b)
      PROVE  Fresh' /\ ActiveIffRunning'
  BY <1>0, <1>2 DEF Load, Fresh, ActiveIffRunning, Present, OneAtATime
<1>3. ASSUME NEW r \in Requests, CommitUpdate(r) PROVE Fresh' /\ ActiveIffRunning'
  <2> PICK b \in Bots, new \in Row :
        /\ bots' = [bots EXCEPT ![b] = new]
        /\ new.active <=> new.status = "running"
    BY <1>3, FreshCommit DEF Assigned
  <2>1. ActiveIffRunning'
    BY <1>0 DEF ActiveIffRunning, Present
  <2>2. \A s \in Requests : req'[s].pc = "refresh"
    BY <1>0, <1>3 DEF CommitUpdate, OneAtATime
  <2> QED BY <2>1, <2>2 DEF Fresh
<1>4. ASSUME NEW r \in Requests, CommitStale(r) \/ CommitDelete(r) \/ Refresh(r)
      PROVE  Fresh' /\ ActiveIffRunning'
  <2>1. \A s \in Requests : req'[s].pc = "idle"
    BY <1>0, <1>4 DEF CommitStale, CommitDelete, Refresh, OneAtATime, Idle
  <2>2. ActiveIffRunning'
    BY <1>0, <1>4 DEF CommitStale, CommitDelete, Refresh, ActiveIffRunning, Present, Handler, Row
  <2> QED BY <2>1, <2>2 DEF Fresh
<1>5. ASSUME NEW b \in Bots, RecordTrade(b) PROVE Fresh' /\ ActiveIffRunning'
  BY <1>0, <1>5 DEF RecordTrade, Fresh, ActiveIffRunning, Present
<1>6. CASE UNCHANGED vars
  BY <1>0, <1>6 DEF vars, Fresh, ActiveIffRunning, Present
<1> QED BY <1>1, <1>2, <1>3, <1>4, <1>5, <1>6 DEF Next, RequestStep

LEMMA SerialInvariance == ASSUME OneAtATime PROVE Spec => []SerialInv
  BY SerialInit, SerialStep, PTL DEF Spec

(***************************************************************************)
(* One request at a time, is_active and status never disagree.             *)
(***************************************************************************)
THEOREM SerialColumnsAgree == ASSUME OneAtATime PROVE Spec => []ActiveIffRunning
<1>1. SerialInv => ActiveIffRunning
  BY DEF SerialInv
<1> QED BY <1>1, SerialInvariance, PTL

\* Every step of the endpoints is one step of a bot's life, or none.
LEMMA LifeStep ==
    ASSUME SerialInv, [Next]_vars PROVE [Lifecycle!Next]_Life
<1> USE DEF Lifecycle!Next, Lifecycle!Move, Lifecycle!Existing, Life, Present
<1>0. bots \in [Bots -> Row] /\ req \in [Requests -> Handler] /\ Fresh
  BY DEF SerialInv, ApiInv, TypeOK
<1>1. ASSUME NEW r \in Requests, NEW u \in Users, NEW b \in Bots, Create(r, u, b)
      PROVE  [Lifecycle!Next]_Life
  <2>1. Life[b] = "absent" /\ Life' = [Life EXCEPT ![b] = "stopped"]
    BY <1>0, <1>1 DEF Create
  <2> QED BY <2>1 DEF Lifecycle!Create
<1>2. ASSUME NEW r \in Requests, CommitUpdate(r) PROVE [Lifecycle!Next]_Life
  <2> DEFINE b == req[r].bot
             op == req[r].op
  <2>1. PICK new \in Row :
          /\ b \in Bots /\ op \in {"start", "pause", "stop"} /\ Present(b)
          /\ op = "pause" => bots[b].status = "running"
          /\ bots' = [bots EXCEPT ![b] = new]
          /\ new.state = "present" /\ new.status = Assigned(op).status
    BY <1>2, FreshCommit
  <2>2. Life[b] \in Lifecycle!Existing /\ (op = "pause" => Life[b] = "running")
    BY <1>0, <2>1 DEF Row, Statuses
  <2>3. Life' = [Life EXCEPT ![b] = Assigned(op).status]
    BY <1>0, <2>1 DEF Row
  <2> QED BY <2>1, <2>2, <2>3 DEF Assigned, Lifecycle!Start, Lifecycle!Pause, Lifecycle!Stop
<1>3. ASSUME NEW r \in Requests, CommitDelete(r) PROVE [Lifecycle!Next]_Life
  <2> PICK b \in Bots : b = req[r].bot
    BY <1>0 DEF Handler
  <2>1. CASE b \in traded
    BY <1>3, <2>1 DEF CommitDelete
  <2>2. CASE b \notin traded
    <3>1. Life[b] \in Lifecycle!Existing
      BY <1>0, <1>3 DEF CommitDelete, Fresh, Row, Statuses
    <3>2. Life' = [Life EXCEPT ![b] = "deleted"]
      BY <1>0, <1>3, <2>2 DEF CommitDelete, Row
    <3> QED BY <3>1, <3>2 DEF Lifecycle!Delete
  <2> QED BY <2>1, <2>2
<1>4. UNCHANGED bots => UNCHANGED Life
  OBVIOUS
<1>5. CASE UNCHANGED vars
  BY <1>4, <1>5 DEF vars
<1> QED BY <1>1, <1>2, <1>3, <1>4, <1>5
        DEF Next, RequestStep, Load, CommitStale, Refresh, RecordTrade

(***************************************************************************)
(* One request at a time, the endpoints implement BotLifecycle: a bot goes *)
(* through the life the tests of the lifecycle describe and no other.      *)
(***************************************************************************)
THEOREM SerialRefinement == ASSUME OneAtATime PROVE Spec => LifecycleSpec
<1>1. Init => Lifecycle!Init
  BY DEF Init, Lifecycle!Init, Life, Present
<1>2. SerialInv /\ [Next]_vars => [Lifecycle!Next]_Life
  BY LifeStep
<1> QED BY <1>1, <1>2, SerialInvariance, PTL DEF Spec, LifecycleSpec, Lifecycle!Spec

----------------------------------------------------------------------------

\* main and the job never reconcile at the same time.
OneReconcile == rec["main"].pc = "idle" \/ rec["job"].pc = "idle"

\* Whoever is down has no memory.
DownIsEmpty ==
    ~up => /\ applied = 0 /\ Worker!Scheduled = {}
           /\ \A p \in Worker!Coroutines : rec[p].pc = "idle"

\* A poll never sees less than what has been applied, and what it saw is
\* the present state unless an edit came after it.
PollsAdvance ==
    /\ applied <= edits
    /\ \A p \in Worker!Coroutines : rec[p].pc = "fetched" =>
          /\ applied <= rec[p].stamp /\ rec[p].stamp <= edits
          /\ rec[p].stamp = edits => rec[p].bots = ActiveBots

\* The jobs are the bots the last applied poll saw.
JobsCurrent == up /\ applied = edits => Worker!Scheduled = ActiveBots

\* Before the first edit no bot is active.
NothingYet == edits = 0 => ActiveBots = {}

SchedulerInv ==
    /\ Worker!TypeOK /\ OneReconcile /\ DownIsEmpty /\ PollsAdvance /\ JobsCurrent /\ NothingYet

LEMMA AsleepType == Worker!Asleep \in Worker!Reconcile /\ Worker!Asleep.pc = "idle"
  BY DEF Worker!Asleep, Worker!Reconcile

LEMMA SchedulerInitial == Worker!Init => SchedulerInv
<1> SUFFICES ASSUME Worker!Init PROVE SchedulerInv
  OBVIOUS
<1> USE ServiceAssumption DEF Worker!Init, Worker!WorkerInit
<1>1. Worker!TypeOK
  <2>1. rec \in [Worker!Coroutines -> Worker!Reconcile]
    BY AsleepType
  <2>2. wait \in [Bots -> 0 .. TickCycles]
    OBVIOUS
  <2> QED BY <2>1, <2>2 DEF Worker!TypeOK
<1>2. \A p \in Worker!Coroutines : rec[p].pc = "idle"
  BY DEF Worker!Asleep
<1>3. Worker!Scheduled = {}
  BY DEF Worker!Scheduled
<1> QED BY <1>1, <1>2, <1>3
        DEF SchedulerInv, OneReconcile, DownIsEmpty, PollsAdvance, JobsCurrent, NothingYet,
            Worker!Coroutines

\* Types need no assumption about main's first reconcile.
LEMMA WorkerTypeStep == Worker!TypeOK /\ [Worker!Next]_Worker!vars => Worker!TypeOK'
<1> SUFFICES ASSUME Worker!TypeOK, [Worker!Next]_Worker!vars PROVE Worker!TypeOK'
  OBVIOUS
<1> USE ServiceAssumption
<1>0. /\ ActiveBots \in SUBSET Bots /\ edits \in Nat /\ applied \in Nat /\ crashes \in Nat
      /\ up \in BOOLEAN /\ running \in SUBSET Bots
      /\ wait \in [Bots -> 0 .. TickCycles] /\ rec \in [Worker!Coroutines -> Worker!Reconcile]
  BY DEF Worker!TypeOK
<1> USE DEF Worker!Coroutines
<1>1. CASE Worker!Edit
  BY <1>0, <1>1 DEF Worker!Edit, Worker!workerVars, Worker!TypeOK
<1>2. CASE Worker!Boot
  BY <1>0, <1>2 DEF Worker!Boot, Worker!TypeOK, Worker!Reconcile, Worker!Fetching
<1>3. CASE Worker!Elapse
  <2>1. wait' \in [Bots -> 0 .. TickCycles] /\ running' \in SUBSET Bots
    BY <1>0, <1>3 DEF Worker!Elapse
  <2>2. rec' \in [Worker!Coroutines -> Worker!Reconcile]
    BY <1>0, <1>3 DEF Worker!Elapse, Worker!Reconcile, Worker!Fetching
  <2> QED BY <1>0, <1>3, <2>1, <2>2 DEF Worker!Elapse, Worker!TypeOK
<1>4. ASSUME NEW p \in Worker!Coroutines, Worker!Read(p) PROVE Worker!TypeOK'
  BY <1>0, <1>4 DEF Worker!Read, Worker!TypeOK, Worker!Reconcile
<1>5. ASSUME NEW p \in Worker!Coroutines, Worker!Fail(p) PROVE Worker!TypeOK'
  BY <1>0, <1>5 DEF Worker!Fail, Worker!TypeOK, Worker!Reconcile, Worker!Asleep
<1>6. ASSUME NEW p \in Worker!Coroutines, Worker!Apply(p) PROVE Worker!TypeOK'
  <2>1. rec[p].bots \in SUBSET Bots /\ rec[p].stamp \in Nat
    BY <1>0 DEF Worker!Reconcile
  <2>2. wait' \in [Bots -> 0 .. TickCycles] /\ applied' \in Nat
    BY <1>0, <1>6, <2>1 DEF Worker!Apply
  <2>3. rec' \in [Worker!Coroutines -> Worker!Reconcile]
    BY <1>0, <1>6, AsleepType DEF Worker!Apply
  <2> QED BY <1>0, <1>6, <2>2, <2>3 DEF Worker!Apply, Worker!TypeOK
<1>7. ASSUME NEW b \in Bots, Worker!EndTick(b) PROVE Worker!TypeOK'
  BY <1>0, <1>7 DEF Worker!EndTick, Worker!TypeOK
<1>8. CASE Worker!Crash
  <2>1. rec' \in [Worker!Coroutines -> Worker!Reconcile] /\ wait' \in [Bots -> 0 .. TickCycles]
    BY <1>8, AsleepType DEF Worker!Crash
  <2>2. /\ UNCHANGED <<ActiveBots, edits>> /\ up' = FALSE /\ running' = {} /\ applied' = 0
        /\ crashes' = crashes + 1
    BY <1>8 DEF Worker!Crash
  <2>3. crashes' \in Nat /\ running' \in SUBSET Bots
    BY <1>0, <2>2
  <2> QED BY <1>0, <2>1, <2>2, <2>3 DEF Worker!TypeOK
<1>9. CASE UNCHANGED Worker!vars
  BY <1>0, <1>9 DEF Worker!vars, Worker!TypeOK
<1> QED BY <1>1, <1>2, <1>3, <1>4, <1>5, <1>6, <1>7, <1>8, <1>9 DEF Worker!Next, Worker!WorkerNext

LEMMA SchedulerStep ==
    ASSUME ~SlowBoot PROVE SchedulerInv /\ [Worker!Next]_Worker!vars => SchedulerInv'
<1> SUFFICES ASSUME SchedulerInv, [Worker!Next]_Worker!vars PROVE SchedulerInv'
  OBVIOUS
<1> USE ServiceAssumption
<1>0. /\ Worker!TypeOK /\ OneReconcile /\ DownIsEmpty /\ PollsAdvance /\ JobsCurrent /\ NothingYet
      /\ ActiveBots \in SUBSET Bots /\ edits \in Nat /\ applied \in Nat /\ crashes \in Nat
      /\ up \in BOOLEAN /\ running \in SUBSET Bots
      /\ wait \in [Bots -> 0 .. TickCycles] /\ rec \in [Worker!Coroutines -> Worker!Reconcile]
  BY DEF SchedulerInv, Worker!TypeOK
<1>T. Worker!TypeOK'
  BY <1>0, WorkerTypeStep
<1> DEFINE Rest == OneReconcile /\ DownIsEmpty /\ PollsAdvance /\ JobsCurrent /\ NothingYet
<1> USE DEF Worker!Coroutines
<1>1. ASSUME Worker!Edit PROVE Rest'
  <2>1. OneReconcile' /\ DownIsEmpty'
    BY <1>0, <1>1 DEF Worker!Edit, Worker!workerVars, OneReconcile, DownIsEmpty, Worker!Scheduled
  <2>2. PollsAdvance' /\ JobsCurrent' /\ NothingYet'
    BY <1>0, <1>1 DEF Worker!Edit, Worker!workerVars, PollsAdvance, JobsCurrent, NothingYet, Worker!Reconcile
  <2> QED BY <2>1, <2>2
<1>2. ASSUME Worker!Boot PROVE Rest'
  <2>1. rec'["job"].pc = "idle" /\ rec'["main"].pc = "fetching"
    BY <1>0, <1>2 DEF Worker!Boot, DownIsEmpty, Worker!Fetching
  <2>2. OneReconcile' /\ DownIsEmpty' /\ PollsAdvance' /\ NothingYet'
    BY <1>0, <1>2, <2>1 DEF Worker!Boot, OneReconcile, DownIsEmpty, PollsAdvance, NothingYet
  <2>3. JobsCurrent'
    BY <1>0, <1>2 DEF Worker!Boot, JobsCurrent, NothingYet, DownIsEmpty, Worker!Scheduled
  <2> QED BY <2>2, <2>3
<1>3. ASSUME Worker!Elapse PROVE Rest'
  <2>1. Worker!Scheduled' = Worker!Scheduled
    BY <1>0, <1>3 DEF Worker!Elapse, Worker!Scheduled
  <2>2. /\ rec'["main"] = rec["main"]
        /\ rec["main"].pc = "idle"
        /\ rec'["job"] = rec["job"] \/ rec'["job"].pc = "fetching"
    BY <1>0, <1>3 DEF Worker!Elapse, Worker!Fetching
  <2> QED BY <1>0, <1>3, <2>1, <2>2
          DEF Worker!Elapse, OneReconcile, DownIsEmpty, PollsAdvance, JobsCurrent, NothingYet
<1>4. ASSUME NEW p \in Worker!Coroutines, Worker!Read(p) PROVE Rest'
  <2>1. OneReconcile' /\ DownIsEmpty'
    BY <1>0, <1>4 DEF Worker!Read, OneReconcile, DownIsEmpty, Worker!Scheduled
  <2>2. PollsAdvance' /\ JobsCurrent' /\ NothingYet'
    BY <1>0, <1>4 DEF Worker!Read, PollsAdvance, JobsCurrent, NothingYet, Worker!Scheduled
  <2> QED BY <2>1, <2>2
<1>5. ASSUME NEW p \in Worker!Coroutines, Worker!Fail(p) PROVE Rest'
  <2>1. OneReconcile' /\ DownIsEmpty'
    BY <1>0, <1>5 DEF Worker!Fail, OneReconcile, DownIsEmpty, Worker!Scheduled, Worker!Asleep
  <2>2. PollsAdvance' /\ JobsCurrent' /\ NothingYet'
    BY <1>0, <1>5 DEF Worker!Fail, PollsAdvance, JobsCurrent, NothingYet, Worker!Scheduled, Worker!Asleep
  <2> QED BY <2>1, <2>2
<1>6. ASSUME NEW p \in Worker!Coroutines, Worker!Apply(p) PROVE Rest'
  <2>1. PICK bs \in SUBSET Bots, st \in Nat : bs = rec[p].bots /\ st = rec[p].stamp
    BY <1>0 DEF Worker!Reconcile
  <2>2. Worker!Scheduled' = bs
    BY <1>0, <1>6, <2>1 DEF Worker!Apply, Worker!Scheduled
  <2>3. /\ applied' = st /\ st <= edits /\ (st = edits => bs = ActiveBots)
    BY <1>0, <1>6, <2>1 DEF Worker!Apply, PollsAdvance
  <2>4. /\ rec' = [rec EXCEPT ![p] = Worker!Asleep]
        /\ UNCHANGED <<ActiveBots, edits, up, running, crashes>>
    BY <1>6 DEF Worker!Apply
  <2>5. \A q \in Worker!Coroutines : rec'[q].pc = "idle"
    BY <1>0, <1>6, <2>4 DEF Worker!Apply, OneReconcile, Worker!Asleep
  <2>6. up
    BY <1>0, <1>6 DEF Worker!Apply, DownIsEmpty
  <2> QED BY <1>0, <2>2, <2>3, <2>4, <2>5, <2>6
          DEF OneReconcile, DownIsEmpty, PollsAdvance, JobsCurrent, NothingYet
<1>7. ASSUME NEW b \in Bots, Worker!EndTick(b) PROVE Rest'
  BY <1>0, <1>7 DEF Worker!EndTick, OneReconcile, DownIsEmpty, PollsAdvance, JobsCurrent,
                    NothingYet, Worker!Scheduled
<1>8. ASSUME Worker!Crash PROVE Rest'
  <2>1. Worker!Scheduled' = {}
    BY <1>8 DEF Worker!Crash, Worker!Scheduled
  <2> QED BY <1>0, <1>8, <2>1 DEF Worker!Crash, OneReconcile, DownIsEmpty, PollsAdvance, JobsCurrent,
                                  NothingYet, Worker!Asleep
<1>9. ASSUME UNCHANGED Worker!vars PROVE Rest'
  BY <1>0, <1>9 DEF Worker!vars, OneReconcile, DownIsEmpty, PollsAdvance, JobsCurrent,
                    NothingYet, Worker!Scheduled
<1>10. Rest'
  BY <1>1, <1>2, <1>3, <1>4, <1>5, <1>6, <1>7, <1>8, <1>9 DEF Worker!Next, Worker!WorkerNext
<1> QED BY <1>T, <1>10 DEF SchedulerInv

(***************************************************************************)
(* The worker's state is well typed, however slow its boot, whatever polls *)
(* fail and however often it is restarted.                                 *)
(***************************************************************************)
THEOREM WorkerTypeCorrect == Worker!Spec => []Worker!TypeOK
<1>1. Worker!Init => Worker!TypeOK
  BY SchedulerInitial DEF SchedulerInv
<1> QED BY <1>1, WorkerTypeStep, PTL DEF Worker!Spec

(***************************************************************************)
(* Unless main's first reconcile overlaps the job's, the jobs are exactly  *)
(* the active bots from the moment the last edit has been polled.          *)
(***************************************************************************)
THEOREM PolledEditsTakeEffect ==
    ASSUME ~SlowBoot PROVE Worker!Spec => []Worker!EditsTakeEffect
<1>1. SchedulerInv => Worker!EditsTakeEffect
  BY DEF SchedulerInv, JobsCurrent, Worker!EditsTakeEffect
<1> QED BY <1>1, SchedulerInitial, SchedulerStep, PTL DEF Worker!Spec

----------------------------------------------------------------------------
\* What the service does to the tables is a step of the endpoints, or none.
LEMMA EndpointSide ==
    ASSUME Worker!TypeOK, [ServiceNext]_serviceVars PROVE [Next]_vars
<1>1. ApiStep => Next
  BY DEF ApiStep, Next
<1>2. ASSUME TickTrades PROVE [Next]_vars
  <2>1. PICK b \in running : RecordTrade(b)
    BY <1>2 DEF TickTrades
  <2>2. b \in Bots
    BY DEF Worker!TypeOK
  <2> QED BY <2>1, <2>2 DEF Next
<1>3. WorkerStep \/ UNCHANGED serviceVars => UNCHANGED vars
  BY DEF WorkerStep, serviceVars, vars
<1> QED BY <1>1, <1>2, <1>3 DEF ServiceNext

\* What it does to the active bots is an edit for the worker.
LEMMA WorkerSide ==
    ASSUME Worker!TypeOK, [ServiceNext]_serviceVars PROVE [Worker!Next]_Worker!vars
<1> USE ServiceAssumption
<1>0. ActiveBots \in SUBSET Bots /\ ActiveBots' \in SUBSET Bots /\ edits \in Nat
  BY DEF ActiveBots, Worker!TypeOK
<1>1. CASE ApiStep
  <2>1. edits' <= MaxEdits /\ UNCHANGED Worker!workerVars
    BY <1>1 DEF ApiStep, Worker!workerVars
  <2>2. CASE ActiveBots' # ActiveBots
    <3>1. edits' = edits + 1
      BY <1>1, <2>2 DEF ApiStep
    <3>2. edits < MaxEdits
      BY <1>0, <2>1, <3>1
    <3>3. Worker!Edit
      BY <1>0, <2>1, <2>2, <3>1, <3>2 DEF Worker!Edit
    <3> QED BY <3>3 DEF Worker!Next
  <2>3. CASE ActiveBots' = ActiveBots
    BY <1>1, <2>1, <2>3 DEF ApiStep, Worker!vars, Worker!workerVars
  <2> QED BY <2>2, <2>3
<1>2. CASE TickTrades \/ UNCHANGED serviceVars
  <2>1. bots' = bots /\ UNCHANGED <<edits, up, wait, rec, running, applied, crashes>>
    BY <1>2 DEF TickTrades, RecordTrade, serviceVars
  <2>2. ActiveBots' = ActiveBots
    BY <2>1 DEF ActiveBots, Present
  <2> QED BY <2>1, <2>2 DEF Worker!vars
<1>3. WorkerStep => Worker!Next
  BY DEF WorkerStep, Worker!Next
<1> QED BY <1>1, <1>2, <1>3 DEF ServiceNext

LEMMA ServiceBoots == ServiceInit => Worker!Init
  BY DEF ServiceInit, Init, Worker!Init, ActiveBots, Present

LEMMA ServiceTypes == ServiceSpec => []Worker!TypeOK
<1>1. Worker!Init => Worker!TypeOK
  BY SchedulerInitial DEF SchedulerInv
<1>2. ASSUME Worker!TypeOK, [ServiceNext]_serviceVars PROVE Worker!TypeOK'
  <2>1. [Worker!Next]_Worker!vars
    BY <1>2, WorkerSide
  <2> QED BY <1>2, <2>1, WorkerTypeStep
<1>3. Worker!TypeOK /\ [ServiceNext]_serviceVars => Worker!TypeOK'
  BY <1>2
<1> QED BY <1>1, <1>3, ServiceBoots, PTL DEF ServiceSpec

(***************************************************************************)
(* The service, worker and all, implements the endpoints: what holds of    *)
(* them whatever trades are recorded holds of the service.                 *)
(***************************************************************************)
THEOREM ServiceImplementsApi == ServiceSpec => Spec
<1>1. ServiceInit => Init
  BY DEF ServiceInit
<1>2. Worker!TypeOK /\ [ServiceNext]_serviceVars => [Next]_vars
  BY EndpointSide
<1> QED BY <1>1, <1>2, ServiceTypes, PTL DEF ServiceSpec, Spec

(***************************************************************************)
(* The service implements Scheduler: the endpoints, however their          *)
(* requests race, do to the worker no more than edit its active bots.      *)
(***************************************************************************)
THEOREM ServiceImplementsScheduler == ServiceSpec => Worker!Spec
<1>1. Worker!TypeOK /\ [ServiceNext]_serviceVars => [Worker!Next]_Worker!vars
  BY WorkerSide
<1> QED BY <1>1, ServiceBoots, ServiceTypes, PTL DEF ServiceSpec, Worker!Spec

(***************************************************************************)
(* In the service, too, the jobs are the active bots of the table from the *)
(* moment the latest change of them has been polled.                       *)
(***************************************************************************)
THEOREM ServiceEditsTakeEffect ==
    ASSUME ~SlowBoot PROVE ServiceSpec => []Worker!EditsTakeEffect
  BY ServiceImplementsScheduler, PolledEditsTakeEffect, PTL

(***************************************************************************)
(* One request at a time, the column the worker polls agrees with the one  *)
(* the API answers with, whatever the worker does, and the service         *)
(* implements BotLifecycle.                                                *)
(***************************************************************************)
THEOREM ServiceColumnsAgree ==
    ASSUME OneAtATime PROVE ServiceSpec => []ActiveIffRunning /\ LifecycleSpec
  BY ServiceImplementsApi, SerialColumnsAgree, SerialRefinement, PTL

(***************************************************************************)
(* With both hypotheses, the jobs are the bots the API calls running from  *)
(* the moment the latest change has been polled.                           *)
(***************************************************************************)
THEOREM ServiceJobsFollowStatus ==
    ASSUME OneAtATime, ~SlowBoot PROVE ServiceSpec => []JobsFollowStatus
<1>1. TypeOK /\ ActiveIffRunning => ActiveBots = {b \in Bots : Life[b] = "running"}
  <2> SUFFICES ASSUME TypeOK, ActiveIffRunning, NEW b \in Bots
               PROVE  Present(b) /\ bots[b].active <=> Life[b] = "running"
    BY DEF ActiveBots
  <2>1. bots[b].state # "running"
    BY DEF TypeOK, Row
  <2> QED BY <2>1 DEF ActiveIffRunning, Life, Present
<1>2. TypeOK /\ ActiveIffRunning /\ Worker!EditsTakeEffect => JobsFollowStatus
  BY <1>1 DEF Worker!EditsTakeEffect, JobsFollowStatus
<1> QED BY <1>2, ServiceImplementsApi, TypeCorrect, ServiceColumnsAgree,
           ServiceEditsTakeEffect, PTL
=============================================================================
