------------------------------- MODULE BotApi -------------------------------
(***************************************************************************)
(* The bot endpoints (backend/app/api/v1/routes_bots.py) over the bots     *)
(* table.  Requests are handled concurrently in one event loop; a handler  *)
(* is split at its database round trips: it loads the caller's bot, then   *)
(* commits its change, then refreshes the bot for the response.            *)
(*                                                                         *)
(* SQLAlchemy writes only the columns whose value differs from what the    *)
(* session loaded: two handlers that loaded the same row may each write a  *)
(* different part of it.  An UPDATE that finds no row raises.              *)
(***************************************************************************)
EXTENDS Naturals

CONSTANTS
    Bots,      \* bot ids, each used for at most one bot
    Users,     \* authenticated users
    Requests   \* requests that may be in flight at the same time

ASSUME ApiAssumption == Bots # {} /\ Users # {}

VARIABLES
    bots,      \* the bots table
    traded,    \* bots with rows in the trades table
    req        \* the handlers in flight

vars == <<bots, traded, req>>

Ops == {"create", "start", "pause", "stop", "delete"}

Statuses == {"stopped", "running", "paused"}

Row == [state  : {"absent", "present", "deleted"},
        owner  : Users,
        active : BOOLEAN,
        status : Statuses]

Handler == [pc     : {"idle", "loaded", "refresh"},
            op     : Ops,
            user   : Users,
            bot    : Bots,
            active : BOOLEAN,     \* is_active as the session loaded it
            status : Statuses]    \* status as the session loaded it

TypeOK ==
    /\ bots \in [Bots -> Row]
    /\ traded \in SUBSET Bots
    /\ req \in [Requests -> Handler]

Present(b) == bots[b].state = "present"

AnyUser == CHOOSE u \in Users : TRUE

Idle == [pc |-> "idle", op |-> "create", user |-> AnyUser, bot |-> CHOOSE b \in Bots : TRUE,
         active |-> FALSE, status |-> "stopped"]

Init ==
    /\ bots = [b \in Bots |-> [state |-> "absent", owner |-> AnyUser,
                               active |-> FALSE, status |-> "stopped"]]
    /\ traded = {}
    /\ req = [r \in Requests |-> Idle]

----------------------------------------------------------------------------
\* Wrong: stop leaves is_active alone.
AssignedStopActive(op) ==
    IF op = "pause" THEN [active |-> FALSE, status |-> "paused"]
    ELSE [active |-> TRUE, status |-> IF op = "start" THEN "running" ELSE "stopped"]

\* The columns a handler assigns to the bot it loaded.
Assigned(op) ==
    IF op = "start" THEN [active |-> TRUE,  status |-> "running"]
    ELSE IF op = "pause" THEN [active |-> FALSE, status |-> "paused"]
    ELSE [active |-> FALSE, status |-> "stopped"]

\* Wrong: the new row has no status.
CreateWithoutStatus(r, u, b) ==
    /\ req[r].pc = "idle"
    /\ bots[b].state = "absent"
    /\ bots' = [bots EXCEPT ![b] = [state |-> "present", owner |-> u,
                                    active |-> FALSE, status |-> "null"]]
    /\ UNCHANGED <<traded, req>>

\* create_bot: the INSERT, with a fresh id.
Create(r, u, b) ==
    /\ req[r].pc = "idle"
    /\ bots[b].state = "absent"
    /\ bots' = [bots EXCEPT ![b] = [state |-> "present", owner |-> u,
                                    active |-> FALSE, status |-> "stopped"]]
    /\ req' = [req EXCEPT ![r] = [Idle EXCEPT !.pc = "refresh", !.op = "create",
                                              !.user = u, !.bot = b]]
    /\ UNCHANGED traded

\* Wrong: any user's bot is found.
LoadAnyBot(r, op, u, b) ==
    /\ req[r].pc = "idle"
    /\ Present(b)
    /\ req' = [req EXCEPT ![r] = [pc |-> "loaded", op |-> op, user |-> u, bot |-> b,
                                  active |-> bots[b].active, status |-> bots[b].status]]
    /\ UNCHANGED <<bots, traded>>

\* Wrong: a bot in any state can be paused.
LoadToPauseAnything(r, op, u, b) == LoadAnyBot(r, op, u, b) /\ bots[b].owner = u

\* _get_owned_bot finds the caller's bot, and pause finds it running; on a
\* 404 or a 400 the request ends without a trace.
Load(r, op, u, b) ==
    /\ req[r].pc = "idle"
    /\ Present(b) /\ bots[b].owner = u
    /\ op = "pause" => bots[b].status = "running"
    /\ req' = [req EXCEPT ![r] = [pc |-> "loaded", op |-> op, user |-> u, bot |-> b,
                                  active |-> bots[b].active, status |-> bots[b].status]]
    /\ UNCHANGED <<bots, traded>>

\* The row after the UPDATE of the columns that differ from the loaded ones.
Written(row, h) ==
    LET new == Assigned(h.op)
    IN  [row EXCEPT !.active = IF new.active # h.active THEN new.active ELSE @,
                    !.status = IF new.status # h.status THEN new.status ELSE @]

Dirty(h) == Assigned(h.op) # [active |-> h.active, status |-> h.status]

\* Wrong: the UPDATE inserts the row when it is gone.
CommitUpsert(r) ==
    /\ req[r].pc = "loaded" /\ req[r].op # "delete"
    /\ bots' = [bots EXCEPT ![req[r].bot] = [Written(@, req[r]) EXCEPT !.state = "present"]]
    /\ req' = [req EXCEPT ![r].pc = "refresh"]
    /\ UNCHANGED traded

\* start_bot, pause_bot and stop_bot commit.
CommitUpdate(r) ==
    LET h == req[r] IN
    /\ h.pc = "loaded" /\ h.op # "delete"
    /\ Present(h.bot) \/ ~Dirty(h)
    /\ bots' = [bots EXCEPT ![h.bot] = IF Dirty(h) THEN Written(@, h) ELSE @]
    /\ req' = [req EXCEPT ![r].pc = "refresh"]
    /\ UNCHANGED traded

\* The UPDATE matches no row: StaleDataError, the request fails.
CommitStale(r) ==
    /\ req[r].pc = "loaded" /\ req[r].op # "delete"
    /\ ~Present(req[r].bot) /\ Dirty(req[r])
    /\ req' = [req EXCEPT ![r] = Idle]
    /\ UNCHANGED <<bots, traded>>

\* Wrong: no foreign key keeps a bot with trades.
CommitDeleteAnyway(r) ==
    /\ req[r].pc = "loaded" /\ req[r].op = "delete"
    /\ bots' = [bots EXCEPT ![req[r].bot].state = "deleted"]
    /\ req' = [req EXCEPT ![r] = Idle]
    /\ UNCHANGED traded

\* delete_bot commits: a bot with trades is kept by their foreign key and the
\* request fails; deleting what is already gone changes nothing.
CommitDelete(r) ==
    LET b == req[r].bot IN
    /\ req[r].pc = "loaded" /\ req[r].op = "delete"
    /\ bots' = IF b \notin traded THEN [bots EXCEPT ![b].state = "deleted"] ELSE bots
    /\ req' = [req EXCEPT ![r] = Idle]
    /\ UNCHANGED traded

\* db.refresh and the response; it raises when the row has been deleted.
Refresh(r) ==
    /\ req[r].pc = "refresh"
    /\ req' = [req EXCEPT ![r] = Idle]
    /\ UNCHANGED <<bots, traded>>

\* The worker records a trade of the bot; the foreign key needs its row.
RecordTrade(b) ==
    /\ Present(b)
    /\ b \notin traded
    /\ traded' = traded \cup {b}
    /\ UNCHANGED <<bots, req>>

RequestStep(r) ==
    \/ \E u \in Users, b \in Bots : Create(r, u, b)
    \/ \E op \in Ops \ {"create"}, u \in Users, b \in Bots : Load(r, op, u, b)
    \/ CommitUpdate(r)
    \/ CommitStale(r)
    \/ CommitDelete(r)
    \/ Refresh(r)

Next ==
    \/ \E r \in Requests : RequestStep(r)
    \/ \E b \in Bots : RecordTrade(b)

Spec == Init /\ [][Next]_vars

----------------------------------------------------------------------------
(***************************************************************************)
(* A bot with trades keeps its row: the ledger never refers to a bot that  *)
(* is gone (models.py:76, routes_bots.py:142-150).                         *)
(***************************************************************************)
TradesPinBot == \A b \in traded : Present(b)

(***************************************************************************)
(* Only a request of the owner changes a bot, and ownership never moves    *)
(* (routes_bots.py:67-77).                                                 *)
(***************************************************************************)
OnlyOwnerChanges ==
    [][\A b \in Bots :
          bots'[b] # bots[b] /\ bots[b].state # "absent" =>
              /\ bots'[b].owner = bots[b].owner
              /\ \E r \in Requests :
                    req[r].pc = "loaded" /\ req[r].bot = b /\ req[r].user = bots[b].owner]_vars

(***************************************************************************)
(* A deleted bot never comes back, whatever requests were in flight when   *)
(* it was deleted: a late UPDATE fails instead of inserting.               *)
(***************************************************************************)
NoResurrection ==
    [][\A b \in Bots : bots[b].state = "deleted" => bots'[b] = bots[b]]_vars

(***************************************************************************)
(* A handler whose bot has not changed since it was loaded leaves it       *)
(* exactly as its endpoint says (routes_bots.py:101-102, 121-122,          *)
(* 135-136), even if earlier races left the two columns inconsistent.      *)
(***************************************************************************)
UnracedCommitTakes ==
    [][\A r \in Requests :
          LET h == req[r] IN
          (/\ h.pc = "loaded" /\ req'[r].pc = "refresh"
           /\ Present(h.bot)
           /\ bots[h.bot].active = h.active /\ bots[h.bot].status = h.status)
          => /\ bots'[h.bot].active = (h.op = "start")
             /\ bots'[h.bot].status = (IF h.op = "start" THEN "running"
                                       ELSE IF h.op = "pause" THEN "paused"
                                       ELSE "stopped")]_vars

(***************************************************************************)
(* The two columns agree: exactly the running bots are active.  The worker *)
(* reads is_active, the API answers with status.                           *)
(***************************************************************************)
ActiveIffRunning ==
    \A b \in Bots : Present(b) => (bots[b].active <=> bots[b].status = "running")

(***************************************************************************)
(* A stopped bot is not active: "stopped" is "fully torn down", and        *)
(* is_active filters "status != stopped" (models.py:62-64).                *)
(***************************************************************************)
StoppedIsInactive ==
    \A b \in Bots : Present(b) /\ bots[b].status = "stopped" => ~bots[b].active

(***************************************************************************)
(* is_active "is kept for simple filtering (status != stopped)"            *)
(* (models.py:62-64): a bot is active unless it is stopped.                *)
(***************************************************************************)
ActiveUnlessStopped ==
    \A b \in Bots : Present(b) => (bots[b].active <=> bots[b].status # "stopped")

(***************************************************************************)
(* A bot that has been stopped is not paused by a request that was still   *)
(* in flight: the API must "reject invalid transitions (e.g. pausing an    *)
(* already-stopped bot)" (test_bot_lifecycle_integration.py:54-55).        *)
(***************************************************************************)
PausedOnlyWhileRunning ==
    [][\A b \in Bots :
          bots'[b].status = "paused" => bots[b].status \in {"running", "paused"}]_vars

\* The life of a bot, as the status column tells it.
Life == [b \in Bots |-> IF Present(b) THEN bots[b].status ELSE bots[b].state]

Lifecycle == INSTANCE BotLifecycle WITH life <- Life

(***************************************************************************)
(* One request at a time, the endpoints implement BotLifecycle.            *)
(***************************************************************************)
LifecycleSpec == Lifecycle!Spec
=============================================================================
