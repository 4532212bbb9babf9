----------------------------- MODULE BotService -----------------------------
(***************************************************************************)
(* The bot endpoints and the worker together: BotApi writes the bots       *)
(* table, the Scheduler of the worker polls its is_active column.  The two *)
(* processes share nothing else.                                           *)
(***************************************************************************)
EXTENDS BotApi

CONSTANTS
    TickCycles, SlowBoot, MaxEdits, MaxCrashes   \* see Scheduler

ASSUME ServiceAssumption ==
    /\ TickCycles \in Nat \ {0}
    /\ SlowBoot \in BOOLEAN
    /\ MaxEdits \in Nat
    /\ MaxCrashes \in Nat

VARIABLES
    edits, up, wait, rec, running, applied, crashes   \* see Scheduler

\* Wrong: the filter on is_active is missing.
AllBots == {b \in Bots : Present(b)}

\* select(Bot).where(Bot.is_active.is_(True))
ActiveBots == {b \in Bots : Present(b) /\ bots[b].active}

Worker == INSTANCE Scheduler WITH active <- ActiveBots

serviceVars == <<bots, traded, req, edits, up, wait, rec, running, applied, crashes>>

ServiceInit == Init /\ Worker!WorkerInit

\* A step of a request; the worker finds out later.
ApiStep ==
    /\ \E r \in Requests : RequestStep(r)
    /\ edits' = IF ActiveBots' # ActiveBots THEN edits + 1 ELSE edits
    /\ edits' <= MaxEdits
    /\ UNCHANGED <<up, wait, rec, running, applied, crashes>>

\* Ticks in flight may trade.
TickTrades ==
    /\ \E b \in running : RecordTrade(b)
    /\ UNCHANGED <<edits, up, wait, rec, running, applied, crashes>>

WorkerStep ==
    /\ UNCHANGED <<bots, traded, req>>
    /\ Worker!WorkerNext

ServiceNext == ApiStep \/ TickTrades \/ WorkerStep

(***************************************************************************)
(* The worker's fairness (Scheduler!FairSpec), with the tables unchanged,  *)
(* and a database that answers in the end (Scheduler!DatabaseAnswers).     *)
(* Users need not do anything, so the endpoints have none.                 *)
(***************************************************************************)
Quietly(A) == UNCHANGED <<bots, traded, req>> /\ A

ServiceFairness ==
    /\ WF_serviceVars(Quietly(Worker!Elapse))
    /\ \A p \in Worker!Coroutines :
          /\ WF_serviceVars(Quietly(Worker!Read(p) \/ Worker!Fail(p) \/ Worker!Apply(p)))
          /\ SF_serviceVars(Quietly(Worker!Read(p)))
          /\ SF_serviceVars(Quietly(Worker!Apply(p)))
    /\ \A b \in Bots : WF_serviceVars(Quietly(Worker!EndTick(b)))

ServiceSpec == ServiceInit /\ [][ServiceNext]_serviceVars /\ ServiceFairness

----------------------------------------------------------------------------
(***************************************************************************)
(* One request at a time, a poll that saw the latest change gives a job to *)
(* the bots the API calls running and to no others, until the next change: *)
(* starting or stopping a bot "takes effect here within one reconcile      *)
(* cycle" (scheduler.py:7-9), although the poll looks at is_active and the *)
(* API answers with status (models.py:63-65).                              *)
(***************************************************************************)
JobsFollowStatus ==
    up /\ applied = edits => Worker!Scheduled = {b \in Bots : Life[b] = "running"}

(***************************************************************************)
(* A bot whose owner leaves it stopped, paused or deleted, as its status   *)
(* column says, does not tick for ever: "/stop ... is a full teardown"     *)
(* (routes_bots.py:114-117), although the worker looks at another column.  *)
(***************************************************************************)
StatusSilences ==
    \A b \in Bots : <>[](Life[b] # "running") => <>[](b \notin running)

(***************************************************************************)
(* A bot that stays "running" keeps ticking (routes_bots.py:96-99,         *)
(* scheduler.py:5-9), whatever restarts and failing polls come between,    *)
(* unless the worker stays down.                                           *)
(***************************************************************************)
StatusTicks ==
    Worker!WorkerReturns =>
        \A b \in Bots : <>[](Life[b] = "running") => []<>(b \in running)
=============================================================================
