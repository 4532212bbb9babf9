----------------------------- MODULE Scheduler -----------------------------
(***************************************************************************)
(* The worker process (backend/app/workers/scheduler.py): an APScheduler   *)
(* whose "reconcile" job makes the set of bot jobs equal to the bots that  *)
(* are active in the database, and whose bot jobs start run_bot_tick.      *)
(*                                                                         *)
(* reconcile awaits once, in _fetch_active_bots: the query may be answered *)
(* long before its result is applied.  It runs in two coroutines: the job  *)
(* (APScheduler runs at most one instance of a job) and main, once.        *)
(*                                                                         *)
(* Time passes in steps of RECONCILE_INTERVAL_SECONDS.                     *)
(***************************************************************************)
EXTENDS Naturals

CONSTANTS
    Bots,         \* bot ids
    TickCycles,   \* DEFAULT_TICK_INTERVAL_SECONDS \div RECONCILE_INTERVAL_SECONDS
    SlowBoot,     \* may main's reconcile outlast the first interval?
    MaxEdits,     \* bound: changes of the set of active bots
    MaxCrashes    \* bound: restarts of the worker

ASSUME SchedulerAssumption ==
    /\ TickCycles \in Nat \ {0}
    /\ SlowBoot \in BOOLEAN
    /\ MaxEdits \in Nat
    /\ MaxCrashes \in Nat

VARIABLES
    active,    \* the bots with is_active in the database
    edits,     \* history: how often active has changed
    up,        \* is the worker process running?
    wait,      \* per bot, cycles until its job runs next; 0: it has no job
    rec,       \* the two coroutines of reconcile
    running,   \* bots with an execution of run_bot_tick in flight
    applied,   \* history: the latest state of active applied since the boot
    crashes    \* crashes so far

workerVars == <<up, wait, rec, running, applied, crashes>>

vars == <<active, edits, up, wait, rec, running, applied, crashes>>

Coroutines == {"main", "job"}

Reconcile == [pc : {"idle", "fetching", "fetched"}, bots : SUBSET Bots, stamp : Nat]

TypeOK ==
    /\ active \in SUBSET Bots
    /\ edits \in Nat
    /\ up \in BOOLEAN
    /\ wait \in [Bots -> 0 .. TickCycles]
    /\ rec \in [Coroutines -> Reconcile]
    /\ running \in SUBSET Bots
    /\ applied \in Nat
    /\ crashes \in Nat

Asleep == [pc |-> "idle", bots |-> {}, stamp |-> 0]

Fetching == [pc |-> "fetching", bots |-> {}, stamp |-> 0]

\* The ids of the scheduler's bot jobs.
Scheduled == {b \in Bots : wait[b] > 0}

WorkerInit ==
    /\ edits = 0
    /\ up = FALSE
    /\ wait = [b \in Bots |-> 0]
    /\ rec = [p \in Coroutines |-> Asleep]
    /\ running = {}
    /\ applied = 0
    /\ crashes = 0

Init == WorkerInit /\ active = {}

----------------------------------------------------------------------------
\* The API starts, pauses, stops or deletes bots.
Edit ==
    /\ edits < MaxEdits
    /\ edits' = edits + 1
    /\ active' \in (SUBSET Bots) \ {active}
    /\ UNCHANGED workerVars

\* main: the reconcile job is added, the scheduler started, and main
\* reconciles at once.
Boot ==
    /\ ~up
    /\ up' = TRUE
    /\ rec' = [rec EXCEPT !["main"] = Fetching]
    /\ UNCHANGED <<active, edits, wait, running, applied, crashes>>

\* Wrong: the reconcile job is never scheduled.
ElapseWithoutReconcile ==
    /\ up
    /\ running' = running \cup {b \in Bots : wait[b] = 1}
    /\ wait' = [b \in Bots |-> IF wait[b] = 1 THEN TickCycles
                               ELSE IF wait[b] = 0 THEN 0 ELSE wait[b] - 1]
    /\ UNCHANGED <<active, edits, up, rec, applied, crashes>>

(***************************************************************************)
(* RECONCILE_INTERVAL_SECONDS pass.  The jobs that fall due are started,   *)
(* unless an instance of them is still running.                            *)
(***************************************************************************)
Elapse ==
    /\ up
    /\ rec["main"].pc # "idle" => SlowBoot
    /\ rec' = [rec EXCEPT !["job"] = IF @.pc = "idle" THEN Fetching ELSE @]
    /\ running' = running \cup {b \in Bots : wait[b] = 1}
    /\ wait' = [b \in Bots |-> IF wait[b] = 1 THEN TickCycles
                               ELSE IF wait[b] = 0 THEN 0 ELSE wait[b] - 1]
    /\ UNCHANGED <<active, edits, up, applied, crashes>>

\* The database answers the query of _fetch_active_bots.
Read(p) ==
    /\ rec[p].pc = "fetching"
    /\ rec' = [rec EXCEPT ![p] = [pc |-> "fetched", bots |-> active, stamp |-> edits]]
    /\ UNCHANGED <<active, edits, up, wait, running, applied, crashes>>

\* Wrong: a failed query counts as "no active bots".
FailClears(p) ==
    /\ rec[p].pc # "idle"
    /\ rec' = [rec EXCEPT ![p] = Asleep]
    /\ wait' = [b \in Bots |-> 0]
    /\ UNCHANGED <<active, edits, up, running, applied, crashes>>

\* _fetch_active_bots raises: existing jobs are left untouched.
Fail(p) ==
    /\ rec[p].pc # "idle"
    /\ rec' = [rec EXCEPT ![p] = Asleep]
    /\ UNCHANGED <<active, edits, up, wait, running, applied, crashes>>

\* Wrong: jobs of inactive bots stay.
ApplyAddsOnly(p) ==
    /\ rec[p].pc = "fetched"
    /\ wait' = [b \in Bots |-> IF b \in Scheduled \/ b \notin rec[p].bots THEN wait[b]
                               ELSE TickCycles]
    /\ applied' = IF rec[p].stamp > applied THEN rec[p].stamp ELSE applied
    /\ rec' = [rec EXCEPT ![p] = Asleep]
    /\ UNCHANGED <<active, edits, up, running, crashes>>

\* Wrong: the jobs of active bots are replaced, timers and all.
ApplyReplacesAll(p) ==
    /\ rec[p].pc = "fetched"
    /\ wait' = [b \in Bots |-> IF b \in rec[p].bots THEN TickCycles ELSE 0]
    /\ applied' = IF rec[p].stamp > applied THEN rec[p].stamp ELSE applied
    /\ rec' = [rec EXCEPT ![p] = Asleep]
    /\ UNCHANGED <<active, edits, up, running, crashes>>

\* The rest of reconcile: jobs of inactive bots are removed, active bots
\* without a job get one, the other jobs keep their timers.
Apply(p) ==
    /\ rec[p].pc = "fetched"
    /\ wait' = [b \in Bots |-> IF b \notin rec[p].bots THEN 0
                               ELSE IF b \in Scheduled THEN wait[b]
                               ELSE TickCycles]
    /\ applied' = IF rec[p].stamp > applied THEN rec[p].stamp ELSE applied
    /\ rec' = [rec EXCEPT ![p] = Asleep]
    /\ UNCHANGED <<active, edits, up, running, crashes>>

\* run_bot_tick returns or raises; removing a job does not cut its tick short.
EndTick(b) ==
    /\ b \in running
    /\ running' = running \ {b}
    /\ UNCHANGED <<active, edits, up, wait, rec, applied, crashes>>

\* The process dies, and with it every job and tick.
Crash ==
    /\ up
    /\ crashes < MaxCrashes
    /\ crashes' = crashes + 1
    /\ up' = FALSE
    /\ wait' = [b \in Bots |-> 0]
    /\ rec' = [p \in Coroutines |-> Asleep]
    /\ running' = {}
    /\ applied' = 0
    /\ UNCHANGED <<active, edits>>

WorkerNext ==
    \/ Boot
    \/ Elapse
    \/ \E p \in Coroutines : Read(p) \/ Fail(p) \/ Apply(p)
    \/ \E b \in Bots : EndTick(b)
    \/ Crash

Next == Edit \/ WorkerNext

Spec == Init /\ [][Next]_vars

(***************************************************************************)
(* Fairness.  The clock of a running worker runs, and whatever it awaits   *)
(* returns or raises, a tick included.  Nothing in docker-compose.yml      *)
(* starts the worker again after a crash: it may stay down.                *)
(***************************************************************************)
Fairness ==
    /\ WF_vars(Elapse)
    /\ \A p \in Coroutines : WF_vars(Read(p) \/ Fail(p) \/ Apply(p))
    /\ \A b \in Bots : WF_vars(EndTick(b))

FairSpec == Spec /\ Fairness

\* After every crash, somebody starts the worker again.
WorkerReturns == []<>up

\* A query that is asked again and again is answered in the end.
DatabaseAnswers ==
    \A p \in Coroutines : SF_vars(Read(p)) /\ SF_vars(Apply(p))

----------------------------------------------------------------------------
(***************************************************************************)
(* Starting or stopping a bot "takes effect here within one reconcile      *)
(* cycle" (scheduler.py:7-9): once the present state of the database has   *)
(* been applied, the jobs are the active bots, until the next edit.        *)
(***************************************************************************)
EditsTakeEffect == up /\ applied = edits => Scheduled = active

(***************************************************************************)
(* However edits, failing queries and restarts interleave, the jobs end up *)
(* being the active bots (scheduler.py:5-7), unless the worker stays down  *)
(* or the database never answers.                                          *)
(***************************************************************************)
Converges == WorkerReturns /\ DatabaseAnswers => <>[](Scheduled = active)

(***************************************************************************)
(* A bot that has been stopped for good stops ticking for good, unless the *)
(* database never answers (scheduler.py:47-48).                            *)
(***************************************************************************)
StoppedBotsFallSilent ==
    DatabaseAnswers =>
        \A b \in Bots : <>[](b \notin active) => <>[](b \notin running)

(***************************************************************************)
(* A bot with a job is ticked again and again, even if the database never  *)
(* answers: a failed reconcile leaves "existing jobs untouched"            *)
(* (scheduler.py:41), a successful one leaves their timers alone           *)
(* (scheduler.py:53-54).                                                   *)
(***************************************************************************)
ScheduledBotsTick ==
    \A b \in Bots : <>[](b \in Scheduled) => []<>(b \in running)
=============================================================================
