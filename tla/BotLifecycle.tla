---------------------------- MODULE BotLifecycle ----------------------------
(***************************************************************************)
(* What the bot endpoints promise, one call at a time: the life of a bot   *)
(* as test_bot_lifecycle_integration.py:52-90 walks through it.  A bot is  *)
(* created stopped; it can be started from any state, paused only while    *)
(* running, stopped from any state, and deleted for good.                  *)
(***************************************************************************)
CONSTANT Bots

VARIABLE life

States == {"absent", "stopped", "running", "paused", "deleted"}

Existing == {"stopped", "running", "paused"}

Init == life = [b \in Bots |-> "absent"]

Move(b, from, to) ==
    /\ life[b] \in from
    /\ life' = [life EXCEPT ![b] = to]

Create(b) == Move(b, {"absent"}, "stopped")
Start(b)  == Move(b, Existing, "running")
Pause(b)  == Move(b, {"running"}, "paused")
Stop(b)   == Move(b, Existing, "stopped")
Delete(b) == Move(b, Existing, "deleted")

Next == \E b \in Bots : Create(b) \/ Start(b) \/ Pause(b) \/ Stop(b) \/ Delete(b)

Spec == Init /\ [][Next]_life
=============================================================================
