---------------------------- MODULE MCScheduler ----------------------------
(***************************************************************************)
(* Scheduler with two bots whose ticks come every second reconcile cycle.  *)
(***************************************************************************)
EXTENDS Scheduler, TLC

CONSTANTS b1, b2

MCBots == {b1, b2}
OneBot == {b1}

BotSymmetry == Permutations(MCBots)
=============================================================================
