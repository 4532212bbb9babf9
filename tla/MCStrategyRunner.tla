-------------------------- MODULE MCStrategyRunner --------------------------
(***************************************************************************)
(* StrategyRunner on small instances: two bots that trade the same symbol  *)
(* through one account, equities on both sides of the 5 % limit, one       *)
(* price, at which either equity affords one or two units.                 *)
(***************************************************************************)
EXTENDS StrategyRunner, TLC

CONSTANTS b1, b2, t1, t2

MCBots     == {b1, b2}
MCTicks    == {t1, t2}
MCSymbolOf == [b \in Bots |-> "BTC/USDT"]
MCEquities == {940, 1000}
MCPrices   == {47}

MCOneEquity == {1000}

MCPaperBots == [b \in Bots |-> "paper"]
MCLiveBots  == [b \in Bots |-> "live"]
MCMixedBots == [b \in Bots |-> IF b = b1 THEN "paper" ELSE "live"]

Symmetry == Permutations(Bots) \cup Permutations(Ticks)
=============================================================================
