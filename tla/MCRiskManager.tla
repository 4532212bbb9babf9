--------------------------- MODULE MCRiskManager ---------------------------
(***************************************************************************)
(* RiskManager on a small instance: an equity that is down by exactly the  *)
(* 5 % limit, and a zero balance; prices that move 3 % and 6 % from entry  *)
(* and lie below, at and above the position limit of 10 % of an equity.    *)
(***************************************************************************)
EXTENDS RiskManager

MCEquities == {0, 950, 1000}
MCPrices   == {94, 97, 100, 106}
============================================================================
