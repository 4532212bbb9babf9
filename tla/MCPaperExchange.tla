-------------------------- MODULE MCPaperExchange --------------------------
(***************************************************************************)
(* PaperExchange with one or two coins at prices of one or two units.      *)
(***************************************************************************)
EXTENDS PaperExchange

CONSTANTS btc, eth, v1, v2

OneCoin  == {btc}
TwoCoins == {btc, eth}

OneValuation  == {v1}
TwoValuations == {v1, v2}
=============================================================================
