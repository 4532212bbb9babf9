----------------------------- MODULE MCBacktest -----------------------------
(***************************************************************************)
(* Backtest on closes that take a position of a tenth of the equity over   *)
(* the daily limit, and to the targets of a grid of 20.                    *)
(***************************************************************************)
EXTENDS Backtest

MCCloses == {40, 80, 100, 120, 140}
=============================================================================
