---------------------------- MODULE MCBotService ----------------------------
(***************************************************************************)
(* BotService with one or two bots of one user, and one or two requests in *)
(* flight.                                                                 *)
(***************************************************************************)
EXTENDS BotService

CONSTANTS u1, b1, b2, r1, r2

OneUser     == {u1}
OneBot      == {b1}
TwoBots     == {b1, b2}
OneRequest  == {r1}
TwoRequests == {r1, r2}
=============================================================================
