------------------------------ MODULE MCBotApi ------------------------------
(***************************************************************************)
(* BotApi with two users; one request at a time, or two or three           *)
(* concurrent ones.                                                        *)
(***************************************************************************)
EXTENDS BotApi

CONSTANTS u1, u2, b1, b2, r1, r2, r3

MCUsers == {u1, u2}
OneBot  == {b1}
TwoBots == {b1, b2}

OneRequest    == {r1}
TwoRequests   == {r1, r2}
ThreeRequests == {r1, r2, r3}
=============================================================================
