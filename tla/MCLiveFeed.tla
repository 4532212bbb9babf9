----------------------------- MODULE MCLiveFeed -----------------------------
(***************************************************************************)
(* LiveFeed with two dashboards, one of which may reconnect.               *)
(***************************************************************************)
EXTENDS LiveFeed

CONSTANTS c1, c2

TwoClients == {c1, c2}
Connects   == [c \in Clients |-> IF c = c1 THEN 2 ELSE 1]
=============================================================================
