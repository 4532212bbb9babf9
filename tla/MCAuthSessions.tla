--------------------------- MODULE MCAuthSessions ---------------------------
(***************************************************************************)
(* AuthSessions with two addresses and two handlers; an access token is    *)
(* good for the unit of the clock it is minted in, a refresh token for one *)
(* more.                                                                   *)
(***************************************************************************)
EXTENDS AuthSessions, TLC

CONSTANTS ann, bob, r1, r2

TwoEmails   == {ann, bob}
TwoRequests == {r1, r2}

Symmetry == Permutations(Emails) \cup Permutations(Requests)
=============================================================================
