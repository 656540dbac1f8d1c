-------------------------- MODULE MCFriendRequest --------------------------
(* FriendRequest on small instances: requests that cross between a and b. *)
EXTENDS FriendRequest

CONSTANTS a, b, r1, r2

MCIssuer == [i \in Requests |-> IF i = r1 THEN a ELSE b]
MCTarget == [i \in Requests |-> IF i = r1 THEN b ELSE a]
=============================================================================
