-------------------------- MODULE MCRelayReceiver --------------------------
(* RelayReceiver on small instances. *)
EXTENDS RelayReceiver

CONSTANTS m0, m1, m2, m3, n1, n2, gw, ann, bob, s1, s2

\* All messages to one recipient, or the first to another, or all to the
\* gateway's own did.
DestBob    == [m \in Msgs |-> bob]
DestBoth   == [m \in Msgs |-> IF m = m0 THEN ann ELSE bob]
DestGw     == [m \in Msgs |-> gw]
OwnerBob   == [s \in Socks |-> bob]

Perms == Permutations(Msgs \ {m0}) \cup Permutations(Nonces)
=============================================================================
