-------------------------- MODULE MCRelayDelivery --------------------------
(* RelayDelivery on small instances. *)
EXTENDS RelayDelivery

CONSTANTS m1, m2, gw, ann, bob, s1

MCTries  == 1..MaxTries
MCNonces == Msgs \X MCTries
\* Both messages to bob, or the first to ann.
DestBob  == [m \in Msgs |-> bob]
DestBoth == [m \in Msgs |-> IF m = m1 THEN ann ELSE bob]
MCOwner  == [s \in Socks |-> bob]
=============================================================================
