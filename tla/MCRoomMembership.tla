-------------------------- MODULE MCRoomMembership --------------------------
(* RoomMembership on small instances: ann, bob and cat at the host h, the    *)
(* others at the mirrors g and k.                                           *)
EXTENDS RoomMembership

CONSTANTS h, g1, g2, ann, bob, cat, meg, ned

MCHome == [u \in Users |-> IF u = meg THEN g1 ELSE IF u = ned THEN g2 ELSE h]
=============================================================================
