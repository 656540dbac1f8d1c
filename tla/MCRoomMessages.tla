--------------------------- MODULE MCRoomMessages ---------------------------
EXTENDS RoomMessages
CONSTANTS h, g1, g2, ann, bob, meg, m1, m2

MCHome == ann :> h @@ bob :> g1 @@ meg :> g2
MCAuthor == m1 :> bob @@ m2 :> meg
=============================================================================
