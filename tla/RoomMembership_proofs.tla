----------------------- MODULE RoomMembership_proofs -----------------------
(***************************************************************************)
(* Of the rooms, for any gateways, users and bounds: nobody banned at the  *)
(* host is a member there, a mirror never takes itself for the host, the   *)
(* room is handed on only by its owner, and the mirrors end with what the  *)
(* host has.                                                               *)
(*                                                                         *)
(* What a mirror believes rests on what the host ever sends, so the        *)
(* invariant is about the queues first: every relay under way is one an    *)
(* honest host would send, and it stays that whatever order relays are     *)
(* taken in.  When they are taken in order, each leads from what a gateway *)
(* had been told before it to what it is told with it (Leads), the first   *)
(* from what the mirror shows (Sees), the last to what the host has        *)
(* (Current): the mirror follows (Follows).                                *)
(***************************************************************************)
EXTENDS RoomMembership, SequenceTheorems, TLAPS

-----------------------------------------------------------------------------
(* The invariant: types, and what is true of the relays under way and of    *)
(* the handlers that will send some.                                       *)

\* A new owner speaks for itself and is of the host; who vouches for an
\* answer is a user of the host; nobody bans themself.
Honest ==
    {r \in Relay :
       /\ r.act = "owner_changed" => r.by = r.who /\ Home[r.who] = Host
       /\ r.act = "admitted" => r.by \in Users /\ Home[r.by] = Host
       /\ r.act = "ban" => r.by # r.who}

DownOK == down \in [Mirrors -> Seq(Honest)]

\* What a handler under way still has to send.
BusyOK ==
    \A u \in Users :
      /\ busy[u].op = "banning" => busy[u].who \in Users \ {u}
      /\ busy[u].op \in {"lookup", "announcing"} =>
           busy[u].who \in Users /\ Home[busy[u].who] = Host

\* The members at the host are its own users, and so is every room's creator.
HostOK ==
    /\ \A u \in members[Host] : Home[u] = Host
    /\ \A g \in Gateways : Open(g) => Home[creator[g]] = Host

\* TypeOK by the tables that the steps write together.
RowsTyped ==
    /\ creator \in [Gateways -> MaybeUser]
    /\ members \in [Gateways -> SUBSET Users]
    /\ fed \in [Gateways -> SUBSET Users]
    /\ departed \in [Gateways -> SUBSET Users]
    /\ banned \in [Gateways -> SUBSET Users]
Op == {"idle", "leaving", "owner leaving", "banning", "deleting", "joining",
       "lookup", "announcing"}
Handler == [op : Op, who : MaybeUser, list : SUBSET Users]
HandlersTyped ==
    /\ busy \in [Users -> Handler]
    /\ evicting \in [Gateways -> SUBSET Users]
DeskTyped ==
    /\ admins \subseteq Users
    /\ offer \in [from : MaybeUser, to : MaybeUser]
    /\ uses \in 0 .. Uses
    /\ ignored \subseteq Mirrors \X Users
    /\ commands \in 0 .. MaxCommands

Base == TypeOK /\ DownOK /\ BusyOK /\ HostOK

-----------------------------------------------------------------------------
(* The queues.                                                             *)

LEMMA ToldOK ==
    ASSUME DownOK, NEW gs, NEW news \in Seq(Honest)
    PROVE  Told(gs, news) \in [Mirrors -> Seq(Honest)]
  BY ConcatProperties DEF DownOK, Told

LEMMA DownTold ==
    ASSUME DownOK, NEW gs, NEW news \in Seq(Honest), down' = Told(gs, news)
    PROVE  DownOK'
  BY ToldOK DEF DownOK

LEMMA DownKept ==
    ASSUME DownOK, UNCHANGED down
    PROVE  DownOK'
  BY DEF DownOK

LEMMA NewsHonest ==
    ASSUME NEW act \in {"kick", "ban", "unban", "member_joined", "member_left",
                        "delete_room"},
           NEW u \in Users, NEW by \in MaybeUser, act = "ban" => by # u
    PROVE  <<News(act, u, by)>> \in Seq(Honest)
<1>1. News(act, u, by) \in Honest
  BY DEF News, Honest, Relay
<1> QED
  BY <1>1

LEMMA WithoutOK ==
    ASSUME NEW S, NEW q \in Seq(S), NEW i \in 1 .. Len(q)
    PROVE  Without(q, i) \in Seq(S)
<1>1. SubSeq(q, 1, i - 1) \in Seq(S)
  BY LenProperties, SubSeqProperties
<1>2. SubSeq(q, i + 1, Len(q)) \in Seq(S)
  BY LenProperties, SubSeqProperties
<1> QED
  BY <1>1, <1>2, ConcatProperties DEF Without

\* A relay that is taken is one that was under way; the others stay.
LEMMA GetsOK ==
    ASSUME DownOK, NEW g \in Mirrors, NEW r, Gets(g, r)
    PROVE  r \in Honest /\ DownOK'
<1>1. PICK i \in Ready(down[g]) :
        down[g][i] = r /\ down' = [down EXCEPT ![g] = Without(@, i)]
  BY DEF Gets
<1>2. i \in 1 .. Len(down[g])
  BY <1>1 DEF Ready
<1>3. down[g] \in Seq(Honest)
  BY DEF DownOK
<1>4. r \in Honest
  BY <1>1, <1>2, <1>3, ElementOfSeq
<1>5. Without(down[g], i) \in Seq(Honest)
  BY <1>2, <1>3, WithoutOK
<1> QED
  BY <1>1, <1>4, <1>5 DEF DownOK

LEMMA ReachesOK ==
    ASSUME up \in [Mirrors -> Seq(Relay)], NEW g \in Mirrors, NEW r, Reaches(g, r)
    PROVE  r \in Relay /\ up' \in [Mirrors -> Seq(Relay)]
<1>1. PICK i \in Ready(up[g]) :
        up[g][i] = r /\ up' = [up EXCEPT ![g] = Without(@, i)]
  BY DEF Reaches
<1>2. i \in 1 .. Len(up[g])
  BY <1>1 DEF Ready
<1>3. up[g] \in Seq(Relay)
  OBVIOUS
<1>4. r \in Relay
  BY <1>1, <1>2, <1>3, ElementOfSeq
<1>5. Without(up[g], i) \in Seq(Relay)
  BY <1>2, <1>3, WithoutOK
<1> QED
  BY <1>1, <1>4, <1>5

\* Every step leaves only honest relays under way.
LEMMA DownStep ==
    ASSUME Base, Next
    PROVE  DownOK'
<1> USE RoomAssumption
<1>1. ASSUME NEW u \in Users, Join(u)  PROVE DownOK'
  <2>1. CASE u \in members[Host]
    BY <1>1, <2>1, DownKept DEF Join, Base
  <2>2. CASE u \notin members[Host]
    <3>1. <<News("member_joined", u, creator[Host])>> \in Seq(Honest)
      BY NewsHonest DEF Base, TypeOK
    <3>2. down' = Told(GatewaysOf(Visible(Host)),
                       <<News("member_joined", u, creator[Host])>>)
      BY <1>1, <2>2 DEF Join
    <3> QED
      BY <3>1, <3>2, DownTold DEF Base
  <2> QED
    BY <2>1, <2>2
<1>2. ASSUME NEW u \in Users, LeaveEnd(u)  PROVE DownOK'
  <2>1. <<News("member_left", u, creator[Host])>> \in Seq(Honest)
    BY NewsHonest DEF Base, TypeOK
  <2> QED
    BY <1>2, <2>1, DownTold, DownKept DEF LeaveEnd, Base
<1>3. ASSUME NEW u \in Users, OwnerLeaveEnd(u)  PROVE DownOK'
  <2>1. ASSUME NEW n \in Successors(u),
               down' = Told(GatewaysOf(Visible(Host)),
                 <<News("owner_changed", n, n), News("member_left", u, n)>>)
        PROVE  DownOK'
    <3>1. n \in Users /\ Home[n] = Host
      BY <2>1 DEF Successors, Base, TypeOK, HostOK
    <3>2. /\ News("owner_changed", n, n) \in Honest
          /\ News("member_left", u, n) \in Honest
      BY <3>1 DEF News, Honest, Relay, MaybeUser
    <3>3. <<News("owner_changed", n, n), News("member_left", u, n)>> \in Seq(Honest)
      BY <3>2
    <3> QED
      BY <2>1, <3>3, DownTold, DownKept DEF Base
  <2>2. <<News("member_left", u, u)>> \in Seq(Honest)
    BY NewsHonest DEF MaybeUser
  <2> QED
    BY <1>3, <2>1, <2>2, DownTold, DownKept DEF OwnerLeaveEnd, Base
<1>4. ASSUME NEW u \in Users, NEW t \in Users, Kick(u, t)  PROVE DownOK'
  <2>1. <<News("kick", t, u)>> \in Seq(Honest)
    BY NewsHonest DEF MaybeUser
  <2> QED
    BY <1>4, <2>1, DownTold, DownKept DEF Kick, Base
<1>5. ASSUME NEW u \in Users, BanEnd(u)  PROVE DownOK'
  <2>1. busy[u].who \in Users \ {u}
    BY <1>5 DEF BanEnd, Base, BusyOK
  <2>2. <<News("ban", busy[u].who, u)>> \in Seq(Honest)
    BY <2>1, NewsHonest DEF MaybeUser
  <2> QED
    BY <1>5, <2>2, DownTold, DownKept DEF BanEnd, Base
<1>6. ASSUME NEW u \in Users, NEW t \in Users, Unban(u, t)  PROVE DownOK'
  <2>1. <<News("unban", t, u)>> \in Seq(Honest)
    BY NewsHonest DEF MaybeUser
  <2> QED
    BY <1>6, <2>1, DownTold, DownKept DEF Unban, Base
<1>7. ASSUME NEW u \in Users, Accept(u)  PROVE DownOK'
  <2>1. Home[u] = Host
    BY <1>7 DEF Accept, Command
  <2>2. News("owner_changed", u, u) \in Honest
    BY <2>1 DEF News, Honest, Relay, MaybeUser
  <2>3. <<News("owner_changed", u, u)>> \in Seq(Honest)
    BY <2>2
  <2> QED
    BY <1>7, <2>3, DownTold, DownKept DEF Accept, Base
<1>8. ASSUME NEW u \in Users, DeleteEnd(u)  PROVE DownOK'
  <2>1. <<News("delete_room", u, u)>> \in Seq(Honest)
    BY NewsHonest DEF MaybeUser
  <2> QED
    BY <1>8, <2>1, DownTold, DownKept DEF DeleteEnd, Base
<1>9. ASSUME NEW u \in Users, Answer(u)  PROVE DownOK'
  <2> DEFINE answer == [act |-> "admitted", who |-> u, by |-> busy[u].who,
                        list |-> busy[u].list]
             told == Told(GatewaysOf(Visible(Host)) \ {Home[u]},
                          <<News("member_joined", u, busy[u].who)>>)
  <2>1. busy[u].who \in Users /\ Home[busy[u].who] = Host
    BY <1>9 DEF Answer, Base, BusyOK
  <2>2. busy[u].list \in SUBSET Users
    BY DEF Base, TypeOK
  <2>3. answer \in Honest
    BY <2>1, <2>2 DEF Honest, Relay, MaybeUser
  <2>4. told \in [Mirrors -> Seq(Honest)]
    BY <2>1, NewsHonest, ToldOK DEF Base, MaybeUser
  <2>5. down' = [told EXCEPT ![Home[u]] = Append(@, answer)]
    BY <1>9 DEF Answer
  <2> HIDE DEF told, answer
  <2>6. \A q \in Seq(Honest) : Append(q, answer) \in Seq(Honest)
    BY <2>3, AppendProperties
  <2> QED
    BY <2>4, <2>5, <2>6 DEF DownOK
<1>10. ASSUME NEW u \in Users, LosePost(u)  PROVE DownOK'
  <2>1. ASSUME NEW i \in 1 .. Len(down[Home[u]]),
               down' = [down EXCEPT ![Home[u]] = Without(@, i)]
        PROVE  DownOK'
    <3>1. CASE Home[u] \in Mirrors
      <4>1. down[Home[u]] \in Seq(Honest)
        BY <3>1 DEF Base, DownOK
      <4>2. Without(down[Home[u]], i) \in Seq(Honest)
        BY <4>1, WithoutOK
      <4> QED
        BY <2>1, <4>2 DEF Base, DownOK
    <3>2. CASE Home[u] \notin Mirrors
      BY <2>1, <3>2 DEF Base, DownOK
    <3> QED
      BY <3>1, <3>2
  <2>2. CASE UNCHANGED down
    BY <2>2 DEF Base, DownOK
  <2> QED
    BY <1>10, <2>1, <2>2 DEF LosePost
<1>11. ASSUME NEW g \in Mirrors, NEW r, HandleLeave(g, r)  PROVE DownOK'
  <2>0. r \in Relay
    BY <1>11, ReachesOK DEF HandleLeave, Base, TypeOK
  <2>1. r.who \in Users
    BY <2>0 DEF Relay
  <2>2. <<News("member_left", r.who, creator[Host])>> \in Seq(Honest)
    BY <2>1, NewsHonest DEF Base, TypeOK
  <2> QED
    BY <1>11, <2>2, DownTold, DownKept DEF HandleLeave, Base
<1>12. ASSUME NEW g \in Mirrors, NEW r, Gets(g, r)  PROVE DownOK'
  BY <1>12, GetsOK DEF Base
<1>13. CASE UNCHANGED down
  BY <1>13 DEF Base, DownOK
<1>14. CASE Finish
  BY <1>14, <1>2, <1>3, <1>5, <1>8, <1>9, <1>13
  DEF Finish, LeaveMirrorEnd, Admit, Evict
<1>15. CASE UserActs
  BY <1>15, <1>1, <1>4, <1>6, <1>7, <1>10, <1>13
  DEF UserActs, Leave, Decline, Delete, NewInvite, JoinRemote, Ban, SetRole, Offer
<1>16. CASE RelayTaken
  BY <1>16, <1>11, <1>12, <1>13
  DEF RelayTaken, LookUp, Admitted, HandleMemberJoined, HandleMemberLeft,
      HandleOwnerChanged, HandleDelete, HandleKick, HandleBan, HandleUnban
<1> QED
  BY <1>14, <1>15, <1>16 DEF Next

LEMMA UpStep ==
    ASSUME Base, Next
    PROVE  (up \in [Mirrors -> Seq(Relay)])'
<1> USE RoomAssumption
<1>1. ASSUME NEW u \in Users, NEW r \in Relay,
             up' = [up EXCEPT ![Home[u]] = Append(@, r)]
      PROVE  (up \in [Mirrors -> Seq(Relay)])'
  <2>1. \A q \in Seq(Relay) : Append(q, r) \in Seq(Relay)
    BY AppendProperties
  <2> QED
    BY <1>1, <2>1 DEF Base, TypeOK
<1>2. ASSUME NEW u \in Users, LosePost(u)
      PROVE  (up \in [Mirrors -> Seq(Relay)])'
  <2>1. ASSUME NEW i \in 1 .. Len(up[Home[u]]),
               up' = [up EXCEPT ![Home[u]] = Without(@, i)]
        PROVE  (up \in [Mirrors -> Seq(Relay)])'
    <3>1. CASE Home[u] \in Mirrors
      <4>1. up[Home[u]] \in Seq(Relay)
        BY <3>1 DEF Base, TypeOK
      <4>2. Without(up[Home[u]], i) \in Seq(Relay)
        BY <4>1, WithoutOK
      <4> QED
        BY <2>1, <4>2 DEF Base, TypeOK
    <3>2. CASE Home[u] \notin Mirrors
      BY <2>1, <3>2 DEF Base, TypeOK
    <3> QED
      BY <3>1, <3>2
  <2>2. CASE UNCHANGED up
    BY <2>2 DEF Base, TypeOK
  <2> QED
    BY <1>2, <2>1, <2>2 DEF LosePost
<1>3. ASSUME NEW u \in Users, NEW act \in {"leave", "join"}, NEW by \in MaybeUser
      PROVE  News(act, u, by) \in Relay
  BY DEF News, Relay
<1>4. ASSUME NEW g \in Mirrors, NEW r, Reaches(g, r)
      PROVE  (up \in [Mirrors -> Seq(Relay)])'
  BY <1>4, ReachesOK DEF Base, TypeOK
<1>5. CASE UNCHANGED up
  BY <1>5 DEF Base, TypeOK
<1>6. CASE Finish
  BY <1>6, <1>1, <1>3, <1>5
  DEF Finish, LeaveEnd, LeaveMirrorEnd, OwnerLeaveEnd, BanEnd, DeleteEnd, Admit,
      Answer, Evict, MaybeUser
<1>7. CASE UserActs
  BY <1>7, <1>1, <1>2, <1>3, <1>5
  DEF UserActs, Join, Leave, Accept, Decline, Delete, NewInvite, JoinRemote,
      Kick, Ban, Unban, SetRole, Offer, MaybeUser
<1>8. CASE RelayTaken
  <2>1. ASSUME NEW g \in Mirrors, NEW r, Gets(g, r)
        PROVE  (up \in [Mirrors -> Seq(Relay)])'
    BY <2>1, <1>5 DEF Gets
  <2>2. ASSUME NEW g \in Mirrors, NEW r, LookUp(g, r) \/ HandleLeave(g, r)
        PROVE  (up \in [Mirrors -> Seq(Relay)])'
    BY <2>2, <1>4 DEF LookUp, HandleLeave
  <2> QED
    BY <1>8, <2>1, <2>2
    DEF RelayTaken, Admitted, HandleMemberJoined, HandleMemberLeft,
        HandleOwnerChanged, HandleDelete, HandleKick, HandleBan, HandleUnban
<1> QED
  BY <1>6, <1>7, <1>8 DEF Next

-----------------------------------------------------------------------------
(* The tables stay typed.                                                  *)

LEMMA RowsStep ==
    ASSUME Base, Next
    PROVE  RowsTyped'
<1> USE RoomAssumption
<1>0. RowsTyped
  BY DEF Base, TypeOK, RowsTyped
<1>1. CASE UNCHANGED roomVars
  BY <1>0, <1>1 DEF RowsTyped, roomVars
<1>2. ASSUME NEW g \in Gateways, Drop(g)  PROVE RowsTyped'
  BY <1>0, <1>2 DEF RowsTyped, Drop, MaybeUser
<1>3. ASSUME NEW u \in Users, Remove(u), UNCHANGED creator,
             banned' \in [Gateways -> SUBSET Users]
      PROVE  RowsTyped'
  BY <1>0, <1>3 DEF RowsTyped, Remove, DropFed
<1>4. ASSUME NEW u \in Users, Join(u) \/ Leave(u)  PROVE RowsTyped'
  <2>1. Home[u] \in Gateways /\ UNCHANGED <<creator, fed, departed, banned>>
    BY <1>4 DEF Join, Leave
  <2>2. \/ members' = [members EXCEPT ![Host] = @ \cup {u}]
        \/ members' = [members EXCEPT ![Home[u]] = @ \ {u}]
    BY <1>4 DEF Join, Leave
  <2> QED
    BY <1>0, <2>1, <2>2 DEF RowsTyped
<1>5. ASSUME NEW u \in Users, LeaveMirrorEnd(u) \/ DeleteEnd(u)  PROVE RowsTyped'
  BY <1>1, <1>2, <1>5 DEF LeaveMirrorEnd, DeleteEnd
<1>6. ASSUME NEW u \in Users, OwnerLeaveEnd(u)  PROVE RowsTyped'
  <2>1. ASSUME NEW n \in Successors(u), creator' = [creator EXCEPT ![Host] = n],
               UNCHANGED <<members, fed, departed, banned>>
        PROVE  RowsTyped'
    <3>1. n \in MaybeUser
      BY <1>0 DEF Successors, RowsTyped, MaybeUser
    <3> QED
      BY <1>0, <2>1, <3>1 DEF RowsTyped
  <2> QED
    BY <1>1, <1>2, <1>6, <2>1 DEF OwnerLeaveEnd
<1>7. ASSUME NEW u \in Users, NEW t \in Users, Kick(u, t) \/ Ban(u, t)
      PROVE  RowsTyped'
  BY <1>0, <1>3, <1>7 DEF Kick, Ban, RowsTyped
<1>8. ASSUME NEW u \in Users, NEW t \in Users, Unban(u, t)  PROVE RowsTyped'
  BY <1>0, <1>8 DEF Unban, RowsTyped
<1>9. ASSUME NEW u \in Users, Accept(u)  PROVE RowsTyped'
  BY <1>0, <1>9 DEF Accept, RowsTyped, MaybeUser
<1>10. ASSUME NEW u \in Users, Admit(u)  PROVE RowsTyped'
  BY <1>0, <1>10 DEF Admit, AddFed, RowsTyped
<1>11. ASSUME NEW g \in Mirrors, NEW r, HandleLeave(g, r)  PROVE RowsTyped'
  <2>1. r \in Relay
    BY <1>11, ReachesOK DEF HandleLeave, Base, TypeOK
  <2>2. r.who \in Users
    BY <2>1 DEF Relay
  <2> QED
    BY <1>0, <1>1, <1>3, <1>11, <2>2 DEF HandleLeave, RowsTyped
<1>12. ASSUME NEW g \in Mirrors, NEW u \in Users, Evict(g, u)  PROVE RowsTyped'
  BY <1>0, <1>2, <1>12 DEF Evict, RowsTyped, Mirrors
<1>13. ASSUME NEW g \in Mirrors, NEW r, Gets(g, r)
       PROVE  g \in Gateways /\ r \in Honest /\ r.who \in Users /\ r.list \subseteq Users
  BY <1>13, GetsOK DEF Base, Honest, Relay, Mirrors
<1>14. ASSUME NEW g \in Mirrors, NEW r, Admitted(g, r)  PROVE RowsTyped'
  <2> DEFINE known == {w \in r.list : w # r.who /\ ~IsLocal(g, w)} \cup {r.by}
  <2>1. g \in Gateways /\ r.who \in Users /\ r.list \subseteq Users /\ r.by \in Users
    BY <1>13, <1>14 DEF Admitted, Honest
  <2>2. known \subseteq Users
    BY <2>1
  <2> HIDE DEF known
  <2>3. CASE UNCHANGED <<creator, members, fed, departed>>
    BY <1>0, <1>14, <2>3 DEF Admitted, RowsTyped
  <2>4. CASE /\ creator' = [creator EXCEPT ![g] = r.by]
             /\ members' = [members EXCEPT ![g] = @ \cup {r.who}]
             /\ fed' = [fed EXCEPT ![g] = @ \cup known]
             /\ departed' = [departed EXCEPT ![g] =
                               (@ \ known) \cup ({r.by} \ r.list)]
    BY <1>0, <1>14, <2>1, <2>2, <2>4 DEF Admitted, RowsTyped, MaybeUser
  <2> QED
    BY <1>14, <2>3, <2>4 DEF Admitted, known
<1>15. ASSUME NEW g \in Mirrors, NEW r,
              HandleMemberJoined(g, r) \/ HandleMemberLeft(g, r)
       PROVE  RowsTyped'
  <2>1. g \in Gateways /\ r.who \in Users
    BY <1>13, <1>15 DEF HandleMemberJoined, HandleMemberLeft
  <2> QED
    BY <1>0, <1>15, <2>1
    DEF HandleMemberJoined, HandleMemberLeft, AddFed, DropFed, RowsTyped
<1>16. ASSUME NEW g \in Mirrors, NEW r, HandleOwnerChanged(g, r)  PROVE RowsTyped'
  <2>1. g \in Gateways /\ r.who \in Users
    BY <1>13, <1>16 DEF HandleOwnerChanged
  <2> QED
    BY <1>0, <1>16, <2>1 DEF HandleOwnerChanged, AddFed, RowsTyped, MaybeUser
<1>17. ASSUME NEW g \in Mirrors, NEW r, HandleDelete(g, r)  PROVE RowsTyped'
  BY <1>1, <1>2, <1>13, <1>17 DEF HandleDelete
<1>18. ASSUME NEW g \in Mirrors, NEW r,
              HandleKick(g, r) \/ HandleBan(g, r) \/ HandleUnban(g, r)
       PROVE  RowsTyped'
  <2>1. g \in Gateways /\ r.who \in Users
    BY <1>13, <1>18 DEF HandleKick, HandleBan, HandleUnban
  <2> QED
    BY <1>0, <1>18, <2>1 DEF HandleKick, HandleBan, HandleUnban, DropFed, RowsTyped
<1>19. CASE Finish
  <2>1. \A g \in Mirrors : evicting[g] \subseteq Users
    BY DEF Base, TypeOK, Mirrors
  <2> QED
    BY <1>19, <2>1, <1>1, <1>5, <1>6, <1>10, <1>12 DEF Finish, LeaveEnd, BanEnd, Answer
<1>20. CASE UserActs
  BY <1>20, <1>1, <1>4, <1>7, <1>8, <1>9
  DEF UserActs, Decline, Delete, NewInvite, JoinRemote, LosePost, SetRole, Offer
<1>21. CASE RelayTaken
  BY <1>21, <1>1, <1>11, <1>14, <1>15, <1>16, <1>17, <1>18 DEF RelayTaken, LookUp
<1> QED
  BY <1>19, <1>20, <1>21 DEF Next

LEMMA DeskStep ==
    ASSUME Base, Next
    PROVE  DeskTyped'
<1> USE RoomAssumption
<1>0. DeskTyped
  BY DEF Base, TypeOK, DeskTyped
<1>1. CASE UNCHANGED <<admins, offer, uses, ignored, commands>>
  BY <1>0, <1>1 DEF DeskTyped
<1>2. ASSUME NEW u, NEW g, Command(u, g)
      PROVE  (commands \in 0 .. MaxCommands)'
  BY <1>0, <1>2 DEF Command, DeskTyped
<1>3. NoOffer \in [from : MaybeUser, to : MaybeUser]
  BY DEF NoOffer, MaybeUser
<1>4. ASSUME NEW u, DropOffer(u)
      PROVE  (offer \in [from : MaybeUser, to : MaybeUser])'
  BY <1>0, <1>3, <1>4 DEF DropOffer, DeskTyped
<1>5. ASSUME NEW u \in Users,
             Join(u) \/ Leave(u) \/ NewInvite(u) \/ Delete(u)
      PROVE  DeskTyped'
  <2>1. CASE Join(u)
    BY <1>0, <1>2, <2>1 DEF Join, DeskTyped
  <2>2. CASE Leave(u)
    <3>1. Command(u, Home[u]) /\ UNCHANGED <<offer, uses, ignored>>
      BY <2>2 DEF Leave
    <3>2. admins' \in {admins, admins \ {u}}
      BY <2>2 DEF Leave
    <3> QED
      BY <1>0, <1>2, <3>1, <3>2 DEF DeskTyped
  <2>3. CASE NewInvite(u) \/ Delete(u)
    BY <1>0, <1>2, <2>3 DEF NewInvite, Delete, DeskTyped
  <2> QED
    BY <1>5, <2>1, <2>2, <2>3
<1>6. ASSUME NEW u \in Users, Accept(u) \/ Decline(u)  PROVE DeskTyped'
  BY <1>0, <1>2, <1>3, <1>6 DEF Accept, Decline, DeskTyped
<1>7. ASSUME NEW u \in Users, NEW t \in Users, Kick(u, t) \/ Ban(u, t)
      PROVE  DeskTyped'
  BY <1>0, <1>2, <1>4, <1>7 DEF Kick, Ban, Remove, DeskTyped
<1>8. ASSUME NEW u \in Users, NEW t \in Users, Unban(u, t) \/ SetRole(u, t)
      PROVE  DeskTyped'
  BY <1>0, <1>2, <1>8 DEF Unban, SetRole, DeskTyped
<1>9. ASSUME NEW u \in Users, NEW t \in Users, Offer(u, t)  PROVE DeskTyped'
  BY <1>0, <1>2, <1>9 DEF Offer, DeskTyped, MaybeUser
<1>10. ASSUME NEW u \in Users, JoinRemote(u)  PROVE DeskTyped'
  BY <1>0, <1>10 DEF JoinRemote, DeskTyped
<1>11. ASSUME NEW u \in Users, Admit(u)  PROVE DeskTyped'
  BY <1>0, <1>11 DEF Admit, Refused, DeskTyped
<1>12. ASSUME NEW g \in Mirrors, NEW r, HandleLeave(g, r)  PROVE DeskTyped'
  BY <1>0, <1>1, <1>4, <1>12 DEF HandleLeave, Remove, DeskTyped
<1>13. ASSUME NEW g \in Mirrors, NEW r, Gets(g, r),
              ignored' \in {ignored, ignored \cup {<<g, r.who>>}}
       PROVE  DeskTyped'
  <2>1. r.who \in Users
    BY <1>13, GetsOK DEF Base, Honest, Relay
  <2> QED
    BY <1>0, <1>13, <2>1 DEF Gets, DeskTyped
<1>14. CASE Finish
  BY <1>14, <1>1, <1>11
  DEF Finish, LeaveEnd, LeaveMirrorEnd, OwnerLeaveEnd, BanEnd, DeleteEnd, Answer, Evict
<1>15. CASE UserActs
  BY <1>15, <1>1, <1>5, <1>6, <1>7, <1>8, <1>9, <1>10 DEF UserActs, LosePost
<1>16. CASE RelayTaken
  BY <1>16, <1>1, <1>12, <1>13
  DEF RelayTaken, LookUp, Admitted, HandleMemberJoined, HandleMemberLeft,
      HandleOwnerChanged, HandleDelete, HandleKick, HandleBan, HandleUnban, Refuse
<1> QED
  BY <1>14, <1>15, <1>16 DEF Next

LEMMA HandlersStep ==
    ASSUME Base, Next
    PROVE  HandlersTyped' /\ BusyOK'
<1> USE RoomAssumption
<1>0. HandlersTyped /\ BusyOK
  BY DEF Base, TypeOK, HandlersTyped, Handler, Op
<1>1. CASE UNCHANGED <<busy, evicting>>
  BY <1>0, <1>1 DEF HandlersTyped, BusyOK
<1>2. ASSUME NEW u \in Users, NEW who \in MaybeUser, NEW list \in SUBSET Users,
             NEW op \in Op,
             op = "banning" => who \in Users \ {u},
             op \in {"lookup", "announcing"} => who \in Users /\ Home[who] = Host,
             busy' = [busy EXCEPT ![u] = Doing(op, who, list)], UNCHANGED evicting
      PROVE  HandlersTyped' /\ BusyOK'
  <2> DEFINE new == Doing(op, who, list)
  <2>1. new \in Handler /\ new.op = op /\ new.who = who
    BY DEF Doing, Handler
  <2> HIDE DEF new
  <2>2. busy' = [busy EXCEPT ![u] = new]
    BY <1>2 DEF new
  <2>3. HandlersTyped'
    BY <1>0, <1>2, <2>1, <2>2 DEF HandlersTyped
  <2>4. \A v \in Users : busy'[v] = IF v = u THEN new ELSE busy[v]
    BY <1>0, <2>2 DEF HandlersTyped
  <2>5. BusyOK'
    BY <1>0, <1>2, <2>1, <2>4 DEF BusyOK
  <2> QED
    BY <2>3, <2>5
<1>3. ASSUME NEW u \in Users, End(u), UNCHANGED evicting
      PROVE  HandlersTyped' /\ BusyOK'
  <2>1. Idle = Doing("idle", NoUser, {})
    BY DEF Idle, Doing
  <2> QED
    BY <1>2, <1>3, <2>1 DEF End, MaybeUser, Op
<1>4. ASSUME NEW u \in Users,
             NEW op \in {"leaving", "owner leaving", "deleting", "joining"},
             busy' = [busy EXCEPT ![u] = Doing(op, NoUser, {})], UNCHANGED evicting
      PROVE  HandlersTyped' /\ BusyOK'
  BY <1>2, <1>4 DEF MaybeUser, Op
<1>5. ASSUME NEW u \in Users, Leave(u) \/ Delete(u) \/ JoinRemote(u)
      PROVE  HandlersTyped' /\ BusyOK'
  BY <1>4, <1>5 DEF Leave, Delete, JoinRemote, Begin
<1>6. ASSUME NEW u \in Users, NEW t \in Users, Ban(u, t)
      PROVE  HandlersTyped' /\ BusyOK'
  BY <1>2, <1>6 DEF Ban, MaybeUser, Op
<1>7. ASSUME NEW g \in Mirrors, NEW r, LookUp(g, r)
      PROVE  HandlersTyped' /\ BusyOK'
  <2>1. r \in Relay
    BY <1>7, ReachesOK DEF LookUp, Base, TypeOK
  <2>2. r.who \in Users
    BY <2>1 DEF Relay
  <2>3. CASE HostedAt(Host) /\ busy' = [busy EXCEPT ![r.who] =
                                           Doing("lookup", creator[Host], {})]
    <3>1. creator[Host] \in Users /\ Home[creator[Host]] = Host
      BY <2>3 DEF HostedAt, Open, Base, TypeOK, HostOK, MaybeUser
    <3>2. UNCHANGED evicting
      BY <1>7 DEF LookUp
    <3> QED
      BY <1>2, <2>2, <2>3, <3>1, <3>2 DEF MaybeUser, Op
  <2>4. CASE End(r.who)
    BY <1>3, <1>7, <2>2, <2>4 DEF LookUp
  <2> QED
    BY <1>7, <2>3, <2>4 DEF LookUp, End
<1>8. ASSUME NEW u \in Users, Admit(u)
      PROVE  HandlersTyped' /\ BusyOK'
  <2>1. busy[u].who \in Users /\ Home[busy[u].who] = Host
    BY <1>0, <1>8 DEF Admit, BusyOK
  <2>2. (members[Host] \cup Visible(Host)) \ {u} \in SUBSET Users
    BY DEF Base, TypeOK, Visible
  <2>3. CASE End(u)
    BY <1>3, <1>8, <2>3 DEF Admit
  <2>4. CASE ~Refused(u)
    <3>1. busy' = [busy EXCEPT ![u] = Doing("announcing", busy[u].who,
                                 (members[Host] \cup Visible(Host)) \ {u})]
      BY <1>8, <2>4, <1>0 DEF Admit, HandlersTyped, Handler
    <3> QED
      BY <1>2, <1>8, <2>1, <2>2, <3>1 DEF Admit, MaybeUser, Op
  <2> QED
    BY <1>8, <2>3, <2>4 DEF Admit
<1>9. ASSUME NEW u \in Users, Answer(u)
      PROVE  HandlersTyped' /\ BusyOK'
  BY <1>4, <1>9 DEF Answer
<1>10. ASSUME NEW g \in Mirrors, NEW r, Gets(g, r)
       PROVE  g \in Gateways /\ r.who \in Users
  BY <1>10, GetsOK DEF Base, Honest, Relay, Mirrors
<1>11. ASSUME NEW g \in Mirrors, NEW r, Admitted(g, r)
       PROVE  HandlersTyped' /\ BusyOK'
  BY <1>3, <1>10, <1>11 DEF Admitted
<1>12. ASSUME NEW g \in Gateways, NEW S \in SUBSET Users,
              evicting' = [evicting EXCEPT ![g] = S], UNCHANGED busy
       PROVE  HandlersTyped' /\ BusyOK'
  BY <1>0, <1>12 DEF HandlersTyped, BusyOK
<1>13. ASSUME NEW g \in Mirrors, NEW r, HandleKick(g, r) \/ HandleBan(g, r)
       PROVE  HandlersTyped' /\ BusyOK'
  <2>1. g \in Gateways /\ evicting[g] \cup {r.who} \in SUBSET Users
    BY <1>0, <1>10, <1>13 DEF HandleKick, HandleBan, HandlersTyped
  <2>2. \/ UNCHANGED evicting
        \/ evicting' = [evicting EXCEPT ![g] = @ \cup {r.who}]
    BY <1>13 DEF HandleKick, HandleBan
  <2> QED
    BY <1>1, <1>12, <1>13, <2>1, <2>2 DEF HandleKick, HandleBan
<1>14. ASSUME NEW g \in Mirrors, NEW u, Evict(g, u)
       PROVE  HandlersTyped' /\ BusyOK'
  <2>1. g \in Gateways /\ evicting[g] \ {u} \in SUBSET Users
    BY <1>0 DEF HandlersTyped, Mirrors
  <2> QED
    BY <1>12, <1>14, <2>1 DEF Evict
<1>15. CASE Finish
  BY <1>15, <1>3, <1>8, <1>9, <1>14
  DEF Finish, LeaveEnd, LeaveMirrorEnd, OwnerLeaveEnd, BanEnd, DeleteEnd
<1>16. CASE UserActs
  BY <1>16, <1>1, <1>3, <1>5, <1>6
  DEF UserActs, Join, Accept, Decline, NewInvite, LosePost, Kick, Unban, SetRole, Offer
<1>17. CASE RelayTaken
  BY <1>17, <1>1, <1>7, <1>11, <1>13
  DEF RelayTaken, HandleLeave, HandleMemberJoined, HandleMemberLeft,
      HandleOwnerChanged, HandleDelete, HandleUnban
<1> QED
  BY <1>15, <1>16, <1>17 DEF Next

LEMMA HostStep ==
    ASSUME Base, Next
    PROVE  HostOK'
<1> USE RoomAssumption
<1>0. HostOK /\ RowsTyped
  BY DEF Base, TypeOK, RowsTyped
<1>1. CASE UNCHANGED <<creator, members>>
  BY <1>0, <1>1 DEF HostOK, Open
<1>2. ASSUME NEW g \in Gateways, Drop(g)  PROVE HostOK'
  BY <1>0, <1>2 DEF HostOK, Open, Drop, RowsTyped
<1>3. ASSUME NEW n \in Users, NEW g \in Gateways, Home[n] = Host,
             creator' = [creator EXCEPT ![g] = n], UNCHANGED members
      PROVE  HostOK'
  BY <1>0, <1>3 DEF HostOK, Open, RowsTyped
<1>4. ASSUME NEW g \in Gateways, NEW S, g = Host => S \subseteq members[Host],
             members' = [members EXCEPT ![g] = S], UNCHANGED creator
      PROVE  HostOK'
  BY <1>0, <1>4 DEF HostOK, Open, RowsTyped
<1>5. ASSUME NEW u \in Users, Join(u)  PROVE HostOK'
  BY <1>0, <1>5 DEF Join, Command, HostOK, Open, RowsTyped
<1>6. ASSUME NEW u \in Users, Leave(u)  PROVE HostOK'
  BY <1>4, <1>6 DEF Leave
<1>7. ASSUME NEW u \in Users, OwnerLeaveEnd(u)  PROVE HostOK'
  <2>1. \A n \in Successors(u) : n \in Users /\ Home[n] = Host
    BY <1>0 DEF Successors, HostOK, RowsTyped
  <2> QED
    BY <1>1, <1>2, <1>3, <1>7, <2>1 DEF OwnerLeaveEnd, roomVars
<1>8. ASSUME NEW u \in Users, Accept(u)  PROVE HostOK'
  BY <1>1, <1>3, <1>8 DEF Accept, Command
<1>9. ASSUME NEW u, Remove(u), UNCHANGED creator  PROVE HostOK'
  BY <1>4, <1>9 DEF Remove
<1>10. ASSUME NEW g \in Mirrors, NEW r, Gets(g, r)
       PROVE  g \in Gateways \ {Host} /\ r \in Honest
  BY <1>10, GetsOK DEF Base, Mirrors
<1>11. ASSUME NEW g \in Mirrors, NEW r, Admitted(g, r)  PROVE HostOK'
  <2>1. g \in Gateways \ {Host} /\ r.by \in Users /\ Home[r.by] = Host
    BY <1>10, <1>11 DEF Admitted, Honest
  <2>2. CASE UNCHANGED <<creator, members>>
    BY <1>1, <2>2
  <2>3. CASE /\ creator' = [creator EXCEPT ![g] = r.by]
             /\ members' = [members EXCEPT ![g] = @ \cup {r.who}]
    BY <1>0, <2>1, <2>3 DEF HostOK, Open, RowsTyped
  <2> QED
    BY <1>11, <2>2, <2>3 DEF Admitted
<1>12. ASSUME NEW g \in Mirrors, NEW r, HandleOwnerChanged(g, r)  PROVE HostOK'
  <2>1. g \in Gateways /\ r.who \in Users /\ Home[r.who] = Host
    BY <1>10, <1>12 DEF HandleOwnerChanged, Honest, Relay
  <2> QED
    BY <1>1, <1>3, <1>12, <2>1 DEF HandleOwnerChanged
<1>13. ASSUME NEW g \in Mirrors, NEW u, Evict(g, u)  PROVE HostOK'
  BY <1>2, <1>4, <1>13 DEF Evict, Mirrors
<1>14. CASE Finish
  BY <1>14, <1>1, <1>2, <1>7, <1>13
  DEF Finish, LeaveEnd, LeaveMirrorEnd, BanEnd, DeleteEnd, Admit, Answer, roomVars
<1>15. CASE UserActs
  BY <1>15, <1>1, <1>5, <1>6, <1>8, <1>9
  DEF UserActs, Decline, Delete, NewInvite, JoinRemote, LosePost, Kick, Ban, Unban,
      SetRole, Offer, roomVars
<1>16. CASE RelayTaken
  <2>1. ASSUME NEW g \in Mirrors, NEW r, HandleDelete(g, r)  PROVE HostOK'
    BY <1>1, <1>2, <1>10, <2>1 DEF HandleDelete, roomVars
  <2>2. ASSUME NEW g \in Mirrors, NEW r, HandleLeave(g, r)  PROVE HostOK'
    BY <1>1, <1>9, <2>2 DEF HandleLeave, roomVars
  <2> QED
    BY <1>16, <1>1, <1>11, <1>12, <2>1, <2>2
    DEF RelayTaken, LookUp, HandleMemberJoined, HandleMemberLeft, HandleKick,
        HandleBan, HandleUnban, roomVars
<1> QED
  BY <1>14, <1>15, <1>16 DEF Next

LEMMA BaseStep ==
    ASSUME Base, [Next]_vars
    PROVE  Base'
<1>1. CASE Next
  <2>1. /\ DownOK' /\ (up \in [Mirrors -> Seq(Relay)])' /\ RowsTyped'
        /\ DeskTyped' /\ HandlersTyped' /\ BusyOK' /\ HostOK'
    BY <1>1, DownStep, UpStep, RowsStep, DeskStep, HandlersStep, HostStep
  <2>2. (down \in [Mirrors -> Seq(Relay)])'
    <3>1. Seq(Honest) \subseteq Seq(Relay)
      BY DEF Honest
    <3> QED
      BY <2>1, <3>1 DEF DownOK
  <2> QED
    BY <2>1, <2>2
    DEF Base, TypeOK, RowsTyped, DeskTyped, HandlersTyped, Handler, Op
<1>2. CASE UNCHANGED vars
  BY <1>2 DEF vars, Base, TypeOK, DownOK, BusyOK, HostOK, Open
<1> QED
  BY <1>1, <1>2

LEMMA BaseInit ==
    ASSUME Init
    PROVE  Base
<1> USE RoomAssumption
<1>1. /\ JoinedAt(Host) \subseteq Users
      /\ \A g \in Gateways : JoinedAt(g) \subseteq Users
  BY DEF JoinedAt
<1>2. TypeOK
  BY <1>1 DEF Init, TypeOK, MaybeUser, NoOffer, Idle
<1>3. DownOK
  BY DEF Init, DownOK
<1>4. BusyOK
  BY DEF Init, BusyOK, Idle
<1>5. HostOK
  BY DEF Init, HostOK, Open, JoinedAt
<1> QED
  BY <1>2, <1>3, <1>4, <1>5 DEF Base

\* TypeOK: every variable keeps its type, and every queue of relays holds
\* relays, whatever order they are sent, taken and lost in.
THEOREM TypeCorrect == Spec => []TypeOK
<1>1. Init => Base
  BY BaseInit
<1>2. Base /\ [Next]_vars => Base'
  BY BaseStep
<1>3. Base => TypeOK
  BY DEF Base
<1> QED
  BY <1>1, <1>2, <1>3, PTL DEF Spec

-----------------------------------------------------------------------------
(* Nobody banned is a member.                                              *)

\* The host's rows are left as they are.
HostRowsKept ==
    /\ creator'[Host] = creator[Host]
    /\ members'[Host] = members[Host]
    /\ fed'[Host] = fed[Host]
    /\ banned'[Host] = banned[Host]

\* A mirror takes a relay of the host.
Heard(g, r) ==
    \/ Admitted(g, r) \/ HandleMemberJoined(g, r) \/ HandleMemberLeft(g, r)
    \/ HandleOwnerChanged(g, r) \/ HandleDelete(g, r)
    \/ HandleKick(g, r) \/ HandleBan(g, r) \/ HandleUnban(g, r)

LEMMA NewsKeepsHost ==
    ASSUME RowsTyped, NEW g \in Mirrors, NEW r, Heard(g, r)
    PROVE  HostRowsKept
<1> USE RoomAssumption DEF Mirrors, RowsTyped, HostRowsKept
<1>1. CASE Admitted(g, r)
  BY <1>1 DEF Admitted
<1>2. CASE HandleMemberJoined(g, r) \/ HandleMemberLeft(g, r)
  BY <1>2 DEF HandleMemberJoined, HandleMemberLeft, AddFed, DropFed
<1>3. CASE HandleOwnerChanged(g, r)
  BY <1>3 DEF HandleOwnerChanged, AddFed
<1>4. CASE HandleDelete(g, r)
  BY <1>4 DEF HandleDelete, Drop, roomVars
<1>5. CASE HandleKick(g, r) \/ HandleBan(g, r) \/ HandleUnban(g, r)
  BY <1>5 DEF HandleKick, HandleBan, HandleUnban, DropFed
<1> QED
  BY <1>1, <1>2, <1>3, <1>4, <1>5 DEF Heard

LEMMA EvictKeepsHost ==
    ASSUME RowsTyped, NEW g \in Mirrors, NEW u, Evict(g, u)
    PROVE  HostRowsKept
  BY RoomAssumption DEF Mirrors, RowsTyped, HostRowsKept, Evict, Drop

LEMMA BannedStep ==
    ASSUME Base, BannedIsOut, [Next]_vars
    PROVE  BannedIsOut'
<1> USE RoomAssumption
<1>0. BannedIsOut /\ RowsTyped
  BY DEF Base, TypeOK, RowsTyped
<1>1. ASSUME banned'[Host] \subseteq banned[Host],
             members'[Host] \subseteq members[Host], fed'[Host] \subseteq fed[Host]
      PROVE  BannedIsOut'
  BY <1>0, <1>1 DEF BannedIsOut
<1>2. CASE UNCHANGED roomVars
  BY <1>1, <1>2 DEF roomVars
<1>3. ASSUME NEW g \in Gateways, Drop(g)  PROVE BannedIsOut'
  BY <1>0, <1>1, <1>3 DEF Drop, RowsTyped
<1>4. CASE HostRowsKept
  BY <1>1, <1>4 DEF HostRowsKept
<1>5. ASSUME NEW u \in Users, Remove(u), banned'[Host] \subseteq banned[Host] \cup {u}
      PROVE  BannedIsOut'
  BY <1>0, <1>5 DEF Remove, DropFed, BannedIsOut, RowsTyped
<1>6. ASSUME NEW u \in Users, Join(u)  PROVE BannedIsOut'
  BY <1>0, <1>6 DEF Join, BannedIsOut, RowsTyped
<1>7. ASSUME NEW u \in Users, Admit(u)  PROVE BannedIsOut'
  BY <1>0, <1>7 DEF Admit, AddFed, Refused, BannedIsOut, RowsTyped
<1>8. ASSUME NEW u \in Users, Leave(u)  PROVE BannedIsOut'
  BY <1>0, <1>1, <1>8 DEF Leave, RowsTyped
<1>9. ASSUME NEW u \in Users, NEW t \in Users, Kick(u, t) \/ Ban(u, t)
      PROVE  BannedIsOut'
  BY <1>0, <1>5, <1>9 DEF Kick, Ban, RowsTyped
<1>10. ASSUME NEW u \in Users, NEW t \in Users, Unban(u, t)  PROVE BannedIsOut'
  BY <1>0, <1>1, <1>10 DEF Unban, RowsTyped
<1>11. ASSUME NEW u \in Users, OwnerLeaveEnd(u) \/ LeaveMirrorEnd(u) \/ DeleteEnd(u)
              \/ Accept(u)
       PROVE  BannedIsOut'
  BY <1>1, <1>2, <1>3, <1>11 DEF OwnerLeaveEnd, LeaveMirrorEnd, DeleteEnd, Accept
<1>12. ASSUME NEW g \in Mirrors, NEW r, HandleLeave(g, r)  PROVE BannedIsOut'
  <2>1. r \in Relay
    BY <1>12, ReachesOK DEF HandleLeave, Base, TypeOK
  <2>2. r.who \in Users
    BY <2>1 DEF Relay
  <2> QED
    BY <1>0, <1>2, <1>5, <1>12, <2>2 DEF HandleLeave, RowsTyped
<1>13. CASE Finish
  BY <1>0, <1>13, <1>2, <1>4, <1>7, <1>11, EvictKeepsHost
  DEF Finish, LeaveEnd, BanEnd, Answer
<1>14. CASE UserActs
  BY <1>14, <1>2, <1>6, <1>8, <1>9, <1>10, <1>11
  DEF UserActs, Decline, Delete, NewInvite, JoinRemote, LosePost, SetRole, Offer
<1>15. CASE RelayTaken
  BY <1>0, <1>15, <1>2, <1>4, <1>12, NewsKeepsHost DEF RelayTaken, LookUp, Heard
<1>16. CASE UNCHANGED vars
  BY <1>2, <1>16 DEF vars, roomVars
<1> QED
  BY <1>13, <1>14, <1>15, <1>16 DEF Next

-----------------------------------------------------------------------------
(* A mirror keeps its route to the host.                                   *)

\* The creator's row is there and is not banned; without a room there are no
\* bans for a room that is made later to start with.
MirrorSound(g) ==
    /\ Open(g) => creator[g] \in Visible(g)
    /\ ~Open(g) => banned[g] = {}
MirrorOK == \A g \in Mirrors : MirrorSound(g)

\* The relays a gateway takes may be believed.
LEMMA NewsOK ==
    ASSUME Base, NEW g \in Mirrors, NEW r, Gets(g, r)
    PROVE  /\ g \in Gateways /\ g # Host
           /\ r \in Honest /\ r.who \in Users /\ r.list \subseteq Users
  BY GetsOK DEF Base, Honest, Relay, Mirrors

\* A mirror takes moderation from the creator alone.
LEMMA ByCreator ==
    ASSUME RowsTyped, MirrorOK, NEW g \in Mirrors, NEW r, Vouched(g, r), r.by = Owner(g)
    PROVE  r.by = creator[g]
<1>1. creator[g] \in Visible(g) /\ r.by \in Visible(g) /\ NoUser \notin Visible(g)
  BY RoomAssumption DEF Vouched, MirrorOK, MirrorSound, RowsTyped, Visible, Mirrors
<1> QED
  BY <1>1 DEF Owner

LEMMA MirrorStep ==
    ASSUME Base, MirrorOK, [Next]_vars
    PROVE  MirrorOK'
<1> USE RoomAssumption
<1>0. MirrorOK /\ RowsTyped
  BY DEF Base, TypeOK, RowsTyped
<1>1. ASSUME NEW g \in Mirrors, creator'[g] = creator[g], fed'[g] = fed[g],
             banned'[g] = banned[g]
      PROVE  MirrorSound(g)'
  BY <1>0, <1>1 DEF MirrorOK, MirrorSound, Open, Visible
<1>2. ASSUME \A g \in Mirrors : /\ creator'[g] = creator[g]
                                /\ fed'[g] = fed[g]
                                /\ banned'[g] = banned[g]
      PROVE  MirrorOK'
  BY <1>1, <1>2 DEF MirrorOK
<1>3. CASE UNCHANGED <<creator, fed, banned>>
  BY <1>2, <1>3
<1>4. ASSUME NEW g \in Gateways, Drop(g)  PROVE MirrorOK'
  <2>1. CASE g = Host
    BY <1>0, <1>2, <1>4, <2>1 DEF Drop, Mirrors, RowsTyped
  <2>2. CASE g # Host
    <3>1. MirrorSound(g)'
      BY <1>0, <1>4 DEF Drop, RowsTyped, MirrorSound, Open
    <3>2. \A k \in Mirrors \ {g} : /\ creator'[k] = creator[k]
                                    /\ fed'[k] = fed[k]
                                    /\ banned'[k] = banned[k]
      BY <1>0, <1>4 DEF Drop, RowsTyped, Mirrors
    <3> QED
      BY <3>1, <3>2, <1>1 DEF MirrorOK
  <2> QED
    BY <2>1, <2>2
<1>5. ASSUME NEW u, NEW v, NEW S, NEW T,
             creator' = creator \/ creator' = [creator EXCEPT ![Host] = v],
             fed' = fed \/ fed' = [fed EXCEPT ![Host] = S],
             banned' = banned \/ banned' = [banned EXCEPT ![Host] = T]
      PROVE  MirrorOK'
  BY <1>0, <1>2, <1>5 DEF Mirrors, RowsTyped
<1>6. ASSUME NEW u, Remove(u), UNCHANGED creator,
             banned' = banned \/ \E T : banned' = [banned EXCEPT ![Host] = T]
      PROVE  MirrorOK'
  BY <1>5, <1>6 DEF Remove, DropFed
<1>7. ASSUME NEW u \in Users, OwnerLeaveEnd(u) \/ LeaveMirrorEnd(u) \/ DeleteEnd(u)
             \/ Accept(u) \/ Admit(u)
      PROVE  MirrorOK'
  <2>1. CASE OwnerLeaveEnd(u)
    BY <1>3, <1>4, <1>5, <2>1 DEF OwnerLeaveEnd, roomVars
  <2>2. CASE LeaveMirrorEnd(u) \/ DeleteEnd(u)
    BY <1>3, <1>4, <2>2 DEF LeaveMirrorEnd, DeleteEnd, roomVars
  <2>3. CASE Accept(u)
    BY <1>5, <2>3 DEF Accept
  <2>4. CASE Admit(u)
    BY <1>3, <1>5, <2>4 DEF Admit, AddFed
  <2> QED
    BY <1>7, <2>1, <2>2, <2>3, <2>4
<1>8. ASSUME NEW u \in Users, NEW t \in Users, Kick(u, t) \/ Ban(u, t) \/ Unban(u, t)
      PROVE  MirrorOK'
  BY <1>5, <1>6, <1>8 DEF Kick, Ban, Unban
<1>9. ASSUME NEW g \in Mirrors, NEW r, HandleLeave(g, r)  PROVE MirrorOK'
  BY <1>3, <1>6, <1>9 DEF HandleLeave, roomVars
<1>10. ASSUME NEW g \in Mirrors, MirrorSound(g)',
              \A k \in Gateways \ {g} : /\ creator'[k] = creator[k]
                                       /\ fed'[k] = fed[k]
                                       /\ banned'[k] = banned[k]
       PROVE  MirrorOK'
  BY <1>1, <1>10 DEF MirrorOK, Mirrors
<1>11. ASSUME NEW g \in Mirrors, NEW r, Admitted(g, r)  PROVE MirrorOK'
  <2>1. r.by \in Users /\ g \in Gateways
    BY <1>11, NewsOK DEF Admitted, Honest
  <2>2. CASE UNCHANGED <<creator, fed, banned>>
    BY <1>3, <2>2
  <2>3. ASSUME NEW S, r.by \in S,
               Open(g) => creator[g] = r.by /\ r.by \in Visible(g),
               creator' = [creator EXCEPT ![g] = r.by],
               fed' = [fed EXCEPT ![g] = @ \cup S], UNCHANGED banned
        PROVE  MirrorOK'
    <3>1. MirrorSound(g)'
      BY <1>0, <2>1, <2>3 DEF MirrorOK, MirrorSound, Open, Visible, RowsTyped
    <3>2. \A k \in Gateways \ {g} : /\ creator'[k] = creator[k]
                                     /\ fed'[k] = fed[k]
                                     /\ banned'[k] = banned[k]
      BY <1>0, <2>3 DEF RowsTyped
    <3> QED
      BY <1>10, <3>1, <3>2
  <2> QED
    BY <1>11, <2>2, <2>3 DEF Admitted
<1>12. ASSUME NEW g \in Mirrors, NEW r,
              HandleMemberJoined(g, r) \/ HandleMemberLeft(g, r) \/ HandleKick(g, r)
       PROVE  MirrorOK'
  <2>1. g \in Gateways
    BY DEF Mirrors
  <2>2. \/ UNCHANGED fed
        \/ AddFed(g, r.who)
        \/ r.who # creator[g] /\ DropFed(g, r.who)
    BY <1>12 DEF HandleMemberJoined, HandleMemberLeft, HandleKick, IsRoute
  <2>3. UNCHANGED <<creator, banned>>
    BY <1>12 DEF HandleMemberJoined, HandleMemberLeft, HandleKick
  <2>4. MirrorSound(g)'
    BY <1>0, <2>1, <2>2, <2>3
    DEF MirrorOK, MirrorSound, Open, Visible, RowsTyped, AddFed, DropFed
  <2>5. \A k \in Gateways \ {g} : fed'[k] = fed[k]
    BY <1>0, <2>2 DEF RowsTyped, AddFed, DropFed
  <2> QED
    BY <1>10, <2>3, <2>4, <2>5
<1>13. ASSUME NEW g \in Mirrors, NEW r, HandleOwnerChanged(g, r)  PROVE MirrorOK'
  <2>1. g \in Gateways /\ r.by = r.who
    BY <1>13, NewsOK DEF HandleOwnerChanged, Honest
  <2>2. CASE UNCHANGED <<creator, fed, banned>>
    BY <1>3, <2>2
  <2>3. CASE /\ r.who \in Visible(g)
             /\ creator' = [creator EXCEPT ![g] = r.who]
             /\ Open(g)
             /\ UNCHANGED <<fed, banned>>
    <3>1. MirrorSound(g)'
      BY <1>0, <2>1, <2>3 DEF MirrorOK, MirrorSound, Open, Visible, RowsTyped
    <3> QED
      BY <1>0, <1>10, <2>3, <3>1 DEF RowsTyped
  <2> QED
    BY <1>13, <2>1, <2>2, <2>3 DEF HandleOwnerChanged, Vouched
<1>14. ASSUME NEW g \in Mirrors, NEW r, HandleBan(g, r) \/ HandleUnban(g, r)
       PROVE  MirrorOK'
  <2>1. g \in Gateways
    BY DEF Mirrors
  <2>2. CASE UNCHANGED <<creator, fed, banned>>
    BY <1>3, <2>2
  <2>3. CASE /\ Vouched(g, r) /\ r.by = Owner(g) /\ HandleBan(g, r)
             /\ banned' = [banned EXCEPT ![g] = @ \cup {r.who}]
             /\ DropFed(g, r.who)
    <3>1. r.who # creator[g] /\ UNCHANGED creator
      BY <1>0, <2>3, NewsOK, ByCreator DEF HandleBan, Honest
    <3>2. MirrorSound(g)'
      BY <1>0, <2>1, <2>3, <3>1
      DEF MirrorOK, MirrorSound, Open, Visible, RowsTyped, DropFed, Vouched
    <3> QED
      BY <1>0, <1>10, <2>3, <3>1, <3>2 DEF RowsTyped, DropFed
  <2>4. CASE /\ banned' = [banned EXCEPT ![g] = @ \ {r.who}]
             /\ UNCHANGED <<creator, fed>>
    <3>1. MirrorSound(g)'
      BY <1>0, <2>1, <2>4 DEF MirrorOK, MirrorSound, Open, Visible, RowsTyped
    <3> QED
      BY <1>0, <1>10, <2>4, <3>1 DEF RowsTyped
  <2> QED
    BY <1>14, <2>2, <2>3, <2>4 DEF HandleBan, HandleUnban
<1>15. ASSUME NEW g \in Mirrors, NEW r, HandleDelete(g, r)  PROVE MirrorOK'
  BY <1>3, <1>4, <1>15 DEF HandleDelete, Mirrors, roomVars
<1>16. ASSUME NEW g \in Mirrors, NEW u, Evict(g, u)  PROVE MirrorOK'
  BY <1>3, <1>4, <1>16 DEF Evict, Mirrors
<1>17. CASE Finish
  BY <1>17, <1>3, <1>7, <1>16 DEF Finish, LeaveEnd, BanEnd, Answer, roomVars
<1>18. CASE UserActs
  BY <1>18, <1>3, <1>7, <1>8
  DEF UserActs, Join, Leave, Decline, Delete, NewInvite, JoinRemote, LosePost,
      SetRole, Offer, roomVars
<1>19. CASE RelayTaken
  BY <1>19, <1>3, <1>9, <1>11, <1>12, <1>13, <1>14, <1>15 DEF RelayTaken, LookUp, roomVars
<1>20. CASE UNCHANGED vars
  BY <1>3, <1>20 DEF vars
<1> QED
  BY <1>17, <1>18, <1>19, <1>20 DEF Next

LEMMA MirrorInit ==
    ASSUME Init
    PROVE  MirrorOK
<1>1. \A g \in Mirrors : Creator \in Joined \ JoinedAt(g)
  BY RoomAssumption DEF Mirrors, JoinedAt
<1> QED
  BY <1>1, RoomAssumption DEF Init, MirrorOK, MirrorSound, Open, Visible, Mirrors

\* MirrorNeverHosts: in no order of the relays does a mirror end up without the
\* creator's row, by which _room_is_hosted_here tells a mirror from the host.
THEOREM MirrorsNeverHost == Spec => []MirrorNeverHosts
<1>1. Init => Base /\ MirrorOK
  BY BaseInit, MirrorInit
<1>2. Base /\ MirrorOK /\ [Next]_vars => (Base /\ MirrorOK)'
  BY BaseStep, MirrorStep
<1>3. MirrorOK => MirrorNeverHosts
  BY DEF MirrorOK, MirrorSound, MirrorNeverHosts, HostedAt
<1> QED
  BY <1>1, <1>2, <1>3, PTL DEF Spec

\* BannedIsOut: a ban holds at the host also against a join that was under way
\* when it came, because the ban is looked at again when the joiner is let in.
THEOREM BannedStayOut == Spec => []BannedIsOut
<1>1. Init => Base /\ BannedIsOut
  <2>1. ASSUME Init  PROVE BannedIsOut
    BY <2>1, RoomAssumption DEF Init, BannedIsOut
  <2> QED
    BY <2>1, BaseInit
<1>2. Base /\ BannedIsOut /\ [Next]_vars => (Base /\ BannedIsOut)'
  BY BaseStep, BannedStep
<1> QED
  BY <1>1, <1>2, PTL DEF Spec

-----------------------------------------------------------------------------
(* The room is handed on by its owner.                                     *)

\* Of the handlers that let nobody in between, one is under way at a time.
OneAtATime ==
    \A u, v \in Users :
      u # v /\ ~Interleaves(busy[u].op) => Interleaves(busy[v].op)

\* Who leaves as the owner is the owner until the leave is through, as long as
\* nobody comes in between.
LeaverOwns ==
    "leave" \notin Slow =>
      \A u \in Users : busy[u].op = "owner leaving" => u = creator[Host]

\* Only the handler of u's command goes on.
Changes(u) ==
    /\ \A v \in Users \ {u} : busy'[v] = busy[v]
    /\ busy'[u].op = "owner leaving" => Leave(u)

LEMMA OneHandler ==
    ASSUME Base, Next
    PROVE  \/ UNCHANGED busy
           \/ \E u \in Users : Changes(u) /\ (Running => ~Interleaves(busy[u].op))
<1>0. DOMAIN busy = Users
  BY DEF Base, TypeOK
<1>1. ASSUME NEW u \in Users, NEW op, NEW who, NEW list, op # "owner leaving",
             busy' = [busy EXCEPT ![u] = Doing(op, who, list)]
      PROVE  Changes(u)
  BY <1>0, <1>1 DEF Changes, Doing
<1>2. ASSUME NEW u \in Users, End(u)  PROVE Changes(u)
  <2>1. Idle = Doing("idle", NoUser, {})
    BY DEF Idle, Doing
  <2> QED
    BY <1>1, <1>2, <2>1 DEF End
<1>3. ASSUME NEW u \in Users, Leave(u)  PROVE Changes(u)
  BY <1>0, <1>3 DEF Leave, Begin, Changes
<1>4. ASSUME NEW u \in Users, Admit(u)  PROVE Changes(u)
  <2>1. CASE End(u)
    BY <1>2, <2>1
  <2>2. CASE busy' = [busy EXCEPT ![u] = Doing("announcing", @.who,
                       (members[Host] \cup Visible(Host)) \ {u})]
    BY <1>1, <2>2
  <2> QED
    BY <1>4, <2>1, <2>2 DEF Admit
<1>5. ASSUME NEW g \in Mirrors, NEW r, LookUp(g, r) \/ Admitted(g, r)
      PROVE  r.who \in Users /\ Changes(r.who)
  <2>1. r.who \in Users
    <3>1. ASSUME LookUp(g, r)  PROVE r \in Relay
      BY <3>1, ReachesOK DEF LookUp, Base, TypeOK
    <3> QED
      BY <1>5, <3>1, NewsOK DEF Admitted, Relay
  <2>2. CASE End(r.who)
    BY <1>2, <2>1, <2>2
  <2>3. CASE busy' = [busy EXCEPT ![r.who] = Doing("lookup", creator[Host], {})]
    BY <1>1, <2>1, <2>3
  <2> QED
    BY <1>5, <2>1, <2>2, <2>3 DEF LookUp, Admitted, End
<1>6. ASSUME NEW u \in Users,
             \/ LeaveEnd(u) \/ LeaveMirrorEnd(u) \/ OwnerLeaveEnd(u) \/ BanEnd(u)
             \/ DeleteEnd(u) \/ Admit(u) \/ Answer(u)
      PROVE  Changes(u)
  BY <1>6, <1>1, <1>2, <1>4
  DEF LeaveEnd, LeaveMirrorEnd, OwnerLeaveEnd, BanEnd, DeleteEnd, Answer
<1>7. ASSUME NEW u \in Users, Delete(u) \/ JoinRemote(u) \/ LosePost(u)
      PROVE  Changes(u)
  BY <1>1, <1>2, <1>7 DEF Delete, JoinRemote, LosePost, Begin
<1>8. ASSUME NEW u \in Users, NEW t \in Users, Ban(u, t)  PROVE Changes(u)
  BY <1>1, <1>8 DEF Ban
<1>9. CASE Finish
  BY <1>9, <1>6 DEF Finish, Evict
<1>10. CASE ~Running /\ UserActs
  <2>1. ASSUME NEW u \in Users,
               \/ Join(u) \/ Leave(u) \/ Accept(u) \/ Decline(u) \/ Delete(u)
               \/ NewInvite(u) \/ JoinRemote(u) \/ LosePost(u)
        PROVE  UNCHANGED busy \/ Changes(u)
    BY <2>1, <1>3, <1>7 DEF Join, Accept, Decline, NewInvite
  <2>2. ASSUME NEW u \in Users, NEW t \in Users,
               Kick(u, t) \/ Ban(u, t) \/ Unban(u, t) \/ SetRole(u, t) \/ Offer(u, t)
        PROVE  UNCHANGED busy \/ Changes(u)
    BY <2>2, <1>8 DEF Kick, Unban, SetRole, Offer
  <2> QED
    <3>1. CASE \E u \in Users :
                 \/ Join(u) \/ Leave(u) \/ Accept(u) \/ Decline(u) \/ Delete(u)
                 \/ NewInvite(u) \/ JoinRemote(u) \/ LosePost(u)
      BY <1>10, <2>1, <3>1
    <3>2. CASE \E u, t \in Users :
                 Kick(u, t) \/ Ban(u, t) \/ Unban(u, t) \/ SetRole(u, t) \/ Offer(u, t)
      BY <1>10, <2>2, <3>2
    <3> QED
      BY <1>10, <3>1, <3>2 DEF UserActs
<1>11. CASE ~Running /\ RelayTaken
  <2>1. ASSUME NEW g \in Mirrors, NEW r, LookUp(g, r) \/ HandleLeave(g, r) \/ Heard(g, r)
        PROVE  UNCHANGED busy \/ (r.who \in Users /\ Changes(r.who))
    BY <2>1, <1>5
    DEF Heard, HandleLeave, HandleMemberJoined, HandleMemberLeft, HandleOwnerChanged,
        HandleDelete, HandleKick, HandleBan, HandleUnban
  <2> QED
    BY <1>11, <2>1 DEF RelayTaken, Heard
<1> QED
  BY <1>9, <1>10, <1>11 DEF Next

LEMMA OneAtATimeStep ==
    ASSUME Base, OneAtATime, [Next]_vars
    PROVE  OneAtATime'
<1>1. CASE UNCHANGED busy
  BY <1>1 DEF OneAtATime
<1>2. ASSUME NEW u \in Users, Changes(u), Running => ~Interleaves(busy[u].op)
      PROVE  OneAtATime'
  <2>1. \A v \in Users \ {u} : busy'[v] = busy[v]
    BY <1>2 DEF Changes
  <2>2. \A v \in Users \ {u} : Interleaves(busy[v].op)
    BY <1>2 DEF OneAtATime, Running
  <2> QED
    BY <2>1, <2>2 DEF OneAtATime
<1> QED
  BY <1>1, <1>2, OneHandler DEF vars

LEMMA LeaverStep ==
    ASSUME Base, OneAtATime, LeaverOwns, [Next]_vars
    PROVE  LeaverOwns'
<1> SUFFICES ASSUME "leave" \notin Slow, NEW u \in Users,
                    busy'[u].op = "owner leaving"
             PROVE  u = creator'[Host]
  BY DEF LeaverOwns
<1>1. CASE busy[u].op = "owner leaving"
  <2>1. u = creator[Host] /\ ~Interleaves(busy[u].op) /\ Running
    BY <1>1 DEF LeaverOwns, Interleaves, Running
  <2>2. \A v \in Users \ {u} : Interleaves(busy[v].op)
    BY <2>1 DEF OneAtATime
  <2>3. ASSUME Finish  PROVE UNCHANGED creator \/ HostRowsKept
    <3>1. ASSUME NEW v \in Users, ~Interleaves(busy[v].op),
                 \/ LeaveEnd(v) \/ LeaveMirrorEnd(v) \/ OwnerLeaveEnd(v) \/ BanEnd(v)
                 \/ DeleteEnd(v) \/ Admit(v) \/ Answer(v)
          PROVE  FALSE
      <4>1. v = u
        BY <2>2, <3>1
      <4>2. End(u)
        BY <1>1, <3>1, <4>1
        DEF LeaveEnd, LeaveMirrorEnd, OwnerLeaveEnd, BanEnd, DeleteEnd, Admit, Answer
      <4> QED
        BY <4>2 DEF End, Idle, Base, TypeOK
    <3> QED
      BY <2>1, <2>3, <3>1, EvictKeepsHost DEF Finish, Base, TypeOK, RowsTyped
  <2> QED
    BY <2>1, <2>3 DEF Next, vars, HostRowsKept
<1>2. CASE busy[u].op # "owner leaving"
  <2>1. Leave(u)
    <3>1. Next /\ ~ UNCHANGED busy
      BY <1>2 DEF vars
    <3>2. PICK v \in Users : Changes(v)
      BY <3>1, OneHandler
    <3> QED
      BY <1>2, <3>2 DEF Changes
  <2>2. u = creator[Home[u]] /\ Open(Home[u]) /\ UNCHANGED creator
    BY <1>2, <2>1 DEF Leave, Command, Begin, Doing, Base, TypeOK
  <2>3. Home[u] = Host
    BY <2>2, RoomAssumption DEF Base, HostOK
  <2> QED
    BY <2>2, <2>3
<1> QED
  BY <1>1, <1>2

\* What a step may do to the row of the room's creator at the host.
LEMMA CreatorStep ==
    ASSUME Base, BannedIsOut, [Next]_vars, creator'[Host] \notin {creator[Host], NoUser}
    PROVE  /\ creator'[Host] \in members[Host] \ banned[Host]
           /\ \/ \E u \in Users : busy[u].op = "owner leaving" /\ creator'[Host] # u
              \/ offer = [from |-> creator[Host], to |-> creator'[Host]]
<1> USE RoomAssumption
<1>0. RowsTyped
  BY DEF Base, TypeOK, RowsTyped
<1> DEFINE Handed ==
      /\ creator'[Host] \in members[Host] \ banned[Host]
      /\ \/ \E u \in Users : busy[u].op = "owner leaving" /\ creator'[Host] # u
         \/ offer = [from |-> creator[Host], to |-> creator'[Host]]
<1>1. ASSUME NEW g \in Gateways, Drop(g)  PROVE FALSE
  BY <1>0, <1>1 DEF Drop, RowsTyped
<1>2. ASSUME NEW u \in Users, OwnerLeaveEnd(u)  PROVE Handed
  <2>1. PICK n \in Successors(u) : creator' = [creator EXCEPT ![Host] = n]
    BY <1>1, <1>2 DEF OwnerLeaveEnd, roomVars
  <2>2. n \in members[Host] /\ n # u
    BY <2>1 DEF Successors
  <2>3. creator'[Host] = n
    BY <1>0, <2>1 DEF RowsTyped
  <2> QED
    BY <1>2, <2>2, <2>3 DEF OwnerLeaveEnd, BannedIsOut
<1>3. ASSUME NEW u \in Users, Accept(u)  PROVE Handed
  <2>1. creator' = [creator EXCEPT ![Host] = u] /\ ~Stale(u) /\ u = offer.to
    BY <1>3 DEF Accept
  <2>2. creator'[Host] = u
    BY <1>0, <2>1 DEF RowsTyped
  <2>3. offer = [from |-> offer.from, to |-> offer.to]
    BY DEF Base, TypeOK
  <2> QED
    BY <2>1, <2>2, <2>3 DEF Stale
<1>4. CASE Finish
  BY <1>0, <1>4, <1>1, <1>2, EvictKeepsHost
  DEF Finish, LeaveEnd, LeaveMirrorEnd, BanEnd, DeleteEnd, Admit, Answer, roomVars,
      HostRowsKept
<1>5. CASE UserActs
  BY <1>5, <1>3
  DEF UserActs, Join, Leave, Decline, Delete, NewInvite, JoinRemote, LosePost, Kick,
      Ban, Unban, SetRole, Offer, roomVars
<1>6. CASE RelayTaken
  BY <1>0, <1>6, NewsKeepsHost
  DEF RelayTaken, LookUp, HandleLeave, Heard, HostRowsKept, roomVars
<1> QED
  BY <1>4, <1>5, <1>6 DEF Next, vars

\* However handlers interleave, the room goes only to a member of the host who
\* is not banned, by a leave that began as the owner's or by an offer that the
\* present owner made to just that member (_handle_transfer_ownership).
HandedToMember ==
    creator'[Host] \notin {creator[Host], NoUser} =>
      /\ creator'[Host] \in members[Host] \ banned[Host]
      /\ \/ \E u \in Users : busy[u].op = "owner leaving" /\ creator'[Host] # u
         \/ offer = [from |-> creator[Host], to |-> creator'[Host]]

THEOREM OnlyToMembers == Spec => [][HandedToMember]_vars
<1>1. Init => Base /\ BannedIsOut
  <2>1. ASSUME Init  PROVE BannedIsOut
    BY <2>1, RoomAssumption DEF Init, BannedIsOut
  <2> QED
    BY <2>1, BaseInit
<1>2. Base /\ BannedIsOut /\ [Next]_vars => (Base /\ BannedIsOut)'
  BY BaseStep, BannedStep
<1>3. Base /\ BannedIsOut /\ [Next]_vars => [HandedToMember]_vars
  BY CreatorStep DEF HandedToMember
<1> QED
  BY <1>1, <1>2, <1>3, PTL DEF Spec

\* OwnerHandsOver: when no other handler comes between the two halves of a
\* leave, the leaver is still the owner when the room is handed on, so that only
\* the present owner ever hands it on.  (With "leave" in Slow an offer accepted
\* meanwhile takes the room first, and the leaver hands on what is not theirs.)
THEOREM OwnersHandOver ==
    ASSUME "leave" \notin Slow
    PROVE  Spec => OwnerHandsOver
<1> DEFINE Inv == Base /\ BannedIsOut /\ OneAtATime /\ LeaverOwns
<1>1. Init => Inv
  <2>1. ASSUME Init  PROVE BannedIsOut /\ OneAtATime /\ LeaverOwns
    BY <2>1, RoomAssumption
    DEF Init, BannedIsOut, OneAtATime, LeaverOwns, Interleaves, Idle
  <2> QED
    BY <2>1, BaseInit
<1>2. Inv /\ [Next]_vars => Inv'
  BY BaseStep, BannedStep, OneAtATimeStep, LeaverStep
<1>3. Inv /\ [Next]_vars => [HandedOn]_vars
  <2>1. ASSUME Inv, [Next]_vars, creator'[Host] \notin {creator[Host], NoUser}
        PROVE  HandedOn
    BY <2>1, CreatorStep DEF HandedOn, LeaverOwns
  <2> QED
    BY <2>1 DEF HandedOn
<1> QED
  BY <1>1, <1>2, <1>3, PTL DEF Spec, OwnerHandsOver

-----------------------------------------------------------------------------
(* The mirrors end with the owner and the members of the host, when relays  *)
(* come in the order they were sent, no answer of a join gets lost, and of  *)
(* the handlers only a leave lets others in between.  First the rows and    *)
(* the joins.                                                               *)

Of(g) == {v \in Users : Home[v] = g}
Foreign(g) == Users \ Of(g)

\* The users of the rows; a gateway without the room has no rows, and only a
\* mirror keeps the row of who left.
RowsFit(g) ==
    /\ members[g] \subseteq Of(g) /\ fed[g] \subseteq Foreign(g)
    /\ ~Open(g) => members[g] = {} /\ fed[g] = {} /\ departed[g] = {} /\ banned[g] = {}
RowsSound == (\A g \in Gateways : RowsFit(g)) /\ departed[Host] = {}

\* Whom the relays of a kind are about.
Whose(q, act) == {q[i].who : i \in {j \in 1 .. Len(q) : q[j].act = act}}

\* A join comes behind the leaves of the user and is the only one.
Ordered(q) ==
    \A i, j \in 1 .. Len(q) :
      /\ q[i].act = "join" /\ q[j].act \in {"join", "leave"}
      /\ q[i].who = q[j].who /\ i # j
      => q[j].act = "leave" /\ j < i

\* Nobody is answered twice.
Once(q) ==
    \A i, j \in 1 .. Len(q) :
      q[i].act = "admitted" /\ q[j].act = "admitted" /\ q[i].who = q[j].who => i = j

\* What a mirror has POSTed: joins of users who wait for the answer, and
\* leaves of users who are out.
PostsFit(g) ==
    /\ Ordered(up[g])
    /\ Whose(up[g], "join") \subseteq {u \in Of(g) : busy[u].op = "joining"}
    /\ Whose(up[g], "leave") \subseteq
         {u \in Of(g) \ members[g] : busy[u].op \notin {"leaving", "lookup", "announcing"}}

\* The answers: of users of whom nothing is under way to the host.
AnswersFit(g) ==
    /\ Once(down[g])
    /\ Whose(down[g], "admitted") \subseteq {u \in Of(g) : busy[u].op = "joining"}
    /\ Whose(down[g], "admitted") \cap (Whose(up[g], "join") \cup Whose(up[g], "leave")) = {}

\* Users of mirrors join with a POST, users of the host leave as owners, and
\* who leaves is out at once.
HomeFits(u) ==
    /\ busy[u].op \in {"joining", "lookup", "announcing"} => Home[u] # Host
    /\ busy[u].op = "owner leaving" => Home[u] = Host
    /\ busy[u].op \in {"leaving", "owner leaving"} => u \notin members[Home[u]]
HomesFit == \A u \in Users : HomeFits(u)

JoinsSound == HomesFit /\ \A g \in Mirrors : PostsFit(g) /\ AnswersFit(g)

\* What a handler that lets nobody in between has read is still so.
HandlerSound(u) ==
    /\ busy[u].op = "banning" => /\ busy[u].who \in banned[Host]
                                 /\ busy[u].list \subseteq {busy[u].who}
    /\ busy[u].op \in {"lookup", "announcing"} => busy[u].who = creator[Host]
    /\ busy[u].op = "announcing" =>
         u \in fed[Host] /\ busy[u].list = (members[Host] \cup fed[Host]) \ {u}
    /\ busy[u].op = "deleting" => u = creator[Host]
HandlersSound == \A u \in Users : HandlerSound(u)

\* The handlers that let nobody in between when only a leave does.
Held == {"banning", "deleting", "lookup", "announcing"}
OnlyLeaves == Slow \subseteq {"leave"}

-----------------------------------------------------------------------------
(* Queues.                                                                  *)

LEMMA WithoutAt ==
    ASSUME NEW S, NEW q \in Seq(S), NEW i \in 1 .. Len(q)
    PROVE  /\ Without(q, i) \in Seq(S)
           /\ Len(Without(q, i)) = Len(q) - 1
           /\ \A j \in 1 .. Len(q) - 1 :
                Without(q, i)[j] = IF j < i THEN q[j] ELSE q[j + 1]
<1>0. Len(q) \in Nat
  BY LenProperties
<1>1. /\ SubSeq(q, 1, i - 1) \in Seq(S)
      /\ Len(SubSeq(q, 1, i - 1)) = i - 1
      /\ \A j \in 1 .. i - 1 : SubSeq(q, 1, i - 1)[j] = q[j]
  BY <1>0, SubSeqProperties
<1>2. /\ SubSeq(q, i + 1, Len(q)) \in Seq(S)
      /\ Len(SubSeq(q, i + 1, Len(q))) = Len(q) - i
      /\ \A j \in 1 .. Len(q) - i : SubSeq(q, i + 1, Len(q))[j] = q[i + j]
  BY <1>0, SubSeqProperties
<1> DEFINE a == SubSeq(q, 1, i - 1)
           b == SubSeq(q, i + 1, Len(q))
<1>3. /\ Without(q, i) = a \o b
      /\ a \in Seq(S) /\ Len(a) = i - 1 /\ (\A j \in 1 .. i - 1 : a[j] = q[j])
      /\ b \in Seq(S) /\ Len(b) = Len(q) - i /\ (\A j \in 1 .. Len(q) - i : b[j] = q[i + j])
  BY <1>1, <1>2 DEF Without
<1> HIDE DEF a, b
<1>4. /\ a \o b \in Seq(S)
      /\ Len(a \o b) = Len(a) + Len(b)
      /\ \A j \in 1 .. Len(a) + Len(b) :
           (a \o b)[j] = IF j <= Len(a) THEN a[j] ELSE b[j - Len(a)]
  BY <1>3, ConcatProperties
<1>5. ASSUME NEW j \in 1 .. Len(q) - 1
      PROVE  Without(q, i)[j] = IF j < i THEN q[j] ELSE q[j + 1]
  <2>1. j \in 1 .. Len(a) + Len(b)
    BY <1>0, <1>3, <1>5
  <2>2. CASE j < i
    BY <1>0, <1>3, <1>4, <2>1, <2>2
  <2>3. CASE ~(j < i)
    <3>1. Without(q, i)[j] = b[j - Len(a)]
      BY <1>0, <1>3, <1>4, <2>1, <2>3
    <3>2. j - Len(a) \in 1 .. Len(q) - i /\ i + (j - Len(a)) = j + 1
      BY <1>0, <1>3, <1>5, <2>3
    <3>3. b[j - Len(a)] = q[j + 1]
      BY <1>3, <3>2
    <3> QED
      BY <2>3, <3>1, <3>3
  <2> QED
    BY <2>2, <2>3
<1> QED
  BY <1>0, <1>3, <1>4, <1>5

LEMMA AppendAt ==
    ASSUME NEW S, NEW q \in Seq(S), NEW r \in S
    PROVE  /\ Append(q, r) \in Seq(S)
           /\ Len(Append(q, r)) = Len(q) + 1 /\ Len(q) \in Nat
           /\ \A j \in 1 .. Len(q) : Append(q, r)[j] = q[j]
           /\ Append(q, r)[Len(q) + 1] = r
  BY AppendProperties, LenProperties

LEMMA ConcatAt ==
    ASSUME NEW S, NEW q \in Seq(S), NEW z \in Seq(S)
    PROVE  /\ q \o z \in Seq(S)
           /\ Len(q \o z) = Len(q) + Len(z) /\ Len(q) \in Nat /\ Len(z) \in Nat
           /\ \A j \in 1 .. Len(q) : (q \o z)[j] = q[j]
           /\ \A j \in 1 .. Len(z) : (q \o z)[Len(q) + j] = z[j]
<1>1. Len(q) \in Nat /\ Len(z) \in Nat
  BY LenProperties
<1>2. /\ q \o z \in Seq(S)
      /\ Len(q \o z) = Len(q) + Len(z)
      /\ \A j \in 1 .. Len(q) + Len(z) :
           (q \o z)[j] = IF j <= Len(q) THEN q[j] ELSE z[j - Len(q)]
  BY ConcatProperties
<1>3. ASSUME NEW j \in 1 .. Len(z)  PROVE (q \o z)[Len(q) + j] = z[j]
  <2>1. Len(q) + j \in 1 .. Len(q) + Len(z) /\ ~(Len(q) + j <= Len(q))
        /\ (Len(q) + j) - Len(q) = j
    BY <1>1, <1>3
  <2> QED
    BY <1>2, <2>1
<1>4. ASSUME NEW j \in 1 .. Len(q)  PROVE (q \o z)[j] = q[j]
  <2>1. j \in 1 .. Len(q) + Len(z) /\ j <= Len(q)
    BY <1>1, <1>4
  <2> QED
    BY <1>2, <2>1
<1> QED
  BY <1>1, <1>2, <1>3, <1>4

LEMMA WhoseAppend ==
    ASSUME NEW S, NEW q \in Seq(S), NEW r \in S, NEW act
    PROVE  Whose(Append(q, r), act) =
             IF r.act = act THEN Whose(q, act) \cup {r.who} ELSE Whose(q, act)
<1>1. /\ Len(Append(q, r)) = Len(q) + 1 /\ Len(q) \in Nat
      /\ \A j \in 1 .. Len(q) : Append(q, r)[j] = q[j]
      /\ Append(q, r)[Len(q) + 1] = r
  BY AppendAt
<1> DEFINE a == Append(q, r)
           n == Len(q)
<1>2. Len(a) = n + 1 /\ n \in Nat /\ (\A j \in 1 .. n : a[j] = q[j]) /\ a[n + 1] = r
  BY <1>1
<1> HIDE DEF a, n
<1>3. Whose(a, act) = IF r.act = act THEN Whose(q, act) \cup {r.who} ELSE Whose(q, act)
  BY <1>2 DEF Whose, n
<1> QED
  BY <1>3 DEF a

LEMMA WhoseConcat ==
    ASSUME NEW S, NEW q \in Seq(S), NEW z \in Seq(S), NEW act
    PROVE  Whose(q \o z, act) = Whose(q, act) \cup Whose(z, act)
<1> DEFINE c == q \o z
           n == Len(q)
           m == Len(z)
<1>1. /\ Len(c) = n + m /\ n \in Nat /\ m \in Nat
      /\ \A j \in 1 .. n : c[j] = q[j]
      /\ \A j \in 1 .. m : c[n + j] = z[j]
  BY ConcatAt
<1>2. \A j \in 1 .. n + m : j \in 1 .. n \/ (j - n \in 1 .. m /\ n + (j - n) = j)
  BY <1>1
<1>3. \A j \in 1 .. m : n + j \in 1 .. n + m
  BY <1>1
<1> HIDE DEF c, n, m
<1>4. Whose(c, act) \subseteq Whose(q, act) \cup Whose(z, act)
  <2>1. ASSUME NEW j \in 1 .. Len(c), c[j].act = act
        PROVE  c[j].who \in Whose(q, act) \cup Whose(z, act)
    <3>1. CASE j \in 1 .. n
      BY <1>1, <2>1, <3>1 DEF Whose, n
    <3>2. CASE j \notin 1 .. n
      <4>1. j - n \in 1 .. m /\ c[j] = z[j - n]
        BY <1>1, <1>2, <2>1, <3>2
      <4> QED
        BY <2>1, <4>1 DEF Whose, m
    <3> QED
      BY <3>1, <3>2
  <2> QED
    BY <2>1 DEF Whose
<1>5. Whose(q, act) \subseteq Whose(c, act)
  BY <1>1 DEF Whose, n
<1>6. Whose(z, act) \subseteq Whose(c, act)
  <2>1. ASSUME NEW j \in 1 .. m, z[j].act = act  PROVE z[j].who \in Whose(c, act)
    BY <1>1, <1>3, <2>1 DEF Whose
  <2> QED
    BY <2>1 DEF Whose, m
<1>7. Whose(c, act) = Whose(q, act) \cup Whose(z, act)
  BY <1>4, <1>5, <1>6
<1> QED
  BY <1>7 DEF c

LEMMA WhoseWithout ==
    ASSUME NEW S, NEW q \in Seq(S), NEW i \in 1 .. Len(q), NEW act
    PROVE  /\ Whose(Without(q, i), act) \subseteq Whose(q, act)
           /\ Whose(q, act) \subseteq Whose(Without(q, i), act) \cup {q[i].who}
           /\ q[i].act # act => Whose(Without(q, i), act) = Whose(q, act)
<1> DEFINE w == Without(q, i)
           n == Len(q)
<1>1. /\ Len(w) = n - 1 /\ n \in Nat
      /\ \A j \in 1 .. n - 1 : w[j] = IF j < i THEN q[j] ELSE q[j + 1]
  BY WithoutAt, LenProperties
<1> HIDE DEF w
<1>2. ASSUME NEW j \in 1 .. Len(w), w[j].act = act
      PROVE  w[j].who \in Whose(q, act)
  <2>1. w[j] = q[j] \/ w[j] = q[j + 1]
    BY <1>1, <1>2
  <2>2. j \in 1 .. Len(q) /\ j + 1 \in 1 .. Len(q)
    BY <1>1, <1>2
  <2> QED
    BY <1>2, <2>1, <2>2 DEF Whose
<1>3. ASSUME NEW j \in 1 .. Len(q), q[j].act = act, j # i
      PROVE  q[j].who \in Whose(w, act)
  <2>1. CASE j < i
    <3>1. j \in 1 .. Len(w) /\ w[j] = q[j]
      BY <1>1, <1>3, <2>1
    <3> QED
      BY <1>3, <3>1 DEF Whose
  <2>2. CASE ~(j < i)
    <3>1. j - 1 \in 1 .. Len(w) /\ w[j - 1] = q[j]
      BY <1>1, <1>3, <2>2
    <3> QED
      BY <1>3, <3>1 DEF Whose
  <2> QED
    BY <2>1, <2>2
<1>4. Whose(w, act) \subseteq Whose(q, act)
  BY <1>2 DEF Whose
<1>5. Whose(q, act) \subseteq Whose(w, act) \cup {q[i].who}
  BY <1>3 DEF Whose
<1>6. q[i].act # act => Whose(q, act) \subseteq Whose(w, act)
  BY <1>3 DEF Whose
<1> QED
  BY <1>4, <1>5, <1>6 DEF w

LEMMA OrderedAppend ==
    ASSUME NEW S, NEW q \in Seq(S), NEW r \in S, Ordered(q), r.who \notin Whose(q, "join")
    PROVE  Ordered(Append(q, r))
<1> DEFINE a == Append(q, r)
           n == Len(q)
<1>1. Len(a) = n + 1 /\ n \in Nat /\ (\A j \in 1 .. n : a[j] = q[j]) /\ a[n + 1] = r
  BY AppendAt
<1> HIDE DEF a, n
<1>2. \A j \in 1 .. n : q[j].act = "join" => q[j].who # r.who
  BY DEF Whose, n
<1>3. \A j \in 1 .. n + 1 : j \in 1 .. n \/ j = n + 1
  BY <1>1
<1>4. \A j \in 1 .. n : j < n + 1
  BY <1>1
<1>5. ASSUME NEW i \in 1 .. Len(a), NEW j \in 1 .. Len(a), a[i].act = "join",
             a[j].act \in {"join", "leave"}, a[i].who = a[j].who, i # j
      PROVE  a[j].act = "leave" /\ j < i
  <2>1. i \in 1 .. n \/ i = n + 1
    BY <1>1, <1>3
  <2>2. j \in 1 .. n \/ j = n + 1
    BY <1>1, <1>3
  <2>3. CASE i \in 1 .. n /\ j \in 1 .. n
    BY <1>1, <1>5, <2>3 DEF Ordered, n
  <2>4. CASE i \in 1 .. n /\ j = n + 1
    BY <1>1, <1>2, <1>5, <2>4
  <2>5. CASE i = n + 1 /\ j \in 1 .. n
    BY <1>1, <1>2, <1>4, <1>5, <2>5
  <2> QED
    BY <1>5, <2>1, <2>2, <2>3, <2>4, <2>5
<1>6. Ordered(a)
  BY <1>5 DEF Ordered
<1> QED
  BY <1>6 DEF a

\* Where the relays of a queue without one of them were before.
LEMMA WithoutFrom ==
    ASSUME NEW S, NEW q \in Seq(S), NEW i \in 1 .. Len(q)
    PROVE  \A j \in 1 .. Len(Without(q, i)) :
             LET e == IF j < i THEN j ELSE j + 1
             IN  e \in 1 .. Len(q) /\ e # i /\ Without(q, i)[j] = q[e]
<1>1. /\ Len(Without(q, i)) = Len(q) - 1 /\ Len(q) \in Nat
      /\ \A j \in 1 .. Len(q) - 1 :
           Without(q, i)[j] = IF j < i THEN q[j] ELSE q[j + 1]
  BY WithoutAt, LenProperties
<1> DEFINE w == Without(q, i)
<1> HIDE DEF w
<1>2. ASSUME NEW j \in 1 .. Len(w)
      PROVE  LET e == IF j < i THEN j ELSE j + 1
             IN  e \in 1 .. Len(q) /\ e # i /\ w[j] = q[e]
  <2>1. j \in 1 .. Len(q) - 1
    BY <1>1 DEF w
  <2>2. w[j] = IF j < i THEN q[j] ELSE q[j + 1]
    BY <1>1, <2>1 DEF w
  <2>3. CASE j < i
    BY <1>1, <2>1, <2>2, <2>3
  <2>4. CASE ~(j < i)
    BY <1>1, <2>1, <2>2, <2>4
  <2> QED
    BY <2>3, <2>4
<1> QED
  BY <1>2 DEF w

LEMMA OrderedWithout ==
    ASSUME NEW S, NEW q \in Seq(S), NEW i \in 1 .. Len(q), Ordered(q)
    PROVE  /\ Ordered(Without(q, i))
           /\ q[i].act = "join" => q[i].who \notin Whose(Without(q, i), "join")
           /\ q[i].act = "join" /\ i = 1 => q[i].who \notin Whose(q, "leave")
<1> DEFINE w == Without(q, i)
           e(j) == IF j < i THEN j ELSE j + 1
<1>1. \A j \in 1 .. Len(w) : e(j) \in 1 .. Len(q) /\ e(j) # i /\ w[j] = q[e(j)]
  BY WithoutFrom
<1>2. \A j, k \in 1 .. Len(w) : (e(j) < e(k) => j < k) /\ (j # k => e(j) # e(k))
  <2>1. \A j \in 1 .. Len(w) : j \in Int
    OBVIOUS
  <2> QED
    BY <2>1
<1> HIDE DEF w, e
<1>3. Ordered(w)
  BY <1>1, <1>2 DEF Ordered
<1>4. q[i].act = "join" => q[i].who \notin Whose(w, "join")
  <2>1. ASSUME q[i].act = "join", NEW j \in 1 .. Len(w), w[j].act = "join",
               w[j].who = q[i].who
        PROVE  FALSE
    <3>1. e(j) \in 1 .. Len(q) /\ e(j) # i /\ q[e(j)].act = "join" /\ q[e(j)].who = q[i].who
      BY <1>1, <2>1
    <3> QED
      BY <2>1, <3>1 DEF Ordered
  <2> QED
    BY <2>1 DEF Whose
<1>5. q[i].act = "join" /\ i = 1 => q[i].who \notin Whose(q, "leave")
  <2>1. ASSUME q[1].act = "join", i = 1, NEW j \in 1 .. Len(q), q[j].act = "leave",
               q[j].who = q[1].who
        PROVE  FALSE
    <3>1. j # 1
      BY <2>1
    <3>2. j < 1
      BY <2>1, <3>1 DEF Ordered
    <3> QED
      BY <3>2, LenProperties
  <2> QED
    BY <2>1 DEF Whose
<1> QED
  BY <1>3, <1>4, <1>5 DEF w

LEMMA OnceAppend ==
    ASSUME NEW S, NEW q \in Seq(S), NEW r \in S, Once(q),
           r.act = "admitted" => r.who \notin Whose(q, "admitted")
    PROVE  Once(Append(q, r))
<1> DEFINE a == Append(q, r)
           n == Len(q)
<1>1. Len(a) = n + 1 /\ n \in Nat /\ (\A j \in 1 .. n : a[j] = q[j]) /\ a[n + 1] = r
  BY AppendAt
<1> HIDE DEF a, n
<1>2. \A j \in 1 .. n : q[j].act = "admitted" /\ r.act = "admitted" => q[j].who # r.who
  BY DEF Whose, n
<1>3. \A j \in 1 .. n + 1 : j \in 1 .. n \/ j = n + 1
  BY <1>1
<1>4. Once(a)
  BY <1>1, <1>2, <1>3 DEF Once, n
<1> QED
  BY <1>4 DEF a

LEMMA OnceConcat ==
    ASSUME NEW S, NEW q \in Seq(S), NEW z \in Seq(S), Once(q), Whose(z, "admitted") = {}
    PROVE  Once(q \o z)
<1> DEFINE c == q \o z
           n == Len(q)
           m == Len(z)
<1>1. /\ Len(c) = n + m /\ n \in Nat /\ m \in Nat
      /\ \A j \in 1 .. n : c[j] = q[j]
      /\ \A j \in 1 .. m : c[n + j] = z[j]
  BY ConcatAt
<1>2. \A j \in 1 .. n + m : j \in 1 .. n \/ (j - n \in 1 .. m /\ n + (j - n) = j)
  BY <1>1
<1>3. \A j \in 1 .. m : z[j].act # "admitted"
  BY DEF Whose, m
<1> HIDE DEF c, n, m
<1>4. \A j \in 1 .. Len(c) : c[j].act = "admitted" => j \in 1 .. n /\ c[j] = q[j]
  <2>1. ASSUME NEW j \in 1 .. Len(c), c[j].act = "admitted", j \notin 1 .. n
        PROVE  FALSE
    <3>1. j - n \in 1 .. m /\ n + (j - n) = j
      BY <1>1, <1>2, <2>1
    <3>2. c[j] = z[j - n]
      BY <1>1, <3>1
    <3> QED
      BY <1>3, <2>1, <3>1, <3>2
  <2> QED
    BY <1>1, <2>1
<1>5. Once(c)
  BY <1>4 DEF Once, n
<1> QED
  BY <1>5 DEF c

LEMMA OnceWithout ==
    ASSUME NEW S, NEW q \in Seq(S), NEW i \in 1 .. Len(q), Once(q)
    PROVE  /\ Once(Without(q, i))
           /\ q[i].act = "admitted" => q[i].who \notin Whose(Without(q, i), "admitted")
<1> DEFINE w == Without(q, i)
           e(j) == IF j < i THEN j ELSE j + 1
<1>1. \A j \in 1 .. Len(w) : e(j) \in 1 .. Len(q) /\ e(j) # i /\ w[j] = q[e(j)]
  BY WithoutFrom
<1>2. \A j, k \in 1 .. Len(w) : j # k => e(j) # e(k)
  <2>1. \A j \in 1 .. Len(w) : j \in Int
    OBVIOUS
  <2> QED
    BY <2>1
<1> HIDE DEF w, e
<1>3. Once(w)
  BY <1>1, <1>2 DEF Once
<1>4. q[i].act = "admitted" => q[i].who \notin Whose(w, "admitted")
  BY <1>1 DEF Once, Whose
<1> QED
  BY <1>3, <1>4 DEF w

-----------------------------------------------------------------------------
(* The rows stay sound.                                                     *)

LEMMA RowsSoundStep ==
    ASSUME Base, RowsSound, JoinsSound, HandlersSound, MirrorOK, Next
    PROVE  RowsSound'
<1> USE RoomAssumption
<1>0. RowsTyped /\ RowsSound /\ NoUser \notin Users
  BY DEF Base, TypeOK, RowsTyped
<1> DEFINE Kept(k) == /\ creator'[k] = creator[k] /\ members'[k] = members[k]
                      /\ fed'[k] = fed[k] /\ departed'[k] = departed[k]
                      /\ banned'[k] = banned[k]
<1>1. ASSUME NEW g \in Gateways, RowsFit(g)', \A k \in Gateways \ {g} : Kept(k),
             g = Host => departed'[Host] = {}
      PROVE  RowsSound'
  BY <1>0, <1>1 DEF RowsSound, RowsFit, Open
<1>2. CASE UNCHANGED roomVars
  BY <1>0, <1>2 DEF RowsSound, RowsFit, Open, roomVars
<1>3. ASSUME NEW g \in Gateways, Drop(g)  PROVE RowsSound'
  <2>1. RowsFit(g)' /\ (g = Host => departed'[Host] = {})
    BY <1>0, <1>3 DEF Drop, RowsTyped, RowsFit, Open
  <2>2. \A k \in Gateways \ {g} : Kept(k)
    BY <1>0, <1>3 DEF Drop, RowsTyped
  <2> QED
    BY <1>1, <2>1, <2>2
<1>4. ASSUME NEW g \in Gateways, NEW S, S \subseteq members[g],
             members' = [members EXCEPT ![g] = S],
             UNCHANGED <<creator, fed, departed, banned>>
      PROVE  RowsSound'
  <2>1. RowsFit(g)' /\ (g = Host => departed'[Host] = {})
    BY <1>0, <1>4 DEF RowsTyped, RowsSound, RowsFit, Open
  <2>2. \A k \in Gateways \ {g} : Kept(k)
    BY <1>0, <1>4 DEF RowsTyped
  <2> QED
    BY <1>1, <2>1, <2>2
<1>5. ASSUME NEW u \in Users, Remove(u), UNCHANGED creator,
             \/ UNCHANGED banned
             \/ Open(Host) /\ banned' = [banned EXCEPT ![Host] = @ \cup {u}]
      PROVE  RowsSound'
  <2>1. RowsFit(Host)' /\ departed'[Host] = {}
    BY <1>0, <1>5 DEF Remove, DropFed, RowsTyped, RowsSound, RowsFit, Open
  <2>2. \A k \in Gateways \ {Host} : Kept(k)
    BY <1>0, <1>5 DEF RowsTyped, Remove, DropFed
  <2> QED
    BY <1>1, <2>1, <2>2
<1>6. ASSUME NEW n \in Users, Open(Host), creator' = [creator EXCEPT ![Host] = n],
             UNCHANGED <<members, fed, departed, banned>>
      PROVE  RowsSound'
  BY <1>0, <1>6 DEF RowsTyped, RowsSound, RowsFit, Open
<1>7. ASSUME NEW u \in Users, Join(u)  PROVE RowsSound'
  <2>1. u \in Of(Host) /\ Open(Host) /\ UNCHANGED <<creator, fed, departed, banned>>
        /\ members' = [members EXCEPT ![Host] = @ \cup {u}]
    BY <1>7 DEF Join, Command, Of
  <2> QED
    BY <1>0, <2>1 DEF RowsTyped, RowsSound, RowsFit, Open
<1>8. ASSUME NEW u \in Users, Leave(u)  PROVE RowsSound'
  <2>1. Home[u] \in Gateways /\ members[Home[u]] \ {u} \subseteq members[Home[u]]
    OBVIOUS
  <2> QED
    BY <1>4, <1>8, <2>1 DEF Leave
<1>9. ASSUME NEW u \in Users, OwnerLeaveEnd(u)  PROVE RowsSound'
  <2>1. ASSUME NEW n \in Successors(u), creator' = [creator EXCEPT ![Host] = n],
               UNCHANGED <<members, fed, departed, banned>>
        PROVE  RowsSound'
    <3>1. n \in members[Host]
      BY DEF Successors
    <3>2. n \in Users /\ Open(Host)
      BY <1>0, <3>1 DEF RowsTyped, RowsSound, RowsFit
    <3> QED
      BY <1>6, <2>1, <3>2
  <2> QED
    BY <1>2, <1>3, <1>9, <2>1 DEF OwnerLeaveEnd
<1>10. ASSUME NEW u \in Users, Accept(u)  PROVE RowsSound'
  BY <1>2, <1>6, <1>10 DEF Accept, Command, roomVars
<1>11. ASSUME NEW u \in Users, NEW t \in Users, Kick(u, t) \/ Ban(u, t)
       PROVE  RowsSound'
  BY <1>5, <1>11 DEF Kick, Ban, Command
<1>12. ASSUME NEW u \in Users, NEW t \in Users, Unban(u, t)  PROVE RowsSound'
  BY <1>0, <1>12 DEF Unban, RowsTyped, RowsSound, RowsFit, Open
<1>13. ASSUME NEW u \in Users, Admit(u)  PROVE RowsSound'
  <2>1. busy[u].op = "lookup" /\ UNCHANGED <<creator, members, banned>>
    BY <1>13 DEF Admit
  <2>2. Home[u] # Host /\ busy[u].who = creator[Host] /\ busy[u].who \in Users
    BY <2>1 DEF JoinsSound, HomesFit, HomeFits, HandlersSound, HandlerSound, Base, BusyOK
  <2>3. u \in Foreign(Host) /\ Open(Host)
    BY <1>0, <2>2 DEF Foreign, Of, Open
  <2>4. UNCHANGED <<fed, departed>> \/ AddFed(Host, u)
    BY <1>13 DEF Admit
  <2> QED
    BY <1>0, <1>2, <2>1, <2>3, <2>4
    DEF AddFed, RowsTyped, RowsSound, RowsFit, Open, roomVars
<1>14. ASSUME NEW g \in Mirrors, NEW r, HandleLeave(g, r)  PROVE RowsSound'
  <2>1. r \in Relay
    BY <1>14, ReachesOK DEF HandleLeave, Base, TypeOK
  <2>2. r.who \in Users
    BY <2>1 DEF Relay
  <2> QED
    BY <1>2, <1>5, <1>14, <2>2 DEF HandleLeave
<1>15. ASSUME NEW g \in Mirrors, NEW u, Evict(g, u)  PROVE RowsSound'
  <2>1. g \in Gateways
    BY DEF Mirrors
  <2> QED
    BY <1>3, <1>4, <1>15, <2>1 DEF Evict
<1>16. ASSUME NEW g \in Mirrors, NEW r, Admitted(g, r)  PROVE RowsSound'
  <2> DEFINE known == {w \in r.list : w # r.who /\ ~IsLocal(g, w)} \cup {r.by}
  <2>1. /\ g \in Gateways /\ g # Host /\ r.by \in Users /\ Home[r.by] = Host
        /\ r.who \in Users /\ r.list \subseteq Users
    BY <1>16, NewsOK DEF Admitted, Honest
  <2>2. r.who \in Of(g)
    <3>1. PICK i \in 1 .. Len(down[g]) : down[g][i] = r
      BY <1>16 DEF Admitted, Gets, Ready
    <3>2. r.who \in Whose(down[g], "admitted")
      BY <1>16, <3>1 DEF Admitted, Whose
    <3> QED
      BY <3>2 DEF JoinsSound, AnswersFit
  <2>3. known \subseteq Foreign(g)
    <3>1. ASSUME NEW w \in Users, ~IsLocal(g, w)  PROVE w \in Foreign(g)
      BY <1>0, <2>1, <3>1 DEF IsLocal, Visible, RowsSound, RowsFit, Foreign, Of
    <3> QED
      BY <2>1, <3>1 DEF Foreign, Of
  <2> HIDE DEF known
  <2>4. CASE UNCHANGED <<creator, members, fed, departed>>
    BY <1>2, <1>16, <2>4 DEF Admitted, roomVars
  <2>5. CASE /\ creator' = [creator EXCEPT ![g] = r.by]
             /\ members' = [members EXCEPT ![g] = @ \cup {r.who}]
             /\ fed' = [fed EXCEPT ![g] = @ \cup known]
             /\ departed' = [departed EXCEPT ![g] =
                               (@ \ known) \cup ({r.by} \ r.list)]
    <3>1. UNCHANGED banned
      BY <1>16 DEF Admitted
    <3>2. RowsFit(g)'
      <4>1. creator'[g] = r.by /\ members'[g] = members[g] \cup {r.who}
            /\ fed'[g] = fed[g] \cup known
        BY <1>0, <2>1, <2>5 DEF RowsTyped
      <4> QED
        BY <1>0, <2>1, <2>2, <2>3, <4>1 DEF RowsSound, RowsFit, Open
    <3>3. \A k \in Gateways \ {g} : Kept(k)
      BY <1>0, <2>1, <2>5, <3>1 DEF RowsTyped
    <3> QED
      BY <1>1, <2>1, <3>2, <3>3
  <2> QED
    BY <1>16, <2>4, <2>5 DEF Admitted, known
<1>17. ASSUME NEW g \in Mirrors, NEW r,
              HandleMemberJoined(g, r) \/ HandleMemberLeft(g, r) \/ HandleOwnerChanged(g, r)
              \/ HandleKick(g, r) \/ HandleBan(g, r) \/ HandleUnban(g, r)
       PROVE  RowsSound'
  <2>0. g \in Gateways /\ g # Host /\ r.who \in Users /\ UNCHANGED members
    BY <1>17, NewsOK
    DEF HandleMemberJoined, HandleMemberLeft, HandleOwnerChanged, HandleKick, HandleBan,
        HandleUnban
  <2>1. \/ UNCHANGED roomVars
        \/ Open(g)
    <3>1. CASE Vouched(g, r)
      BY <3>1 DEF Vouched
    <3>2. CASE ~Vouched(g, r)
      <4>1. CASE HandleMemberJoined(g, r) \/ HandleMemberLeft(g, r)
        BY <3>2, <4>1 DEF HandleMemberJoined, HandleMemberLeft, roomVars
      <4>2. CASE HandleOwnerChanged(g, r) \/ HandleKick(g, r)
        BY <3>2, <4>2 DEF HandleOwnerChanged, HandleKick, roomVars
      <4>3. CASE HandleBan(g, r) \/ HandleUnban(g, r)
        BY <3>2, <4>3 DEF HandleBan, HandleUnban, roomVars
      <4> QED
        BY <1>17, <4>1, <4>2, <4>3
    <3> QED
      BY <3>1, <3>2
  <2>2. \/ UNCHANGED <<fed, departed>>
        \/ UNCHANGED fed /\ \E D : departed' = [departed EXCEPT ![g] = D]
        \/ ~IsLocal(g, r.who) /\ AddFed(g, r.who)
        \/ DropFed(g, r.who)
    BY <1>17
    DEF HandleMemberJoined, HandleMemberLeft, HandleOwnerChanged, HandleKick, HandleBan,
        HandleUnban
  <2>3. \/ UNCHANGED creator
        \/ creator' = [creator EXCEPT ![g] = r.who]
    BY <1>17
    DEF HandleMemberJoined, HandleMemberLeft, HandleOwnerChanged, HandleKick, HandleBan,
        HandleUnban
  <2>4. \/ UNCHANGED banned
        \/ \E B : banned' = [banned EXCEPT ![g] = B]
    BY <1>17
    DEF HandleMemberJoined, HandleMemberLeft, HandleOwnerChanged, HandleKick, HandleBan,
        HandleUnban
  <2>5. ~IsLocal(g, r.who) => r.who \in Foreign(g)
    BY <1>0, <2>0 DEF IsLocal, Visible, RowsSound, RowsFit, Foreign, Of
  <2>6. \A k \in Gateways \ {g} : Kept(k)
    <3>1. \A k \in Gateways \ {g} : creator'[k] = creator[k] /\ members'[k] = members[k]
      BY <1>0, <2>0, <2>3 DEF RowsTyped
    <3>2. \A k \in Gateways \ {g} : banned'[k] = banned[k]
      BY <1>0, <2>0, <2>4 DEF RowsTyped
    <3>3. \A k \in Gateways \ {g} : fed'[k] = fed[k] /\ departed'[k] = departed[k]
      BY <1>0, <2>0, <2>2 DEF RowsTyped, AddFed, DropFed
    <3> QED
      BY <3>1, <3>2, <3>3
  <2>7. CASE Open(g)
    <3>1. Open(g)'
      BY <1>0, <2>0, <2>3, <2>7 DEF Open, RowsTyped
    <3>2. fed'[g] \subseteq Foreign(g)
      BY <1>0, <2>0, <2>2, <2>5 DEF RowsTyped, AddFed, DropFed, RowsSound, RowsFit
    <3>3. RowsFit(g)'
      BY <1>0, <2>0, <3>1, <3>2 DEF RowsSound, RowsFit, Foreign, Of
    <3> QED
      BY <1>1, <2>0, <2>6, <3>3
  <2> QED
    BY <1>2, <2>1, <2>7
<1>18. ASSUME NEW g \in Mirrors, NEW r, HandleDelete(g, r)  PROVE RowsSound'
  BY <1>2, <1>3, <1>18 DEF HandleDelete, Mirrors
<1>19. ASSUME NEW u \in Users, LeaveMirrorEnd(u) \/ DeleteEnd(u)  PROVE RowsSound'
  BY <1>2, <1>3, <1>19 DEF LeaveMirrorEnd, DeleteEnd
<1>20. CASE Finish
  BY <1>20, <1>2, <1>9, <1>13, <1>15, <1>19 DEF Finish, LeaveEnd, BanEnd, Answer
<1>21. CASE UserActs
  BY <1>21, <1>2, <1>7, <1>8, <1>10, <1>11, <1>12
  DEF UserActs, Decline, Delete, NewInvite, JoinRemote, LosePost, SetRole, Offer
<1>22. CASE RelayTaken
  BY <1>22, <1>2, <1>14, <1>16, <1>17, <1>18 DEF RelayTaken, LookUp
<1> QED
  BY <1>20, <1>21, <1>22 DEF Next

-----------------------------------------------------------------------------
(* The handlers stay sound.                                                 *)

LEMMA NobodyHeld ==
    ASSUME OnlyLeaves, ~Running
    PROVE  /\ \A u \in Users : busy[u].op \notin Held
           /\ \A g \in Mirrors : evicting[g] = {}
<1>1. /\ \A u \in Users : Interleaves(busy[u].op)
      /\ \A g \in Mirrors : evicting[g] = {}
  BY DEF Running, OnlyLeaves
<1> QED
  BY <1>1 DEF Interleaves, Held, OnlyLeaves

LEMMA OthersFree ==
    ASSUME OnlyLeaves, OneAtATime, NEW u \in Users, Running => ~Interleaves(busy[u].op)
    PROVE  \A v \in Users \ {u} : busy[v].op \notin Held
<1>1. \A v \in Users \ {u} : Interleaves(busy[v].op)
  BY DEF OneAtATime, Running
<1> QED
  BY <1>1 DEF Interleaves, Held, OnlyLeaves

\* A step that lets a user's handler go on, or begins one, touches no other.
Going(u) ==
    \/ LeaveEnd(u) \/ LeaveMirrorEnd(u) \/ OwnerLeaveEnd(u) \/ BanEnd(u)
    \/ DeleteEnd(u) \/ Admit(u) \/ Answer(u)

LEMMA HandlersSoundStep ==
    ASSUME Base, RowsSound, HandlersSound, OneAtATime, OnlyLeaves, BannedIsOut, Next
    PROVE  HandlersSound'
<1> USE RoomAssumption
<1>0. RowsTyped /\ HandlersSound /\ DOMAIN busy = Users
  BY DEF Base, TypeOK, RowsTyped
<1>1. ASSUME NEW u \in Users, HandlerSound(u)',
             \A v \in Users \ {u} : busy'[v] = busy[v] /\ busy[v].op \notin Held
      PROVE  HandlersSound'
  BY <1>1 DEF HandlersSound, HandlerSound, Held
<1>2. ASSUME UNCHANGED busy, \A v \in Users : busy[v].op \notin Held
      PROVE  HandlersSound'
  BY <1>2 DEF HandlersSound, HandlerSound, Held
<1>3. ASSUME NEW u \in Users, NEW op, NEW who, NEW list, op \notin Held,
             busy' = [busy EXCEPT ![u] = Doing(op, who, list)],
             \A v \in Users \ {u} : busy[v].op \notin Held
      PROVE  HandlersSound'
  <2>1. HandlerSound(u)'
    BY <1>0, <1>3 DEF HandlerSound, Held, Doing
  <2>2. \A v \in Users \ {u} : busy'[v] = busy[v]
    BY <1>0, <1>3
  <2> QED
    BY <1>1, <1>3, <2>1, <2>2
<1>4. ASSUME NEW u \in Users, End(u), \A v \in Users \ {u} : busy[v].op \notin Held
      PROVE  HandlersSound'
  <2>1. Idle = Doing("idle", NoUser, {}) /\ "idle" \notin Held
    BY DEF Idle, Doing, Held
  <2> QED
    BY <1>3, <1>4, <2>1 DEF End
<1>5. ASSUME NEW u \in Users, Admit(u), \A v \in Users \ {u} : busy[v].op \notin Held
      PROVE  HandlersSound'
  <2>1. CASE End(u)
    BY <1>4, <1>5, <2>1
  <2>2. CASE ~Refused(u)
    <3>1. /\ busy' = [busy EXCEPT ![u] = Doing("announcing", @.who,
                       (members[Host] \cup Visible(Host)) \ {u})]
          /\ AddFed(Host, u) /\ busy[u].op = "lookup" /\ UNCHANGED <<creator, members, banned>>
      BY <1>5, <2>2 DEF Admit
    <3>2. busy'[u] = Doing("announcing", busy[u].who, (members[Host] \cup Visible(Host)) \ {u})
      BY <1>0, <3>1
    <3>3. /\ busy'[u].op = "announcing" /\ busy'[u].who = busy[u].who
          /\ busy'[u].list = (members[Host] \cup Visible(Host)) \ {u}
      BY <3>2 DEF Doing
    <3>4. fed'[Host] = fed[Host] \cup {u} /\ Visible(Host) = fed[Host]
      BY <1>0, <3>1 DEF AddFed, RowsTyped, Visible, BannedIsOut
    <3>5. busy[u].who = creator[Host]
      BY <1>0, <3>1 DEF HandlersSound, HandlerSound
    <3>6. HandlerSound(u)'
      BY <3>1, <3>3, <3>4, <3>5 DEF HandlerSound
    <3>7. \A v \in Users \ {u} : busy'[v] = busy[v]
      BY <1>0, <3>1
    <3> QED
      BY <1>1, <1>5, <3>6, <3>7
  <2> QED
    BY <1>5, <2>1, <2>2 DEF Admit
<1>6. ASSUME NEW u \in Users, Going(u), \A v \in Users \ {u} : busy[v].op \notin Held
      PROVE  HandlersSound'
  <2>1. CASE Answer(u)
    <3>1. "joining" \notin Held
      BY DEF Held
    <3> QED
      BY <1>3, <1>6, <2>1, <3>1 DEF Answer
  <2> QED
    BY <1>4, <1>5, <1>6, <2>1
    DEF Going, LeaveEnd, LeaveMirrorEnd, OwnerLeaveEnd, BanEnd, DeleteEnd
<1>7. ASSUME NEW g \in Mirrors, NEW u, Evict(g, u)  PROVE HandlersSound'
  <2>1. HostRowsKept /\ UNCHANGED busy
    BY <1>0, <1>7, EvictKeepsHost DEF Evict
  <2> QED
    BY <1>0, <2>1 DEF HostRowsKept, HandlersSound, HandlerSound
<1>8. CASE Finish
  BY <1>6, <1>7, <1>8, OthersFree DEF Finish, Going
<1>9. ASSUME ~Running, NEW u \in Users, Leave(u) \/ JoinRemote(u) \/ LosePost(u)
      PROVE  HandlersSound'
  <2>1. \A v \in Users : busy[v].op \notin Held
    BY <1>9, NobodyHeld
  <2>2. {"leaving", "owner leaving", "joining"} \cap Held = {}
    BY DEF Held
  <2>3. \/ End(u)
        \/ Begin(u, "leaving", NoUser) \/ Begin(u, "owner leaving", NoUser)
        \/ Begin(u, "joining", NoUser)
    BY <1>9 DEF Leave, JoinRemote, LosePost
  <2> QED
    BY <1>3, <1>4, <2>1, <2>2, <2>3 DEF Begin
<1>10. ASSUME ~Running, NEW u \in Users, Delete(u)
       PROVE  HandlersSound'
  <2>1. \A v \in Users : busy[v].op \notin Held
    BY <1>10, NobodyHeld
  <2>2. busy' = [busy EXCEPT ![u] = Doing("deleting", NoUser, {})] /\ UNCHANGED roomVars
        /\ u = Owner(Host)
    BY <1>10 DEF Delete, Begin
  <2>3. u = creator[Host]
    BY <2>2 DEF Owner
  <2>4. busy'[u].op = "deleting" /\ \A v \in Users \ {u} : busy'[v] = busy[v]
    BY <1>0, <2>2 DEF Doing
  <2>5. HandlerSound(u)'
    BY <2>2, <2>3, <2>4 DEF HandlerSound, roomVars
  <2> QED
    BY <1>1, <2>1, <2>4, <2>5
<1>11. ASSUME ~Running, NEW u \in Users, NEW t \in Users, Ban(u, t)
       PROVE  HandlersSound'
  <2>1. \A v \in Users : busy[v].op \notin Held
    BY <1>11, NobodyHeld
  <2>2. /\ busy' = [busy EXCEPT ![u] = Doing("banning", t, {t} \cap Visible(Host))]
        /\ banned' = [banned EXCEPT ![Host] = @ \cup {t}]
    BY <1>11 DEF Ban
  <2>3. /\ busy'[u].op = "banning" /\ busy'[u].who = t /\ busy'[u].list \subseteq {t}
        /\ \A v \in Users \ {u} : busy'[v] = busy[v]
    BY <1>0, <2>2 DEF Doing
  <2>4. t \in banned'[Host]
    BY <1>0, <2>2 DEF RowsTyped
  <2>5. HandlerSound(u)'
    BY <2>3, <2>4 DEF HandlerSound
  <2> QED
    BY <1>1, <2>1, <2>3, <2>5
<1>12. CASE ~Running /\ UserActs
  <2>1. \A v \in Users : busy[v].op \notin Held
    BY <1>12, NobodyHeld
  <2> QED
    BY <1>12, <1>2, <1>9, <1>10, <1>11, <2>1
    DEF UserActs, Join, Accept, Decline, NewInvite, Kick, Unban, SetRole, Offer
<1>13. ASSUME ~Running, NEW g \in Mirrors, NEW r, LookUp(g, r)
       PROVE  HandlersSound'
  <2>1. \A v \in Users : busy[v].op \notin Held
    BY <1>13, NobodyHeld
  <2>2. r.who \in Users
    <3>1. r \in Relay
      BY <1>13, ReachesOK DEF LookUp, Base, TypeOK
    <3> QED
      BY <3>1 DEF Relay
  <2>3. CASE busy' = [busy EXCEPT ![r.who] = Doing("lookup", creator[Host], {})]
    <3>1. busy'[r.who].op = "lookup" /\ busy'[r.who].who = creator[Host]
          /\ \A v \in Users \ {r.who} : busy'[v] = busy[v]
      BY <1>0, <2>2, <2>3 DEF Doing
    <3>2. UNCHANGED creator
      BY <1>13 DEF LookUp, roomVars
    <3>3. HandlerSound(r.who)'
      BY <3>1, <3>2 DEF HandlerSound
    <3> QED
      BY <1>1, <2>1, <2>2, <3>1, <3>3
  <2>4. CASE End(r.who)
    BY <1>4, <2>1, <2>2, <2>4
  <2> QED
    BY <1>13, <2>3, <2>4 DEF LookUp, End
<1>14. CASE ~Running /\ RelayTaken
  <2>1. \A v \in Users : busy[v].op \notin Held
    BY <1>14, NobodyHeld
  <2>2. ASSUME NEW g \in Mirrors, NEW r, HandleLeave(g, r)
        PROVE  HandlersSound'
    BY <1>2, <2>1, <2>2 DEF HandleLeave
  <2>3. ASSUME NEW g \in Mirrors, NEW r, Heard(g, r)
        PROVE  HandlersSound'
    <3>1. CASE Admitted(g, r)
      BY <1>4, <2>1, <3>1, NewsOK DEF Admitted
    <3>2. CASE ~Admitted(g, r)
      BY <1>2, <2>1, <2>3, <3>2
      DEF Heard, HandleMemberJoined, HandleMemberLeft, HandleOwnerChanged, HandleDelete,
          HandleKick, HandleBan, HandleUnban
    <3> QED
      BY <3>1, <3>2
  <2> QED
    BY <1>13, <1>14, <2>2, <2>3 DEF RelayTaken, Heard
<1> QED
  BY <1>8, <1>12, <1>14 DEF Next

-----------------------------------------------------------------------------
(* The joins stay sound.                                                    *)

\* What a step does to the members and the users' handlers, as far as the joins
\* go: nobody gets in but users of S, and only those go on.
NoNewMembers == \A k \in Gateways : members'[k] \subseteq members[k]

LEMMA DropsMembers ==
    ASSUME RowsTyped, NEW g \in Gateways, Drop(g)
    PROVE  NoNewMembers
  BY DEF RowsTyped, Drop, NoNewMembers

LEMMA RemovesMembers ==
    ASSUME RowsTyped, NEW u, Remove(u)
    PROVE  NoNewMembers
  BY RoomAssumption DEF RowsTyped, Remove, NoNewMembers

\* Who gets in at all.
LEMMA Newcomers ==
    ASSUME Base, Next
    PROVE  \/ NoNewMembers
           \/ \E u \in Users : Join(u)
           \/ \E g \in Mirrors : \E r \in {down[g][i] : i \in 1 .. Len(down[g])} : Admitted(g, r)
<1> USE RoomAssumption
<1>0. RowsTyped
  BY DEF Base, TypeOK, RowsTyped
<1>1. ASSUME members' = members  PROVE NoNewMembers
  BY <1>1 DEF NoNewMembers
<1>2. ASSUME NEW u \in Users, Leave(u)  PROVE NoNewMembers
  BY <1>0, <1>2 DEF Leave, RowsTyped, NoNewMembers
<1>3. ASSUME NEW g \in Mirrors, NEW u, Evict(g, u)  PROVE NoNewMembers
  <2>1. g \in Gateways
    BY DEF Mirrors
  <2>2. Drop(g) \/ members' = [members EXCEPT ![g] = @ \ {u}]
    BY <1>3 DEF Evict
  <2> QED
    BY <1>0, <2>1, <2>2, DropsMembers DEF RowsTyped, NoNewMembers
<1>4. CASE Finish
  BY <1>0, <1>1, <1>3, <1>4, DropsMembers
  DEF Finish, LeaveEnd, LeaveMirrorEnd, OwnerLeaveEnd, BanEnd, DeleteEnd, Admit, Answer,
      roomVars
<1>5. CASE UserActs
  BY <1>0, <1>1, <1>2, <1>5, RemovesMembers
  DEF UserActs, Accept, Decline, Delete, NewInvite, JoinRemote, LosePost, Kick, Ban,
      Unban, SetRole, Offer, roomVars
<1>6. CASE RelayTaken
  <2>1. ASSUME NEW g \in Mirrors, NEW r, HandleDelete(g, r)  PROVE NoNewMembers
    <3>1. g \in Gateways /\ (Drop(g) \/ members' = members)
      BY <2>1 DEF HandleDelete, Mirrors, roomVars
    <3> QED
      BY <1>0, <1>1, <3>1, DropsMembers
  <2>2. ASSUME NEW g \in Mirrors, NEW r, LookUp(g, r) \/ HandleLeave(g, r)
        PROVE  NoNewMembers
    <3>1. Remove(r.who) \/ members' = members
      BY <2>2 DEF LookUp, HandleLeave, roomVars
    <3> QED
      BY <1>0, <1>1, <3>1, RemovesMembers
  <2> QED
    BY <1>1, <1>6, <2>1, <2>2
    DEF RelayTaken, HandleMemberJoined, HandleMemberLeft, HandleOwnerChanged, HandleKick,
        HandleBan, HandleUnban
<1> QED
  BY <1>4, <1>5, <1>6 DEF Next

\* Who joins with the answer of a POST.
LEMMA AnsweredUser ==
    ASSUME Base, JoinsSound, NEW g \in Mirrors, NEW r, Admitted(g, r)
    PROVE  /\ r.who \in Of(g) /\ busy[r.who].op = "joining"
           /\ r.who \notin Whose(up[g], "leave") /\ r.who \notin Whose(up[g], "join")
<1>1. PICK i \in 1 .. Len(down[g]) : down[g][i] = r
  BY DEF Admitted, Gets, Ready
<1>2. r.who \in Whose(down[g], "admitted")
  BY <1>1 DEF Admitted, Whose
<1> QED
  BY <1>2 DEF JoinsSound, AnswersFit

LEMMA LookedUpUser ==
    ASSUME Base, JoinsSound, NEW g \in Mirrors, NEW r, LookUp(g, r)
    PROVE  r.who \in Of(g) /\ busy[r.who].op = "joining"
<1>1. PICK i \in 1 .. Len(up[g]) : up[g][i] = r
  BY DEF LookUp, Reaches, Ready
<1>2. r.who \in Whose(up[g], "join")
  BY <1>1 DEF LookUp, Whose
<1> QED
  BY <1>2 DEF JoinsSound, PostsFit

LEMMA HomesStep ==
    ASSUME Base, JoinsSound, Next
    PROVE  HomesFit'
<1> USE RoomAssumption
<1>0. RowsTyped /\ HomesFit /\ DOMAIN busy = Users
  BY DEF Base, TypeOK, RowsTyped, JoinsSound
<1>1. ASSUME NEW u \in Users, NoNewMembers, HomeFits(u)',
             \A v \in Users \ {u} : busy'[v] = busy[v]
      PROVE  HomesFit'
  BY <1>0, <1>1 DEF HomesFit, HomeFits, NoNewMembers
<1>2. ASSUME NoNewMembers, UNCHANGED busy
      PROVE  HomesFit'
  BY <1>0, <1>2 DEF HomesFit, HomeFits, NoNewMembers
<1>3. ASSUME NEW u \in Users, NoNewMembers, NEW op, NEW who, NEW list,
             op \in {"joining", "lookup", "announcing"} => Home[u] # Host,
             op = "owner leaving" => Home[u] = Host,
             op \in {"leaving", "owner leaving"} => u \notin members'[Home[u]],
             busy' = [busy EXCEPT ![u] = Doing(op, who, list)]
      PROVE  HomesFit'
  <2>1. busy'[u].op = op /\ \A v \in Users \ {u} : busy'[v] = busy[v]
    BY <1>0, <1>3 DEF Doing
  <2>2. HomeFits(u)'
    BY <1>3, <2>1 DEF HomeFits
  <2> QED
    BY <1>1, <1>3, <2>1, <2>2
<1>4. ASSUME NEW u \in Users, NoNewMembers, End(u)
      PROVE  HomesFit'
  <2>1. Idle = Doing("idle", NoUser, {})
    BY DEF Idle, Doing
  <2> QED
    BY <1>3, <1>4, <2>1 DEF End
<1>5. ASSUME NEW u \in Users, Join(u)  PROVE HomesFit'
  <2>1. /\ busy[u] = Idle /\ Home[u] = Host /\ UNCHANGED busy
        /\ members' = [members EXCEPT ![Host] = @ \cup {u}]
    BY <1>5 DEF Join, Command
  <2>2. \A v \in Users \ {u} : v \notin members[Home[v]] => v \notin members'[Home[v]]
    BY <1>0, <2>1 DEF RowsTyped
  <2>3. busy[u].op = "idle"
    BY <2>1 DEF Idle
  <2> QED
    BY <1>0, <2>1, <2>2, <2>3 DEF HomesFit, HomeFits
<1>6. ASSUME NEW g \in Mirrors, NEW r, Admitted(g, r)  PROVE HomesFit'
  <2>1. r.who \in Users /\ Home[r.who] = g /\ g \in Gateways
    BY <1>6, AnsweredUser DEF Of, Mirrors
  <2>2. busy' = [busy EXCEPT ![r.who] = Idle]
    BY <1>6 DEF Admitted, End
  <2>3. busy'[r.who].op = "idle" /\ \A v \in Users \ {r.who} : busy'[v] = busy[v]
    BY <1>0, <2>1, <2>2 DEF Idle
  <2>4. members' = members \/ members' = [members EXCEPT ![g] = @ \cup {r.who}]
    BY <1>6 DEF Admitted
  <2>5. \A v \in Users \ {r.who} : v \notin members[Home[v]] => v \notin members'[Home[v]]
    BY <1>0, <2>1, <2>4 DEF RowsTyped
  <2> QED
    BY <1>0, <2>3, <2>5 DEF HomesFit, HomeFits
<1>7. ASSUME NEW u \in Users, Leave(u), NoNewMembers  PROVE HomesFit'
  <2>1. u = creator[Home[u]] => Home[u] = Host
    BY <1>7 DEF Leave, Command, Base, HostOK, Open
  <2>2. u \notin members'[Home[u]]
    BY <1>0, <1>7 DEF Leave, RowsTyped
  <2>3. busy' = [busy EXCEPT ![u] = Doing(IF u = creator[Home[u]] THEN "owner leaving"
                                          ELSE "leaving", NoUser, {})]
    BY <1>7 DEF Leave, Begin
  <2> QED
    BY <1>3, <1>7, <2>1, <2>2, <2>3
<1>8. ASSUME NEW u \in Users, Admit(u), NoNewMembers  PROVE HomesFit'
  <2>1. Home[u] # Host
    BY <1>0, <1>8 DEF Admit, HomesFit, HomeFits
  <2>2. End(u) \/ busy' = [busy EXCEPT ![u] =
                      Doing("announcing", @.who, (members[Host] \cup Visible(Host)) \ {u})]
    BY <1>8 DEF Admit
  <2>3. CASE busy' = [busy EXCEPT ![u] =
                      Doing("announcing", @.who, (members[Host] \cup Visible(Host)) \ {u})]
    <3>1. busy' = [busy EXCEPT ![u] = Doing("announcing", busy[u].who,
                                            (members[Host] \cup Visible(Host)) \ {u})]
      BY <1>0, <2>3
    <3>2. "announcing" # "owner leaving" /\ "announcing" \notin {"leaving", "owner leaving"}
      OBVIOUS
    <3> QED
      BY <1>3, <1>8, <2>1, <3>1, <3>2
  <2> QED
    BY <1>4, <1>8, <2>2, <2>3
<1>9. ASSUME NEW u \in Users, Answer(u), NoNewMembers  PROVE HomesFit'
  <2>1. Home[u] # Host
    BY <1>0, <1>9 DEF Answer, HomesFit, HomeFits
  <2> QED
    BY <1>3, <1>9, <2>1 DEF Answer
<1>10. ASSUME NEW g \in Mirrors, NEW r, LookUp(g, r), NoNewMembers  PROVE HomesFit'
  <2>1. r.who \in Users /\ Home[r.who] # Host
    BY <1>10, LookedUpUser DEF Of, Mirrors
  <2>2. End(r.who) \/ busy' = [busy EXCEPT ![r.who] = Doing("lookup", creator[Host], {})]
    BY <1>10 DEF LookUp, End
  <2> QED
    BY <1>3, <1>4, <1>10, <2>1, <2>2
<1>11. ASSUME NEW u \in Users, NoNewMembers,
              Delete(u) \/ JoinRemote(u) \/ (\E t \in Users : Ban(u, t))
       PROVE  HomesFit'
  <2>1. CASE Delete(u)
    BY <1>3, <1>11, <2>1 DEF Delete, Begin
  <2>2. CASE JoinRemote(u)
    BY <1>3, <1>11, <2>2 DEF JoinRemote, Begin
  <2>3. ASSUME NEW t \in Users, Ban(u, t)  PROVE HomesFit'
    <3>1. busy' = [busy EXCEPT ![u] = Doing("banning", t, {t} \cap Visible(Host))]
      BY <2>3 DEF Ban
    <3>2. "banning" # "owner leaving" /\ "banning" \notin {"leaving", "owner leaving"}
          /\ "banning" \notin {"joining", "lookup", "announcing"}
      OBVIOUS
    <3> QED
      BY <1>3, <1>11, <3>1, <3>2
  <2> QED
    BY <1>11, <2>1, <2>2, <2>3
<1>12. CASE NoNewMembers /\ Finish
  <2>1. ASSUME NEW u \in Users, Going(u)  PROVE HomesFit'
    BY <1>4, <1>8, <1>9, <1>12, <2>1
    DEF Going, LeaveEnd, LeaveMirrorEnd, OwnerLeaveEnd, BanEnd, DeleteEnd
  <2> QED
    BY <1>2, <1>12, <2>1 DEF Finish, Evict, Going
<1>13. CASE NoNewMembers /\ UserActs
  <2>1. ASSUME NEW u \in Users, \/ Join(u) \/ Leave(u) \/ Accept(u) \/ Decline(u)
                                \/ Delete(u) \/ NewInvite(u) \/ JoinRemote(u) \/ LosePost(u)
        PROVE  HomesFit'
    BY <1>2, <1>4, <1>5, <1>7, <1>11, <1>13, <2>1 DEF Accept, Decline, NewInvite, LosePost
  <2>2. ASSUME NEW u \in Users, NEW t \in Users,
               \/ Kick(u, t) \/ Ban(u, t) \/ Unban(u, t) \/ SetRole(u, t) \/ Offer(u, t)
        PROVE  HomesFit'
    BY <1>2, <1>11, <1>13, <2>2 DEF Kick, Unban, SetRole, Offer
  <2>3. \/ \E u \in Users : \/ Join(u) \/ Leave(u) \/ Accept(u) \/ Decline(u)
                            \/ Delete(u) \/ NewInvite(u) \/ JoinRemote(u) \/ LosePost(u)
        \/ \E u, t \in Users : \/ Kick(u, t) \/ Ban(u, t) \/ Unban(u, t)
                               \/ SetRole(u, t) \/ Offer(u, t)
    BY <1>13 DEF UserActs
  <2> QED
    BY <2>1, <2>2, <2>3
<1>14. CASE NoNewMembers /\ RelayTaken
  <2>1. ASSUME NEW g \in Mirrors, NEW r, HandleLeave(g, r) \/ Heard(g, r)
        PROVE  HomesFit'
    BY <1>2, <1>6, <1>14, <2>1
    DEF HandleLeave, Heard, HandleMemberJoined, HandleMemberLeft, HandleOwnerChanged,
        HandleDelete, HandleKick, HandleBan, HandleUnban
  <2> QED
    BY <1>10, <1>14, <2>1 DEF RelayTaken, Heard
<1> QED
  BY <1>5, <1>6, <1>12, <1>13, <1>14, Newcomers DEF Next

Out == {"leaving", "lookup", "announcing"}

\* Nobody of a mirror gives up a join, and only members begin to leave.
BusyGoes(k) ==
    \A v \in Of(k) : /\ busy[v].op = "joining" => busy'[v].op = "joining"
                     /\ busy'[v].op \in Out => busy[v].op \in Out \/ v \in members[k]

\* No answer is sent.
DownGoes(k) ==
    Once(down'[k]) /\ Whose(down'[k], "admitted") \subseteq Whose(down[k], "admitted")

FitsAt(k) == PostsFit(k) /\ AnswersFit(k)

LEMMA FitsKept ==
    ASSUME NEW k \in Mirrors, FitsAt(k), up'[k] = up[k], DownGoes(k), BusyGoes(k),
           members'[k] \subseteq members[k]
    PROVE  FitsAt(k)'
<1>1. PostsFit(k)'
  BY DEF FitsAt, PostsFit, BusyGoes, Out, Of
<1>2. AnswersFit(k)'
  BY DEF FitsAt, AnswersFit, DownGoes, BusyGoes, Of
<1> QED
  BY <1>1, <1>2 DEF FitsAt

LEMMA BusyGoesSame ==
    ASSUME NEW k, \A v \in Of(k) : busy'[v] = busy[v]
    PROVE  BusyGoes(k)
  BY DEF BusyGoes

LEMMA NoAnswer ==
    ASSUME NEW S, NEW r \in S, r.act # "admitted"
    PROVE  <<r>> \in Seq(S) /\ Whose(<<r>>, "admitted") = {}
  BY DEF Whose

LEMMA DownGoesMore ==
    ASSUME Base, JoinsSound, NEW k \in Mirrors, NEW news \in Seq(Relay),
           Whose(news, "admitted") = {}, down'[k] = down[k] \o news
    PROVE  DownGoes(k)
<1> DEFINE q == down[k]
<1>1. q \in Seq(Relay) /\ Once(q)
  BY DEF Base, TypeOK, JoinsSound, AnswersFit
<1> HIDE DEF q
<1>2. Once(q \o news)
  BY <1>1, OnceConcat
<1>3. Whose(q \o news, "admitted") = Whose(q, "admitted") \cup Whose(news, "admitted")
  BY <1>1, WhoseConcat
<1> QED
  BY <1>2, <1>3 DEF DownGoes, q

LEMMA DownGoesTold ==
    ASSUME Base, JoinsSound, NEW gs, NEW news \in Seq(Relay), Whose(news, "admitted") = {},
           down' = Told(gs, news), NEW k \in Mirrors
    PROVE  DownGoes(k)
<1>1. CASE k \in gs
  BY <1>1, DownGoesMore DEF Told
<1>2. CASE k \notin gs
  BY <1>2 DEF Told, DownGoes, JoinsSound, AnswersFit
<1> QED
  BY <1>1, <1>2

LEMMA DownGoesSame ==
    ASSUME JoinsSound, NEW k \in Mirrors, down'[k] = down[k]
    PROVE  DownGoes(k)
  BY DEF JoinsSound, AnswersFit, DownGoes

LEMMA DownGoesTaken ==
    ASSUME Base, JoinsSound, NEW g \in Mirrors, NEW r, Gets(g, r), NEW k \in Mirrors
    PROVE  /\ DownGoes(k)
           /\ k # g => down'[k] = down[k]
           /\ r.act = "admitted" => r.who \notin Whose(down'[g], "admitted")
<1>1. PICK i \in Ready(down[g]) :
        down[g][i] = r /\ down' = [down EXCEPT ![g] = Without(@, i)]
  BY DEF Gets
<1>2. i \in 1 .. Len(down[g]) /\ down[g] \in Seq(Relay) /\ Once(down[g])
  BY <1>1 DEF Ready, Base, TypeOK, JoinsSound, AnswersFit
<1>3. down'[g] = Without(down[g], i) /\ \A h \in Mirrors \ {g} : down'[h] = down[h]
  BY <1>1 DEF Base, TypeOK
<1>4. /\ Once(Without(down[g], i))
      /\ down[g][i].act = "admitted" => down[g][i].who \notin Whose(Without(down[g], i), "admitted")
      /\ Whose(Without(down[g], i), "admitted") \subseteq Whose(down[g], "admitted")
  BY <1>2, OnceWithout, WhoseWithout
<1>5. DownGoes(g)
  BY <1>3, <1>4 DEF DownGoes
<1>6. k # g => DownGoes(k)
  BY <1>3, DownGoesSame
<1> QED
  BY <1>1, <1>3, <1>4, <1>5, <1>6

\* The relay a mirror has POSTed that is taken, or lost.
LEMMA PostTaken ==
    ASSUME Base, JoinsSound, NEW g \in Mirrors, NEW i \in 1 .. Len(up[g]),
           up' = [up EXCEPT ![g] = Without(@, i)]
    PROVE  /\ \A k \in Mirrors \ {g} : up'[k] = up[k]
           /\ Ordered(up'[g])
           /\ \A act : Whose(up'[g], act) \subseteq Whose(up[g], act)
           /\ \A act : Whose(up[g], act) \subseteq Whose(up'[g], act) \cup {up[g][i].who}
           /\ \A act : up[g][i].act # act => Whose(up'[g], act) = Whose(up[g], act)
           /\ up[g][i].act = "join" => up[g][i].who \notin Whose(up'[g], "join")
           /\ up[g][i].act = "join" /\ i = 1 => up[g][i].who \notin Whose(up[g], "leave")
<1>1. up[g] \in Seq(Relay) /\ Ordered(up[g])
  BY DEF Base, TypeOK, JoinsSound, PostsFit
<1>2. up'[g] = Without(up[g], i) /\ \A k \in Mirrors \ {g} : up'[k] = up[k]
  BY DEF Base, TypeOK
<1> DEFINE q == up[g]
<1>3. q \in Seq(Relay) /\ Ordered(q) /\ i \in 1 .. Len(q)
  BY <1>1
<1> HIDE DEF q
<1>4. Ordered(Without(q, i))
  BY <1>3, OrderedWithout
<1>6. /\ q[i].act = "join" => q[i].who \notin Whose(Without(q, i), "join")
      /\ q[i].act = "join" /\ i = 1 => q[i].who \notin Whose(q, "leave")
  BY <1>3, OrderedWithout
<1>5. \A act : /\ Whose(Without(q, i), act) \subseteq Whose(q, act)
               /\ Whose(q, act) \subseteq Whose(Without(q, i), act) \cup {q[i].who}
               /\ q[i].act # act => Whose(Without(q, i), act) = Whose(q, act)
  BY <1>3, WhoseWithout
<1> QED
  BY <1>2, <1>4, <1>5, <1>6 DEF q

\* The first relay is the one that is taken.
LEMMA FirstTaken ==
    ASSUME Late = {}, NEW q, Len(q) \in Nat
    PROVE  \A i \in Ready(q) : i = 1 /\ 1 \in 1 .. Len(q)
<1>1. ASSUME NEW i \in Ready(q)  PROVE i = 1 /\ 1 \in 1 .. Len(q)
  <2>1. i \in 1 .. Len(q) /\ \A j \in 1 .. i - 1 : q[j].act \in Late
    BY DEF Ready
  <2>2. ~(1 \in 1 .. i - 1)
    BY <2>1
  <2> QED
    BY <2>1, <2>2
<1> QED
  BY <1>1

LEMMA BusyGoesOne ==
    ASSUME Base, NEW u \in Users, NEW op, NEW who, NEW list,
           busy' = [busy EXCEPT ![u] = Doing(op, who, list)],
           busy[u].op = "joining" => op = "joining",
           op \in Out => busy[u].op \in Out \/ u \in members[Home[u]],
           NEW k \in Mirrors
    PROVE  BusyGoes(k)
<1>1. busy'[u].op = op /\ \A v \in Users \ {u} : busy'[v] = busy[v]
  BY DEF Base, TypeOK, Doing
<1> QED
  BY <1>1 DEF BusyGoes, Of

LEMMA BusyGoesEnd ==
    ASSUME Base, NEW u \in Users, End(u), busy[u].op # "joining", NEW k \in Mirrors
    PROVE  BusyGoes(k)
<1>1. busy' = [busy EXCEPT ![u] = Doing("idle", NoUser, {})]
  BY DEF End, Idle, Doing
<1>2. "idle" \notin Out
  BY DEF Out
<1> QED
  BY <1>1, <1>2, BusyGoesOne

\* In most steps no answer is sent.
LEMMA DownGoesStep ==
    ASSUME Base, JoinsSound, "admitted" \notin MayFail, Next, NEW k \in Mirrors
    PROVE  \/ DownGoes(k)
           \/ \E u \in Users : Answer(u) /\ k = Home[u]
<1> USE RoomAssumption
<1>1. ASSUME down' = down  PROVE DownGoes(k)
  BY <1>1, DownGoesSame
<1>2. ASSUME NEW act \in {"kick", "ban", "unban", "member_joined", "member_left",
                          "owner_changed", "delete_room"},
             NEW u \in Users, NEW by \in MaybeUser
      PROVE  <<News(act, u, by)>> \in Seq(Relay) /\ Whose(<<News(act, u, by)>>, "admitted") = {}
  <2>1. News(act, u, by) \in Relay /\ News(act, u, by).act # "admitted"
    BY DEF News, Relay
  <2> QED
    BY <2>1, NoAnswer
<1>3. ASSUME NEW act \in {"kick", "ban", "unban", "member_joined", "member_left",
                          "owner_changed", "delete_room"},
             NEW u \in Users, NEW by \in MaybeUser, NEW gs,
             down' = Told(gs, <<News(act, u, by)>>)
      PROVE  DownGoes(k)
  BY <1>2, <1>3, DownGoesTold
<1>4. creator[Host] \in MaybeUser /\ \A u \in Users : u \in MaybeUser
  BY DEF Base, TypeOK, MaybeUser
<1>5. ASSUME NEW u \in Users, Join(u)  PROVE DownGoes(k)
  <2>1. \/ down' = down
        \/ down' = Told(GatewaysOf(Visible(Host)), <<News("member_joined", u, creator[Host])>>)
    BY <1>5 DEF Join
  <2> QED
    BY <1>1, <1>3, <1>4, <2>1
<1>6. ASSUME NEW u \in Users, LeaveEnd(u)  PROVE DownGoes(k)
  <2>1. down' = Told(GatewaysOf(Visible(Host)), <<News("member_left", u, creator[Host])>>)
    BY <1>6 DEF LeaveEnd
  <2> QED
    BY <1>3, <1>4, <2>1
<1>7. ASSUME NEW u \in Users, OwnerLeaveEnd(u)  PROVE DownGoes(k)
  <2>1. ASSUME NEW n \in Successors(u),
               down' = Told(GatewaysOf(Visible(Host)),
                 <<News("owner_changed", n, n), News("member_left", u, n)>>)
        PROVE  DownGoes(k)
    <3>1. n \in Users
      BY <2>1 DEF Successors, Base, TypeOK
    <3> DEFINE a == News("owner_changed", n, n)
               b == News("member_left", u, n)
    <3>2. a \in Relay /\ b \in Relay /\ a.act # "admitted" /\ b.act # "admitted"
      BY <3>1 DEF News, Relay, MaybeUser
    <3> HIDE DEF a, b
    <3>3. <<a, b>> \in Seq(Relay) /\ Whose(<<a, b>>, "admitted") = {}
      <4>1. \A j \in 1 .. Len(<<a, b>>) : <<a, b>>[j].act # "admitted"
        BY <3>2
      <4> QED
        BY <3>2, <4>1 DEF Whose
    <3> QED
      BY <2>1, <3>3, DownGoesTold DEF a, b
  <2>2. \/ down' = down
        \/ down' = Told(GatewaysOf(Visible(Host)), <<News("member_left", u, u)>>)
        \/ \E n \in Successors(u) :
             down' = Told(GatewaysOf(Visible(Host)),
                 <<News("owner_changed", n, n), News("member_left", u, n)>>)
    BY <1>7 DEF OwnerLeaveEnd
  <2> QED
    BY <1>1, <1>3, <1>4, <2>1, <2>2
<1>8. ASSUME NEW u \in Users, BanEnd(u)  PROVE DownGoes(k)
  <2>1. busy[u].who \in Users
    BY <1>8 DEF BanEnd, Base, BusyOK
  <2>2. down' = Told(GatewaysOf(Visible(Host) \cup busy[u].list),
                     <<News("ban", busy[u].who, u)>>)
    BY <1>8 DEF BanEnd
  <2> QED
    BY <1>3, <1>4, <2>1, <2>2
<1>9. ASSUME NEW u \in Users, DeleteEnd(u)  PROVE DownGoes(k)
  <2>1. down' = Told(GatewaysOf(Visible(Host)), <<News("delete_room", u, u)>>)
    BY <1>9 DEF DeleteEnd
  <2> QED
    BY <1>3, <1>4, <2>1
<1>10. ASSUME NEW u \in Users, NEW t \in Users, Kick(u, t)  PROVE DownGoes(k)
  <2>1. down' = Told(KickReaches(t), <<News("kick", t, u)>>)
    BY <1>10 DEF Kick
  <2> QED
    BY <1>3, <1>4, <2>1
<1>11. ASSUME NEW u \in Users, NEW t \in Users, Unban(u, t)  PROVE DownGoes(k)
  <2>1. down' = Told(GatewaysOf(Visible(Host)), <<News("unban", t, u)>>)
    BY <1>11 DEF Unban
  <2> QED
    BY <1>3, <1>4, <2>1
<1>12. ASSUME NEW u \in Users, Accept(u)  PROVE DownGoes(k)
  <2>1. \/ down' = down
        \/ down' = Told(GatewaysOf(Visible(Host)), <<News("owner_changed", u, u)>>)
    BY <1>12 DEF Accept
  <2> QED
    BY <1>1, <1>3, <1>4, <2>1
<1>13. ASSUME NEW g \in Mirrors, NEW r, HandleLeave(g, r)  PROVE DownGoes(k)
  <2>1. r \in Relay
    BY <1>13, ReachesOK DEF HandleLeave, Base, TypeOK
  <2>2. r.who \in Users
    BY <2>1 DEF Relay
  <2>3. \/ down' = down
        \/ down' = Told(GatewaysOf(Visible(Host) \ {r.who}) \ {g},
                        <<News("member_left", r.who, creator[Host])>>)
    BY <1>13 DEF HandleLeave
  <2> QED
    BY <1>1, <1>3, <1>4, <2>2, <2>3
<1>14. ASSUME NEW u \in Users, Answer(u), k # Home[u]  PROVE DownGoes(k)
  <2> DEFINE told == Told(GatewaysOf(Visible(Host)) \ {Home[u]},
                          <<News("member_joined", u, busy[u].who)>>)
  <2>1. \E answer : down' = [told EXCEPT ![Home[u]] = Append(@, answer)]
    BY <1>14 DEF Answer
  <2>2. down'[k] = told[k]
    BY <1>14, <2>1 DEF Told
  <2>3. busy[u].who \in MaybeUser
    BY DEF Base, TypeOK
  <2>4. CASE k \in GatewaysOf(Visible(Host)) \ {Home[u]}
    <3>1. down'[k] = down[k] \o <<News("member_joined", u, busy[u].who)>>
      BY <2>2, <2>4 DEF Told
    <3> QED
      BY <1>2, <2>3, <3>1, DownGoesMore
  <2>5. CASE k \notin GatewaysOf(Visible(Host)) \ {Home[u]}
    <3>1. down'[k] = down[k]
      BY <2>2, <2>5 DEF Told
    <3> QED
      BY <3>1, DownGoesSame
  <2> QED
    BY <2>4, <2>5
<1>15. ASSUME NEW g \in Mirrors, NEW r, Gets(g, r)  PROVE DownGoes(k)
  BY <1>15, DownGoesTaken
<1>16. CASE Finish
  BY <1>1, <1>6, <1>7, <1>8, <1>9, <1>14, <1>16
  DEF Finish, LeaveMirrorEnd, Admit, Evict
<1>17. CASE UserActs
  BY <1>1, <1>5, <1>10, <1>11, <1>12, <1>17
  DEF UserActs, Leave, Decline, Delete, NewInvite, JoinRemote, LosePost, Ban, SetRole, Offer
<1>18. CASE RelayTaken
  BY <1>1, <1>13, <1>15, <1>18
  DEF RelayTaken, LookUp, Admitted, HandleMemberJoined, HandleMemberLeft,
      HandleOwnerChanged, HandleDelete, HandleKick, HandleBan, HandleUnban
<1> QED
  BY <1>16, <1>17, <1>18 DEF Next

\* The steps in which joins and leaves of k's users get ahead.
AtTheDoor(k) ==
    \/ \E r : LookUp(k, r) \/ HandleLeave(k, r) \/ Admitted(k, r)
    \/ \E u \in Of(k) : JoinRemote(u) \/ LeaveMirrorEnd(u) \/ LosePost(u) \/ Answer(u)

LEMMA MembersElsewhere ==
    ASSUME Base, Next, NEW k \in Mirrors
    PROVE  members'[k] \subseteq members[k] \/ AtTheDoor(k)
<1>1. ASSUME NoNewMembers  PROVE members'[k] \subseteq members[k]
  BY <1>1 DEF NoNewMembers, Mirrors
<1>2. ASSUME NEW u \in Users, Join(u)  PROVE members'[k] \subseteq members[k]
  <2>1. members' = [members EXCEPT ![Host] = @ \cup {u}] /\ k # Host /\ k \in DOMAIN members
    BY <1>2 DEF Join, Mirrors, Base, TypeOK
  <2> QED
    BY <2>1
<1>3. ASSUME NEW g \in Mirrors, NEW r, Admitted(g, r), g # k
      PROVE  members'[k] \subseteq members[k]
  <2>1. \/ members' = members
        \/ members' = [members EXCEPT ![g] = @ \cup {r.who}]
    BY <1>3 DEF Admitted
  <2> QED
    BY <1>3, <2>1 DEF Base, TypeOK, Mirrors
<1> QED
  BY <1>1, <1>2, <1>3, Newcomers DEF AtTheDoor

LEMMA PostsElsewhere ==
    ASSUME Base, Next, NEW k \in Mirrors
    PROVE  up'[k] = up[k] \/ AtTheDoor(k)
<1>0. up \in [Mirrors -> Seq(Relay)]
  BY DEF Base, TypeOK
<1>1. ASSUME NEW u \in Users, LeaveMirrorEnd(u) \/ JoinRemote(u), u \notin Of(k)
      PROVE  up'[k] = up[k]
  <2>1. \E r : up' = [up EXCEPT ![Home[u]] = Append(@, r)]
    BY <1>1 DEF LeaveMirrorEnd, JoinRemote
  <2>2. Home[u] # k
    BY <1>1 DEF Of
  <2> QED
    BY <1>0, <2>1, <2>2
<1>2. ASSUME NEW u \in Users, LosePost(u), u \notin Of(k)
      PROVE  up'[k] = up[k]
  <2>1. \/ up' = up
        \/ \E i : up' = [up EXCEPT ![Home[u]] = Without(@, i)]
    BY <1>2 DEF LosePost
  <2>2. Home[u] # k
    BY <1>2 DEF Of
  <2> QED
    BY <1>0, <2>1, <2>2
<1>3. ASSUME NEW g \in Mirrors, NEW r, LookUp(g, r) \/ HandleLeave(g, r), g # k
      PROVE  up'[k] = up[k]
  <2>1. Reaches(g, r)
    BY <1>3 DEF LookUp, HandleLeave
  <2> QED
    BY <1>0, <1>3, <2>1 DEF Reaches
<1>4. CASE Finish
  BY <1>1, <1>4 DEF Finish, LeaveEnd, OwnerLeaveEnd, BanEnd, DeleteEnd, Admit, Answer, Evict,
    AtTheDoor
<1>5. CASE UserActs
  BY <1>1, <1>2, <1>5
  DEF UserActs, Join, Leave, Accept, Decline, Delete, NewInvite, Kick, Ban, Unban, SetRole,
      Offer, AtTheDoor
<1>6. CASE RelayTaken
  BY <1>3, <1>6
  DEF RelayTaken, Gets, Admitted, HandleMemberJoined, HandleMemberLeft,
      HandleOwnerChanged, HandleDelete, HandleKick, HandleBan, HandleUnban, AtTheDoor
<1> QED
  BY <1>4, <1>5, <1>6 DEF Next

LEMMA BusyElsewhere ==
    ASSUME Base, JoinsSound, Next, NEW k \in Mirrors
    PROVE  BusyGoes(k) \/ AtTheDoor(k)
<1>0. DOMAIN busy = Users
  BY DEF Base, TypeOK
<1>1. ASSUME UNCHANGED busy  PROVE BusyGoes(k)
  BY <1>1, BusyGoesSame
<1>2. ASSUME NEW u \in Users, Leave(u)  PROVE BusyGoes(k)
  <2> DEFINE op == IF u = creator[Home[u]] THEN "owner leaving" ELSE "leaving"
  <2>1. busy' = [busy EXCEPT ![u] = Doing(op, NoUser, {})]
    <3>1. Begin(u, op, NoUser)
      BY <1>2, Zenon DEF Leave
    <3> HIDE DEF op
    <3> QED
      BY <3>1 DEF Begin
  <2>2. busy[u].op # "joining"
    <3>1. Command(u, Home[u])
      BY <1>2, Zenon DEF Leave
    <3> QED
      BY <3>1 DEF Command, Idle
  <2>3. op \in Out => u \in members[Home[u]]
    BY <1>2 DEF Leave, Out
  <2> HIDE DEF op
  <2> QED
    BY <2>1, <2>2, <2>3, BusyGoesOne
<1>3. ASSUME NEW u \in Users,
             LeaveEnd(u) \/ LeaveMirrorEnd(u) \/ OwnerLeaveEnd(u) \/ BanEnd(u) \/ DeleteEnd(u)
      PROVE  BusyGoes(k)
  <2>1. End(u) /\ busy[u].op # "joining"
    BY <1>3 DEF LeaveEnd, LeaveMirrorEnd, OwnerLeaveEnd, BanEnd, DeleteEnd
  <2> QED
    BY <2>1, BusyGoesEnd
<1>4. ASSUME NEW u \in Users, Admit(u)  PROVE BusyGoes(k)
  <2>1. busy[u].op = "lookup"
    BY <1>4 DEF Admit
  <2>2. \/ End(u)
        \/ \E list : busy' = [busy EXCEPT ![u] = Doing("announcing", busy[u].who, list)]
    BY <1>0, <1>4 DEF Admit
  <2>3. busy[u].op \in Out
    BY <2>1 DEF Out
  <2>4. CASE End(u)
    BY <2>1, <2>4, BusyGoesEnd
  <2>5. ASSUME NEW list, busy' = [busy EXCEPT ![u] = Doing("announcing", busy[u].who, list)]
        PROVE  BusyGoes(k)
    <3> DEFINE w == busy[u].who
    <3>1. busy' = [busy EXCEPT ![u] = Doing("announcing", w, list)]
      BY <2>5
    <3> HIDE DEF w
    <3> QED
      BY <2>1, <2>3, <3>1, BusyGoesOne
  <2> QED
    BY <2>2, <2>4, <2>5
<1>5. ASSUME NEW u \in Users, NEW op, NEW who, NEW list, busy[u].op # "joining", op \notin Out,
             busy' = [busy EXCEPT ![u] = Doing(op, who, list)]
      PROVE  BusyGoes(k)
  BY <1>5, BusyGoesOne
<1>6. "joining" \notin Out /\ "deleting" \notin Out /\ "banning" \notin Out
  BY DEF Out
<1>7. ASSUME NEW u \in Users, Delete(u)  PROVE BusyGoes(k)
  <2>1. busy' = [busy EXCEPT ![u] = Doing("deleting", NoUser, {})] /\ busy[u].op # "joining"
    BY <1>7 DEF Delete, Begin, Command, Idle
  <2> QED
    BY <1>5, <1>6, <2>1
<1>8. ASSUME NEW u \in Users, NEW t \in Users, Ban(u, t)  PROVE BusyGoes(k)
  <2> DEFINE l == {t} \cap Visible(Host)
  <2>1. busy' = [busy EXCEPT ![u] = Doing("banning", t, l)] /\ busy[u].op # "joining"
    BY <1>8 DEF Ban, Command, Idle
  <2> HIDE DEF l
  <2> QED
    BY <1>5, <1>6, <2>1
<1>9. ASSUME NEW g \in Mirrors, NEW r, LookUp(g, r), g # k  PROVE BusyGoes(k)
  <2>1. r.who \in Of(g)
    BY <1>9, LookedUpUser
  <2>2. \E h : busy' = [busy EXCEPT ![r.who] = h]
    BY <1>9 DEF LookUp
  <2>3. \A v \in Of(k) : busy'[v] = busy[v]
    BY <1>0, <1>9, <2>1, <2>2 DEF Of
  <2> QED
    BY <2>3, BusyGoesSame
<1>10. ASSUME NEW g \in Mirrors, NEW r, Admitted(g, r), g # k  PROVE BusyGoes(k)
  <2>1. r.who \in Of(g)
    BY <1>10, AnsweredUser
  <2>2. \E h : busy' = [busy EXCEPT ![r.who] = h]
    BY <1>10 DEF Admitted, End
  <2>3. \A v \in Of(k) : busy'[v] = busy[v]
    BY <1>0, <1>10, <2>1, <2>2 DEF Of
  <2> QED
    BY <2>3, BusyGoesSame
<1>11. ASSUME NEW u \in Users, Answer(u) \/ JoinRemote(u) \/ LosePost(u), u \notin Of(k)
       PROVE  BusyGoes(k)
  <2>2. \E h : busy' = [busy EXCEPT ![u] = h]
    BY <1>11 DEF Answer, JoinRemote, LosePost, End, Begin
  <2>3. \A v \in Of(k) : busy'[v] = busy[v]
    BY <1>0, <1>11, <2>2 DEF Of
  <2> QED
    BY <2>3, BusyGoesSame
<1>12. CASE Finish
  BY <1>1, <1>3, <1>4, <1>11, <1>12 DEF Finish, Evict, AtTheDoor
<1>13. CASE UserActs
  <2>1. ASSUME NEW u \in Users, Join(u) \/ Accept(u) \/ Decline(u) \/ NewInvite(u)
        PROVE  BusyGoes(k)
    BY <1>1, <2>1 DEF Join, Accept, Decline, NewInvite
  <2>2. ASSUME NEW u \in Users, NEW t \in Users,
               Kick(u, t) \/ Unban(u, t) \/ SetRole(u, t) \/ Offer(u, t)
        PROVE  BusyGoes(k)
    BY <1>1, <2>2 DEF Kick, Unban, SetRole, Offer
  <2>3. ASSUME NEW u \in Users, JoinRemote(u) \/ LosePost(u)
        PROVE  BusyGoes(k) \/ AtTheDoor(k)
    BY <1>11, <2>3 DEF AtTheDoor
  <2>4. CASE \E u \in Users :
               \/ Join(u) \/ Leave(u) \/ Accept(u) \/ Decline(u) \/ Delete(u)
               \/ NewInvite(u) \/ JoinRemote(u) \/ LosePost(u)
    BY <1>2, <1>7, <2>1, <2>3, <2>4
  <2>5. CASE \E u, t \in Users :
               \/ Kick(u, t) \/ Ban(u, t) \/ Unban(u, t) \/ SetRole(u, t) \/ Offer(u, t)
    BY <1>8, <2>2, <2>5
  <2> QED
    BY <1>13, <2>4, <2>5 DEF UserActs
<1>14. CASE RelayTaken
  <2>1. ASSUME NEW g \in Mirrors, NEW r, LookUp(g, r) \/ Admitted(g, r)
        PROVE  BusyGoes(k) \/ AtTheDoor(k)
    BY <1>9, <1>10, <2>1 DEF AtTheDoor
  <2>2. ASSUME NEW g \in Mirrors, NEW r,
               \/ HandleLeave(g, r) \/ HandleMemberJoined(g, r) \/ HandleMemberLeft(g, r)
               \/ HandleOwnerChanged(g, r) \/ HandleDelete(g, r)
               \/ HandleKick(g, r) \/ HandleBan(g, r) \/ HandleUnban(g, r)
        PROVE  BusyGoes(k)
    BY <1>1, <2>2
    DEF HandleLeave, HandleMemberJoined, HandleMemberLeft,
        HandleOwnerChanged, HandleDelete, HandleKick, HandleBan, HandleUnban
  <2> QED
    BY <1>14, <2>1, <2>2 DEF RelayTaken
<1> QED
  BY <1>12, <1>13, <1>14 DEF Next

LEMMA FitsElsewhere ==
    ASSUME Base, JoinsSound, "admitted" \notin MayFail, Next, NEW k \in Mirrors, ~AtTheDoor(k)
    PROVE  FitsAt(k)'
<1>1. FitsAt(k)
  BY DEF JoinsSound, FitsAt
<1>2. DownGoes(k) \/ (\E u \in Users : Answer(u) /\ k = Home[u])
  BY DownGoesStep
<1>3. DownGoes(k)
  BY <1>2 DEF AtTheDoor, Of
<1> QED
  BY <1>1, <1>3, MembersElsewhere, PostsElsewhere, BusyElsewhere, FitsKept

\* A relay of the mirror is gone, and its user's handler went on.
LEMMA FitsTaken ==
    ASSUME Base, JoinsSound, NEW k \in Mirrors, NEW i \in 1 .. Len(up[k]),
           up' = [up EXCEPT ![k] = Without(@, i)], down'[k] = down[k],
           members'[k] \subseteq members[k], NEW u, u = up[k][i].who,
           \A v \in Of(k) \ {u} : busy'[v] = busy[v],
           \/ busy'[u] = busy[u]
           \/ up[k][i].act = "join" /\ (i = 1 \/ busy'[u].op \notin Out)
    PROVE  FitsAt(k)'
<1>1. FitsAt(k)
  BY DEF JoinsSound, FitsAt
<1>2. /\ Ordered(up'[k])
      /\ Whose(up'[k], "join") \subseteq Whose(up[k], "join")
      /\ Whose(up'[k], "leave") \subseteq Whose(up[k], "leave")
      /\ up[k][i].act = "join" => u \notin Whose(up'[k], "join")
      /\ up[k][i].act = "join" /\ i = 1 => u \notin Whose(up[k], "leave")
  BY PostTaken
<1>5. up[k][i].act = "join" => u \in Whose(up[k], "join")
  BY DEF Whose
<1>3. PostsFit(k)'
  <2>1. Whose(up'[k], "join") \subseteq {v \in Of(k) : busy'[v].op = "joining"}
    BY <1>1, <1>2, <1>5 DEF FitsAt, PostsFit, Of
  <2>2. Whose(up'[k], "leave") \subseteq {v \in Of(k) \ members'[k] : busy'[v].op \notin Out}
    BY <1>1, <1>2, <1>5 DEF FitsAt, PostsFit, Of, Out
  <2> QED
    BY <1>2, <2>1, <2>2 DEF PostsFit, Of, Out
<1>4. AnswersFit(k)'
  BY <1>1, <1>2, <1>5 DEF FitsAt, AnswersFit, Of
<1> QED
  BY <1>3, <1>4 DEF FitsAt

LEMMA FitsAsJoin ==
    ASSUME Base, JoinsSound, NEW u \in Users, JoinRemote(u), NEW k \in Mirrors, u \in Of(k)
    PROVE  FitsAt(k)'
<1>1. FitsAt(k) /\ up[k] \in Seq(Relay) /\ Home[u] = k
  BY DEF JoinsSound, FitsAt, Base, TypeOK, Of
<1> DEFINE r == News("join", u, NoUser)
<1>2. r \in Relay /\ r.act = "join" /\ r.who = u
  BY DEF News, Relay, MaybeUser
<1>3. up'[k] = Append(up[k], r) /\ down' = down /\ members' = members
  <2>1. up' = [up EXCEPT ![k] = Append(@, r)] /\ down' = down /\ members' = members
    BY <1>1 DEF JoinRemote, roomVars
  <2> QED
    BY <2>1 DEF Base, TypeOK
<1>4. busy'[u].op = "joining" /\ busy[u].op = "idle" /\ \A v \in Users \ {u} : busy'[v] = busy[v]
  <2>1. busy' = [busy EXCEPT ![u] = Doing("joining", NoUser, {})] /\ busy[u] = Idle
    <3>1. Begin(u, "joining", NoUser) /\ busy[u] = Idle
      BY DEF JoinRemote
    <3> QED
      BY <3>1 DEF Begin
  <2>2. DOMAIN busy = Users
    BY DEF Base, TypeOK
  <2>3. busy'[u] = Doing("joining", NoUser, {}) /\ \A v \in Users \ {u} : busy'[v] = busy[v]
    BY <2>1, <2>2
  <2> QED
    BY <2>1, <2>3 DEF Doing, Idle
<1> HIDE DEF r
<1>5. u \notin Whose(up[k], "join") /\ u \notin Whose(down[k], "admitted")
  BY <1>1, <1>4 DEF FitsAt, PostsFit, AnswersFit
<1>6. Ordered(Append(up[k], r))
  BY <1>1, <1>2, <1>5, OrderedAppend DEF FitsAt, PostsFit
<1>7. /\ Whose(Append(up[k], r), "join") = Whose(up[k], "join") \cup {u}
      /\ Whose(Append(up[k], r), "leave") = Whose(up[k], "leave")
  BY <1>1, <1>2, WhoseAppend
<1>8. PostsFit(k)'
  BY <1>1, <1>3, <1>4, <1>6, <1>7 DEF FitsAt, PostsFit, Of
<1>9. AnswersFit(k)'
  BY <1>1, <1>3, <1>4, <1>5, <1>7 DEF FitsAt, AnswersFit, Of
<1> QED
  BY <1>8, <1>9 DEF FitsAt

LEMMA FitsAsLeave ==
    ASSUME Base, JoinsSound, NEW u \in Users, LeaveMirrorEnd(u), NEW k \in Mirrors, u \in Of(k)
    PROVE  FitsAt(k)'
<1>1. FitsAt(k) /\ up[k] \in Seq(Relay) /\ Home[u] = k /\ k \in Gateways
  BY DEF JoinsSound, FitsAt, Base, TypeOK, Of, Mirrors
<1> DEFINE r == News("leave", u, u)
<1>2. r \in Relay /\ r.act = "leave" /\ r.who = u
  BY DEF News, Relay, MaybeUser
<1>3. up'[k] = Append(up[k], r) /\ down' = down
  BY <1>1 DEF LeaveMirrorEnd, Base, TypeOK
<1>4. members'[k] \subseteq members[k]
  <2>1. Drop(k) \/ members' = members
    BY <1>1 DEF LeaveMirrorEnd, roomVars
  <2>2. RowsTyped
    BY DEF Base, TypeOK, RowsTyped
  <2> QED
    BY <1>1, <2>1, <2>2, DropsMembers DEF NoNewMembers
<1>5. busy'[u].op = "idle" /\ busy[u].op = "leaving" /\ \A v \in Users \ {u} : busy'[v] = busy[v]
  BY DEF LeaveMirrorEnd, End, Idle, Base, TypeOK
<1> HIDE DEF r
<1>6. u \notin Whose(up[k], "join") /\ u \notin Whose(down[k], "admitted") /\ u \notin members[k]
  BY <1>1, <1>5 DEF FitsAt, PostsFit, AnswersFit, JoinsSound, HomesFit, HomeFits
<1>7. Ordered(Append(up[k], r))
  BY <1>1, <1>2, <1>6, OrderedAppend DEF FitsAt, PostsFit
<1>8. /\ Whose(Append(up[k], r), "leave") = Whose(up[k], "leave") \cup {u}
      /\ Whose(Append(up[k], r), "join") = Whose(up[k], "join")
  BY <1>1, <1>2, WhoseAppend
<1>9. PostsFit(k)'
  BY <1>1, <1>3, <1>4, <1>5, <1>6, <1>7, <1>8 DEF FitsAt, PostsFit, Of
<1>10. AnswersFit(k)'
  BY <1>1, <1>3, <1>5, <1>6, <1>8 DEF FitsAt, AnswersFit, Of
<1> QED
  BY <1>9, <1>10 DEF FitsAt

\* The mirror of a joiner gets the answer and nothing else.
LEMMA AnswerSent ==
    ASSUME Base, NEW u \in Users, Answer(u), NEW k \in Mirrors, u \in Of(k)
    PROVE  \E r \in Relay :
             /\ r.act = "admitted" /\ r.who = u /\ r.by = busy[u].who /\ r.list = busy[u].list
             /\ down'[k] = Append(down[k], r)
<1> DEFINE r == [act |-> "admitted", who |-> u, by |-> busy[u].who, list |-> busy[u].list]
           told == Told(GatewaysOf(Visible(Host)) \ {k},
                        <<News("member_joined", u, busy[u].who)>>)
<1>1. Home[u] = k
  BY DEF Of
<1>2. r \in Relay /\ r.act = "admitted" /\ r.who = u /\ r.by = busy[u].who /\ r.list = busy[u].list
  BY DEF Relay, Base, TypeOK
<1>3. down' = [told EXCEPT ![k] = Append(@, r)]
  BY <1>1 DEF Answer
<1>4. told[k] = down[k] /\ k \in DOMAIN told
  BY DEF Told
<1>5. down'[k] = Append(down[k], r)
  BY <1>3, <1>4
<1> QED
  BY <1>2, <1>5

LEMMA FitsAsAnswer ==
    ASSUME Base, JoinsSound, NEW u \in Users, Answer(u), NEW k \in Mirrors, u \in Of(k)
    PROVE  FitsAt(k)'
<1>1. FitsAt(k) /\ down[k] \in Seq(Relay)
  BY DEF JoinsSound, FitsAt, Base, TypeOK
<1>2. PICK r \in Relay : r.act = "admitted" /\ r.who = u /\ down'[k] = Append(down[k], r)
  BY AnswerSent
<1>3. up' = up /\ members' = members
  BY DEF Answer, roomVars
<1>4. busy'[u].op = "joining" /\ busy[u].op = "announcing"
      /\ \A v \in Users \ {u} : busy'[v] = busy[v]
  BY DEF Answer, Doing, Base, TypeOK
<1>5. /\ u \notin Whose(down[k], "admitted")
      /\ u \notin Whose(up[k], "join") /\ u \notin Whose(up[k], "leave")
  BY <1>1, <1>4 DEF FitsAt, PostsFit, AnswersFit
<1>6. Once(Append(down[k], r))
  BY <1>1, <1>2, <1>5, OnceAppend DEF FitsAt, AnswersFit
<1>7. Whose(Append(down[k], r), "admitted") = Whose(down[k], "admitted") \cup {u}
  BY <1>1, <1>2, WhoseAppend
<1>8. PostsFit(k)'
  BY <1>1, <1>3, <1>4 DEF FitsAt, PostsFit, Of
<1>9. AnswersFit(k)'
  BY <1>1, <1>2, <1>3, <1>4, <1>5, <1>6, <1>7 DEF FitsAt, AnswersFit, Of
<1> QED
  BY <1>8, <1>9 DEF FitsAt

LEMMA FitsAsAdmitted ==
    ASSUME Base, JoinsSound, NEW k \in Mirrors, NEW r, Admitted(k, r)
    PROVE  FitsAt(k)'
<1>1. FitsAt(k) /\ k \in Gateways
  BY DEF JoinsSound, FitsAt, Mirrors
<1>2. /\ r.who \in Of(k) /\ r.who \notin Whose(up[k], "leave") /\ r.who \notin Whose(up[k], "join")
  BY AnsweredUser
<1>3. r.who \in Users /\ r.act = "admitted" /\ Gets(k, r)
  BY <1>2 DEF Of, Admitted
<1>4. up' = up
  BY <1>3 DEF Gets
<1>5. members'[k] \subseteq members[k] \cup {r.who}
  BY <1>1 DEF Admitted, Base, TypeOK
<1>6. busy'[r.who].op = "idle" /\ \A v \in Users \ {r.who} : busy'[v] = busy[v]
  BY <1>3 DEF Admitted, End, Idle, Base, TypeOK
<1>7. DownGoes(k) /\ r.who \notin Whose(down'[k], "admitted")
  BY <1>3, DownGoesTaken
<1>8. PostsFit(k)'
  BY <1>1, <1>2, <1>4, <1>5, <1>6 DEF FitsAt, PostsFit, Of
<1>9. AnswersFit(k)'
  BY <1>1, <1>2, <1>4, <1>6, <1>7 DEF FitsAt, AnswersFit, DownGoes, Of
<1> QED
  BY <1>8, <1>9 DEF FitsAt

LEMMA FitsAsLookUp ==
    ASSUME Base, JoinsSound, Late = {}, NEW k \in Mirrors, NEW r, LookUp(k, r)
    PROVE  FitsAt(k)'
<1>1. PICK i \in Ready(up[k]) : up[k][i] = r /\ up' = [up EXCEPT ![k] = Without(@, i)]
  <2>1. Reaches(k, r)
    BY DEF LookUp
  <2> QED
    BY <2>1 DEF Reaches
<1>2. Len(up[k]) \in Nat
  <2>1. up[k] \in Seq(Relay)
    BY DEF Base, TypeOK
  <2> QED
    BY <2>1, LenProperties
<1>3. i = 1 /\ i \in 1 .. Len(up[k])
  BY <1>1, <1>2, FirstTaken
<1>4. down' = down /\ members' = members /\ r.act = "join"
  BY DEF LookUp, roomVars
<1>5. \A v \in Of(k) \ {r.who} : busy'[v] = busy[v]
  <2>1. \E h : busy' = [busy EXCEPT ![r.who] = h]
    BY DEF LookUp
  <2> QED
    BY <2>1 DEF Of, Base, TypeOK
<1> QED
  BY <1>1, <1>3, <1>4, <1>5, FitsTaken

LEMMA FitsAsLost ==
    ASSUME Base, JoinsSound, "admitted" \notin MayFail, NEW u \in Users, LosePost(u),
           NEW k \in Mirrors, u \in Of(k)
    PROVE  FitsAt(k)'
<1>1. Home[u] = k
  BY DEF Of
<1>2. PICK i \in 1 .. Len(up[k]) :
        up[k][i] = News("join", u, NoUser) /\ up' = [up EXCEPT ![k] = Without(@, i)]
  BY <1>1 DEF LosePost
<1>3. down' = down /\ members' = members
  BY DEF LosePost, roomVars
<1>4. up[k][i].who = u /\ up[k][i].act = "join"
  BY <1>2 DEF News
<1>5. busy'[u].op = "idle" /\ \A v \in Of(k) \ {u} : busy'[v] = busy[v]
  BY DEF LosePost, End, Idle, Base, TypeOK, Of
<1>6. busy'[u].op \notin Out
  BY <1>5 DEF Out
<1> QED
  BY <1>2, <1>3, <1>4, <1>5, <1>6, FitsTaken

LEMMA FitsAsHandled ==
    ASSUME Base, JoinsSound, NEW k \in Mirrors, NEW r, HandleLeave(k, r)
    PROVE  FitsAt(k)'
<1>1. PICK i \in Ready(up[k]) : up[k][i] = r /\ up' = [up EXCEPT ![k] = Without(@, i)]
  BY DEF HandleLeave, Reaches
<1>2. i \in 1 .. Len(up[k]) /\ k \in Gateways
  BY <1>1 DEF Ready, Mirrors
<1>3. busy' = busy
  BY DEF HandleLeave
<1>4. members'[k] \subseteq members[k]
  <2>1. Remove(r.who) \/ members' = members
    BY DEF HandleLeave, roomVars
  <2>2. RowsTyped
    BY DEF Base, TypeOK, RowsTyped
  <2> QED
    BY <1>2, <2>1, <2>2, RemovesMembers DEF NoNewMembers
<1>5. down'[k] = down[k]
  BY DEF HandleLeave, Told
<1> QED
  BY <1>1, <1>2, <1>3, <1>4, <1>5, FitsTaken

LEMMA JoinsSoundStep ==
    ASSUME Base, JoinsSound, Late = {}, "admitted" \notin MayFail, Next
    PROVE  JoinsSound'
<1>1. ASSUME NEW k \in Mirrors  PROVE FitsAt(k)'
  <2>1. CASE ~AtTheDoor(k)
    BY <2>1, FitsElsewhere
  <2>2. CASE \E r : LookUp(k, r) \/ HandleLeave(k, r) \/ Admitted(k, r)
    BY <2>2, FitsAsLookUp, FitsAsHandled, FitsAsAdmitted
  <2>3. CASE \E u \in Of(k) : JoinRemote(u) \/ LeaveMirrorEnd(u) \/ LosePost(u) \/ Answer(u)
    <3>1. PICK u \in Of(k) : JoinRemote(u) \/ LeaveMirrorEnd(u) \/ LosePost(u) \/ Answer(u)
      BY <2>3
    <3>2. u \in Users
      BY DEF Of
    <3> QED
      BY <3>1, <3>2, FitsAsJoin, FitsAsLeave, FitsAsLost, FitsAsAnswer
  <2> QED
    BY <2>1, <2>2, <2>3 DEF AtTheDoor
<1>2. HomesFit'
  BY HomesStep
<1> QED
  BY <1>1, <1>2 DEF JoinsSound, FitsAt, Mirrors

LEMMA SoundInit ==
    ASSUME Init
    PROVE  RowsSound /\ JoinsSound /\ HandlersSound
<1> USE RoomAssumption
<1>1. RowsSound
  <2>1. ASSUME NEW g \in Gateways  PROVE RowsFit(g)
    BY DEF Init, RowsFit, Of, Foreign, Open, JoinedAt
  <2> QED
    BY <2>1 DEF RowsSound, Init
<1>2. /\ \A u \in Users : busy[u].op = "idle"
      /\ \A g \in Mirrors : up[g] = <<>> /\ down[g] = <<>>
  BY DEF Init, Idle
<1>3. HandlersSound /\ HomesFit
  BY <1>2 DEF HandlersSound, HandlerSound, HomesFit, HomeFits
<1>4. ASSUME NEW g \in Mirrors  PROVE PostsFit(g) /\ AnswersFit(g)
  <2>1. Len(up[g]) = 0 /\ Len(down[g]) = 0
    BY <1>2
  <2>2. \A act : Whose(up[g], act) = {} /\ Whose(down[g], act) = {}
    BY <2>1 DEF Whose
  <2>3. Ordered(up[g]) /\ Once(down[g])
    BY <2>1 DEF Ordered, Once
  <2> QED
    BY <2>2, <2>3 DEF PostsFit, AnswersFit
<1> QED
  BY <1>1, <1>3, <1>4 DEF JoinsSound

-----------------------------------------------------------------------------
(* What a mirror shows, and what it was told.                               *)

Banning == {u \in Users : busy[u].op = "banning"}
Announcing == {u \in Users : busy[u].op = "announcing"}
Leaving == {u \in Users : busy[u].op \in {"leaving", "owner leaving"}}

\* Whom the host counts at gateways: also those whose ban is still to be told.
Counted == fed[Host] \cup UNION {busy[u].list : u \in Banning}

\* Of whom the gateways have not been told the last: who is on the way out, is
\* being banned, or was let in just now.
Untold == (Leaving \cap Of(Host)) \cup {busy[u].who : u \in Banning} \cup Announcing

InHost == members[Host] \cup fed[Host]

\* The last that gateway g was told: whom the host counts there, the owner, who
\* is in, of whom that is open, and who is banned.  It is what the host has,
\* as long as the host counts anybody at g.
Current(g, t) ==
    /\ t.own \subseteq Of(g)
    /\ \A v \in Of(g) \ Announcing : v \in t.own <=> v \in Counted
    /\ t.own # {} =>
         /\ t.creator = creator[Host] /\ t.banned \subseteq banned[Host]
         /\ \A w \in Foreign(g) \ Untold : w \notin t.open /\ (w \in t.in <=> w \in InHost)

\* A user of g who has left, of which the host has not heard yet.
Gone(g, v) == busy[v].op = "leaving" \/ v \in Whose(up[g], "leave")

\* The rows of g are those of what it was told up to now.
Sees(g, s) ==
    /\ s.own \subseteq Of(g)
    /\ \A v \in Of(g) : ~Gone(g, v) => (v \in members[g] \ evicting[g] <=> v \in s.own)
    /\ Open(g) /\ evicting[g] = {} =>
         \E v \in s.own : v \in members[g] \/ busy[v].op = "leaving"
    /\ Open(g) /\ s.own # {} =>
         /\ creator[g] = s.creator /\ banned[g] \subseteq s.banned /\ banned[g] \cap fed[g] = {}
         /\ \A w \in Foreign(g) \ s.open : w \in Visible(g) \ departed[g] <=> w \in s.in

\* Whom the host counts at a gateway after relay r.
OwnAfter(own, r) ==
    IF r.act = "admitted" THEN own \cup {r.who}
    ELSE IF r.act \in {"kick", "ban"} THEN own \ {r.who}
    ELSE IF r.act = "delete_room" THEN {} ELSE own

SameFor(s, t, w) == w \notin t.open => w \notin s.open /\ (w \in t.in <=> w \in s.in)

\* An answer tells who is in; of a gateway that had the room already nothing
\* else has changed.
Admits(g, s, r, t) ==
    /\ t.creator = r.by /\ r.list \cap t.banned = {}
    /\ \A w \in Foreign(g) \ t.open : w \in t.in <=> w \in r.list
    /\ s.own # {} => /\ s.creator = r.by /\ s.banned \subseteq t.banned
                     /\ \A w \in Foreign(g) : SameFor(s, t, w)

\* Any other relay is about one user, ...
Keeps(g, s, r, t) ==
    /\ \A w \in Foreign(g) \ {r.who} : SameFor(s, t, w)
    /\ r.act # "owner_changed" => t.creator = s.creator
    /\ r.act # "unban" => s.banned \subseteq t.banned

\* ... and tells what has become of it.
IsOut(r, t) == r.who \notin t.in \/ r.who \in t.open
Tells(g, s, r, t) ==
    \/ /\ r.act = "member_joined"
       /\ r.by = s.creator /\ r.who \notin s.banned /\ (r.who \in t.in \/ r.who \in t.open)
    \/ r.act = "member_left" /\ r.by \in {s.creator, r.who} /\ IsOut(r, t)
    \/ /\ r.act = "owner_changed"
       /\ t.creator = r.who /\ r.who \in Foreign(g) /\ r.who \in s.in \ s.open
       /\ SameFor(s, t, r.who)
    \/ r.act = "kick" /\ IsOut(r, t)
    \/ r.act = "ban" /\ r.who \in t.banned /\ IsOut(r, t)
    \/ /\ r.act = "unban" /\ s.banned \ {r.who} \subseteq t.banned
       /\ r.who \in Foreign(g) => SameFor(s, t, r.who)

\* Relay r leads from what a gateway was told before to what it is told with it.
Leads(g, s, r, t) ==
    /\ t.own = OwnAfter(s.own, r)
    /\ r.act = "delete_room" /\ s.own # {} => r.by = s.creator
    /\ t.own # {} => IF r.act = "admitted" THEN Admits(g, s, r, t)
                     ELSE Keeps(g, s, r, t) /\ Tells(g, s, r, t)

Links(g, f, q) == \A i \in 1 .. Len(q) : Leads(g, f[i - 1], q[i], f[i])

\* The relays on the way to a mirror lead from what it shows to what the host has.
Follows(g) ==
    \E f : Sees(g, f[0]) /\ Links(g, f, down[g]) /\ Current(g, f[Len(down[g])])
Followed == ignored = {} => \A g \in Mirrors : Follows(g)

-----------------------------------------------------------------------------
\* How a step may go on from there.
SeesKept(g) == \A s : Sees(g, s) => Sees(g, s)'
CurrentKept(g) == \A s : Current(g, s) => Current(g, s)'

LEMMA FollowsFrom ==
    ASSUME NEW g, Follows(g)
    PROVE  \E f, q : q = down[g] /\ Sees(g, f[0]) /\ Links(g, f, q) /\ Current(g, f[Len(q)])
  BY DEF Follows

LEMMA FollowsTo ==
    ASSUME NEW g, NEW f, NEW q, NEW s, NEW t, down'[g] = q, f[0] = s, f[Len(q)] = t,
           Sees(g, s)', Links(g, f, q), Current(g, t)'
    PROVE  Follows(g)'
<1>1. Sees(g, f[0])'
  BY DEF Sees
<1>2. (f[Len(down[g])])' = t
  OBVIOUS
<1>3. Current(g, f[Len(down[g])])'
  BY <1>2 DEF Current
<1>4. Links(g, f, down[g])'
  BY DEF Links
<1> QED
  BY <1>1, <1>3, <1>4 DEF Follows

LEMMA FollowsStay ==
    ASSUME NEW g, Follows(g), down'[g] = down[g], SeesKept(g), CurrentKept(g)
    PROVE  Follows(g)'
<1>1. PICK f, q : q = down[g] /\ Sees(g, f[0]) /\ Links(g, f, q) /\ Current(g, f[Len(q)])
  BY FollowsFrom
<1>2. Sees(g, f[0])' /\ Current(g, f[Len(q)])'
  BY <1>1 DEF SeesKept, CurrentKept
<1> QED
  BY <1>1, <1>2, FollowsTo

\* Relays are added that lead on to what the host has now.
Extends(g, news) ==
    \A s : Current(g, s) =>
      \E h : h[0] = s /\ Links(g, h, news) /\ Current(g, h[Len(news)])'

LEMMA LinksConcat ==
    ASSUME NEW g, NEW S, NEW q \in Seq(S), NEW news \in Seq(S), NEW f, NEW h,
           Links(g, f, q), Links(g, h, news), h[0] = f[Len(q)]
    PROVE  \E e : e[0] = f[0] /\ e[Len(q \o news)] = h[Len(news)] /\ Links(g, e, q \o news)
<1> DEFINE z == q \o news
           n == Len(q)
           m == Len(news)
           e == [i \in 0 .. n + m |-> IF i <= n THEN f[i] ELSE h[i - n]]
<1>1. /\ Len(z) = n + m /\ n \in Nat /\ m \in Nat
      /\ \A j \in 1 .. n : z[j] = q[j]
      /\ \A j \in 1 .. m : z[n + j] = news[j]
  BY ConcatAt
<1>2. \A i \in 1 .. n : Leads(g, f[i - 1], q[i], f[i])
  BY DEF Links
<1>3. \A i \in 1 .. m : Leads(g, h[i - 1], news[i], h[i])
  BY DEF Links
<1>4. h[0] = f[n]
  OBVIOUS
<1> HIDE DEF z, n, m
<1>5. \A i \in 0 .. n : e[i] = f[i]
  BY <1>1
<1>6. \A i \in 0 .. m : e[n + i] = h[i]
  <2>1. ASSUME NEW i \in 0 .. m  PROVE e[n + i] = h[i]
    <3>1. n + i \in 0 .. n + m /\ (n + i) - n = i /\ (n + i <= n => i = 0)
      BY <1>1, <2>1
    <3> QED
      BY <1>1, <1>4, <3>1
  <2> QED
    BY <2>1
<1> HIDE DEF e
<1>7. ASSUME NEW i \in 1 .. n + m
      PROVE  Leads(g, e[i - 1], z[i], e[i])
  <2>1. CASE i \in 1 .. n
    <3>1. i \in 0 .. n /\ i - 1 \in 0 .. n
      BY <1>1, <2>1
    <3>2. e[i] = f[i] /\ e[i - 1] = f[i - 1] /\ z[i] = q[i]
      BY <1>1, <1>5, <2>1, <3>1
    <3>3. Leads(g, f[i - 1], q[i], f[i])
      BY <1>2, <2>1
    <3> QED
      BY <3>2, <3>3
  <2>2. CASE i \notin 1 .. n
    <3> DEFINE j == i - n
    <3>1. j \in 1 .. m /\ j \in 0 .. m /\ j - 1 \in 0 .. m /\ n + j = i /\ n + (j - 1) = i - 1
      BY <1>1, <1>7, <2>2
    <3> HIDE DEF j
    <3>2. e[n + j] = h[j] /\ e[n + (j - 1)] = h[j - 1] /\ z[n + j] = news[j]
      BY <1>1, <1>6, <3>1
    <3>3. Leads(g, h[j - 1], news[j], h[j])
      BY <1>3, <3>1
    <3> QED
      BY <3>1, <3>2, <3>3
  <2> QED
    BY <2>1, <2>2
<1>8. Links(g, e, z)
  BY <1>1, <1>7 DEF Links
<1>9. e[0] = f[0] /\ e[Len(z)] = h[m]
  <2>1. 0 \in 0 .. n /\ m \in 0 .. m
    BY <1>1
  <2> QED
    BY <1>1, <1>5, <1>6, <2>1
<1> QED
  BY <1>8, <1>9 DEF z, m

LEMMA FollowsNews ==
    ASSUME NEW g, Follows(g), SeesKept(g), NEW S, down[g] \in Seq(S), NEW news \in Seq(S),
           down'[g] = down[g] \o news, Extends(g, news)
    PROVE  Follows(g)'
<1>1. PICK f, q : q = down[g] /\ Sees(g, f[0]) /\ Links(g, f, q) /\ Current(g, f[Len(q)])
  BY FollowsFrom
<1>2. PICK h : h[0] = f[Len(q)] /\ Links(g, h, news) /\ Current(g, h[Len(news)])'
  BY <1>1 DEF Extends
<1>3. PICK e : e[0] = f[0] /\ e[Len(q \o news)] = h[Len(news)] /\ Links(g, e, q \o news)
  <2>1. q \in Seq(S) /\ Links(g, f, q) /\ Links(g, h, news) /\ h[0] = f[Len(q)]
    BY <1>1, <1>2
  <2> QED
    BY <2>1, LinksConcat
<1>4. Sees(g, f[0])'
  BY <1>1 DEF SeesKept
<1>5. down'[g] = q \o news
  BY <1>1
<1> DEFINE z == q \o news
<1>6. Links(g, e, z) /\ down'[g] = z /\ e[0] = f[0] /\ e[Len(z)] = h[Len(news)]
  BY <1>3, <1>5
<1> HIDE DEF z
<1> QED
  BY <1>2, <1>4, <1>6, FollowsTo

\* One relay, from what was told before to what is told now.
LEMMA FollowsTold ==
    ASSUME NEW g, Follows(g), SeesKept(g), NEW S, down[g] \in Seq(S), NEW r \in S,
           down'[g] = down[g] \o <<r>>,
           \A s : Current(g, s) => \E t : Leads(g, s, r, t) /\ Current(g, t)'
    PROVE  Follows(g)'
<1> DEFINE news == <<r>>
<1>1. news \in Seq(S) /\ Len(news) = 1 /\ news[1] = r
  OBVIOUS
<1> HIDE DEF news
<1>2. ASSUME NEW s, Current(g, s)
      PROVE  \E h : h[0] = s /\ Links(g, h, news) /\ Current(g, h[Len(news)])'
  <2>1. PICK t : Leads(g, s, r, t) /\ Current(g, t)'
    BY <1>2
  <2> DEFINE h == [i \in 0 .. 1 |-> IF i = 0 THEN s ELSE t]
  <2>2. h[0] = s /\ h[1] = t
    OBVIOUS
  <2> HIDE DEF h
  <2>3. Links(g, h, news)
    <3>1. \A i \in 1 .. Len(news) : i = 1 /\ i - 1 = 0
      BY <1>1
    <3> QED
      BY <1>1, <2>1, <2>2, <3>1 DEF Links
  <2>4. Current(g, h[Len(news)])'
    BY <1>1, <2>1, <2>2
  <2> QED
    BY <2>2, <2>3, <2>4
<1>3. Extends(g, news)
  BY <1>2 DEF Extends
<1>4. down'[g] = down[g] \o news
  BY DEF news
<1> QED
  BY <1>1, <1>3, <1>4, FollowsNews

\* Two relays.
LEMMA FollowsTwice ==
    ASSUME NEW g, Follows(g), SeesKept(g), NEW S, down[g] \in Seq(S), NEW a \in S, NEW b \in S,
           down'[g] = down[g] \o <<a, b>>,
           \A s : Current(g, s) =>
             \E t, m : Leads(g, s, a, m) /\ Leads(g, m, b, t) /\ Current(g, t)'
    PROVE  Follows(g)'
<1> DEFINE news == <<a, b>>
<1>1. news \in Seq(S) /\ Len(news) = 2 /\ news[1] = a /\ news[2] = b
  OBVIOUS
<1> HIDE DEF news
<1>2. ASSUME NEW s, Current(g, s)
      PROVE  \E h : h[0] = s /\ Links(g, h, news) /\ Current(g, h[Len(news)])'
  <2>1. PICK t, m : Leads(g, s, a, m) /\ Leads(g, m, b, t) /\ Current(g, t)'
    BY <1>2
  <2> DEFINE h == [i \in 0 .. 2 |-> IF i = 0 THEN s ELSE IF i = 1 THEN m ELSE t]
  <2>2. h[0] = s /\ h[1] = m /\ h[2] = t
    OBVIOUS
  <2> HIDE DEF h
  <2>3. Links(g, h, news)
    <3>1. \A i \in 1 .. Len(news) : (i = 1 /\ i - 1 = 0) \/ (i = 2 /\ i - 1 = 1)
      BY <1>1
    <3> QED
      BY <1>1, <2>1, <2>2, <3>1 DEF Links
  <2>4. Current(g, h[Len(news)])'
    BY <1>1, <2>1, <2>2
  <2> QED
    BY <2>2, <2>3, <2>4
<1>3. Extends(g, news)
  BY <1>2 DEF Extends
<1>4. down'[g] = down[g] \o news
  BY DEF news
<1> QED
  BY <1>1, <1>3, <1>4, FollowsNews

\* The mirror takes the first relay and comes to show what it was told with it.
LEMMA FollowsTaken ==
    ASSUME NEW g, Follows(g), CurrentKept(g), NEW S, down[g] \in Seq(S), NEW r,
           1 \in 1 .. Len(down[g]), down[g][1] = r, down'[g] = Without(down[g], 1),
           \A s, t : Sees(g, s) /\ Leads(g, s, r, t) => Sees(g, t)'
    PROVE  Follows(g)'
<1>1. PICK f, q : q = down[g] /\ Sees(g, f[0]) /\ Links(g, f, q) /\ Current(g, f[Len(q)])
  BY FollowsFrom
<1> DEFINE w == Without(q, 1)
           n == Len(q)
           e == [i \in 0 .. n - 1 |-> f[i + 1]]
<1>2. q \in Seq(S) /\ 1 \in 1 .. n /\ n \in Nat /\ q[1] = r /\ down'[g] = w
  BY <1>1, LenProperties
<1>3. Len(w) = n - 1 /\ \A j \in 1 .. n - 1 : w[j] = IF j < 1 THEN q[j] ELSE q[j + 1]
  BY <1>2, WithoutAt
<1>4. \A i \in 0 .. n - 1 : e[i] = f[i + 1]
  OBVIOUS
<1>5. \A i \in 1 .. n : Leads(g, f[i - 1], q[i], f[i])
  BY <1>1 DEF Links
<1>6. f[n] = e[n - 1] /\ f[1] = e[0]
  BY <1>2, <1>4
<1> HIDE DEF w, n, e
<1>7. ASSUME NEW i \in 1 .. Len(w)  PROVE Leads(g, e[i - 1], w[i], e[i])
  <2>1. i \in 1 .. n - 1 /\ i \in 0 .. n - 1 /\ i - 1 \in 0 .. n - 1 /\ i + 1 \in 1 .. n
        /\ ~(i < 1) /\ (i - 1) + 1 = i /\ (i + 1) - 1 = i
    BY <1>2, <1>3, <1>7
  <2>2. w[i] = q[i + 1] /\ e[i] = f[i + 1] /\ e[i - 1] = f[i]
    BY <1>3, <1>4, <2>1
  <2>3. Leads(g, f[(i + 1) - 1], q[i + 1], f[i + 1])
    BY <1>5, <2>1
  <2> QED
    BY <2>1, <2>2, <2>3
<1>8. Links(g, e, w)
  BY <1>7 DEF Links
<1>9. Sees(g, f[1])'
  <2>1. Leads(g, f[0], r, f[1])
    BY <1>2, <1>5
  <2> QED
    BY <1>1, <2>1
<1>10. Current(g, f[n])'
  BY <1>1 DEF CurrentKept, n
<1>11. e[0] = f[1] /\ e[Len(w)] = f[n]
  BY <1>3, <1>6
<1> QED
  BY <1>2, <1>8, <1>9, <1>10, <1>11, FollowsTo

\* The host learns that u of g has left: it counts it no longer, whatever it
\* told since.
Less(s, u) == [own |-> s.own \ {u}, creator |-> s.creator, in |-> s.in, open |-> s.open,
               banned |-> s.banned]

LEMMA LeadsLess ==
    ASSUME NEW g, NEW s, NEW r, NEW t, NEW u, Leads(g, s, r, t),
           r.act = "admitted" => r.who # u
    PROVE  Leads(g, Less(s, u), r, Less(t, u))
<1> DEFINE x == Less(s, u)
           y == Less(t, u)
<1>1. /\ x.own = s.own \ {u} /\ x.creator = s.creator /\ x.in = s.in /\ x.open = s.open
      /\ x.banned = s.banned
  BY DEF Less
<1>2. /\ y.own = t.own \ {u} /\ y.creator = t.creator /\ y.in = t.in /\ y.open = t.open
      /\ y.banned = t.banned
  BY DEF Less
<1> HIDE DEF x, y
<1>3. \A w : SameFor(s, t, w) <=> SameFor(x, y, w)
  BY <1>1, <1>2 DEF SameFor
<1>4. t.own = OwnAfter(s.own, r)
  BY DEF Leads
<1>5. y.own = OwnAfter(x.own, r)
  BY <1>1, <1>2, <1>4 DEF OwnAfter
<1>6. r.act = "delete_room" /\ x.own # {} => r.by = x.creator
  BY <1>1 DEF Leads
<1>7. ASSUME y.own # {}, r.act = "admitted"  PROVE Admits(g, x, r, y)
  <2>1. Admits(g, s, r, t)
    BY <1>2, <1>7 DEF Leads
  <2> QED
    BY <1>1, <1>2, <1>3, <2>1 DEF Admits
<1>8. ASSUME y.own # {}, r.act # "admitted"  PROVE Keeps(g, x, r, y) /\ Tells(g, x, r, y)
  <2>1. Keeps(g, s, r, t) /\ Tells(g, s, r, t)
    BY <1>2, <1>8 DEF Leads
  <2>2. Keeps(g, x, r, y)
    BY <1>1, <1>2, <1>3, <2>1 DEF Keeps
  <2>3. Tells(g, x, r, y)
    BY <1>1, <1>2, <1>3, <2>1 DEF Tells, IsOut
  <2> QED
    BY <2>2, <2>3
<1>9. Leads(g, x, r, y)
  BY <1>5, <1>6, <1>7, <1>8 DEF Leads
<1> QED
  BY <1>9 DEF x, y

LEMMA FollowsLess ==
    ASSUME NEW g, Follows(g), NEW S, down[g] \in Seq(S), down'[g] = down[g],
           NEW u, u \notin Whose(down[g], "admitted"),
           \A s : Sees(g, s) => Sees(g, Less(s, u))',
           \A s : Current(g, s) => Current(g, Less(s, u))'
    PROVE  Follows(g)'
<1>1. PICK f, q : q = down[g] /\ Sees(g, f[0]) /\ Links(g, f, q) /\ Current(g, f[Len(q)])
  BY FollowsFrom
<1> DEFINE e == [i \in 0 .. Len(q) |-> Less(f[i], u)]
<1>2. Len(q) \in Nat
  BY <1>1, LenProperties
<1>3. \A i \in 0 .. Len(q) : e[i] = Less(f[i], u)
  OBVIOUS
<1>4. 0 \in 0 .. Len(q) /\ Len(q) \in 0 .. Len(q)
  BY <1>2
<1> HIDE DEF e
<1>5. ASSUME NEW i \in 1 .. Len(q)  PROVE Leads(g, e[i - 1], q[i], e[i])
  <2>1. i \in 0 .. Len(q) /\ i - 1 \in 0 .. Len(q)
    BY <1>2, <1>5
  <2>2. q[i].act = "admitted" => q[i].who # u
    BY <1>1, <1>5 DEF Whose
  <2> DEFINE s == f[i - 1]
             r == q[i]
             t == f[i]
  <2>3. Leads(g, s, r, t)
    BY <1>1, <1>5 DEF Links
  <2> HIDE DEF s, r, t
  <2>4. Leads(g, Less(s, u), r, Less(t, u))
    BY <2>2, <2>3, LeadsLess DEF r
  <2> QED
    BY <1>3, <2>1, <2>4 DEF s, r, t
<1>6. Links(g, e, q)
  BY <1>5 DEF Links
<1>7. Sees(g, Less(f[0], u))' /\ Current(g, Less(f[Len(q)], u))'
  BY <1>1
<1>8. e[0] = Less(f[0], u) /\ e[Len(q)] = Less(f[Len(q)], u)
  BY <1>3, <1>4
<1> QED
  BY <1>1, <1>6, <1>7, <1>8, FollowsTo

-----------------------------------------------------------------------------
(* What a step leaves alone.                                                *)

RowsKept(k) ==
    /\ creator'[k] = creator[k] /\ members'[k] = members[k] /\ fed'[k] = fed[k]
    /\ departed'[k] = departed[k] /\ banned'[k] = banned[k]

\* The handlers of k's users tell it no leave.
LeavesKept(k) ==
    /\ \A v \in Of(k) : busy'[v].op = "leaving" <=> busy[v].op = "leaving"
    /\ Whose(up'[k], "leave") = Whose(up[k], "leave")

LEMMA SameRows ==
    ASSUME NEW g, RowsKept(g), evicting'[g] = evicting[g], LeavesKept(g)
    PROVE  SeesKept(g)
<1>1. \A v \in Of(g) : Gone(g, v)' <=> Gone(g, v)
  BY DEF Gone, LeavesKept
<1>2. Visible(g)' = Visible(g) /\ (Open(g)' <=> Open(g))
  BY DEF Visible, Open, RowsKept
<1>3. ASSUME NEW s, Sees(g, s)  PROVE Sees(g, s)'
  <2>1. \A v \in Of(g) : ~Gone(g, v)' => (v \in (members[g] \ evicting[g])' <=> v \in s.own)
    BY <1>1, <1>3 DEF Sees, RowsKept
  <2>2. Open(g)' /\ evicting'[g] = {} =>
          \E v \in s.own : v \in members'[g] \/ busy'[v].op = "leaving"
    BY <1>2, <1>3 DEF Sees, RowsKept, LeavesKept
  <2>3. Open(g)' /\ s.own # {} =>
         /\ creator'[g] = s.creator /\ banned'[g] \subseteq s.banned
         /\ banned'[g] \cap fed'[g] = {}
         /\ \A w \in Foreign(g) \ s.open : w \in (Visible(g) \ departed[g])' <=> w \in s.in
    BY <1>2, <1>3 DEF Sees, RowsKept
  <2>4. s.own \subseteq Of(g)
    BY <1>3 DEF Sees
  <2> QED
    BY <2>1, <2>2, <2>3, <2>4 DEF Sees, Of, Foreign
<1> QED
  BY <1>3 DEF SeesKept

LEMMA SameHost ==
    ASSUME NEW g, creator'[Host] = creator[Host], InHost' = InHost,
           banned[Host] \subseteq banned'[Host], Announcing' = Announcing,
           Counted' = Counted, Untold \subseteq Untold'
    PROVE  CurrentKept(g)
<1>1. ASSUME NEW t, Current(g, t)  PROVE Current(g, t)'
  BY <1>1 DEF Current, Of, Foreign
<1> QED
  BY <1>1 DEF CurrentKept

\* The handlers that are about no leave, ban or answer.
Plain == {"idle", "joining", "lookup", "deleting"}
PlainStep ==
    \A u \in Users : busy'[u] = busy[u] \/ (busy[u].op \in Plain /\ busy'[u].op \in Plain)

LEMMA PlainSame ==
    ASSUME PlainStep, fed'[Host] = fed[Host]
    PROVE  /\ Announcing' = Announcing /\ Counted' = Counted /\ Untold' = Untold
           /\ \A u \in Users : busy'[u].op = "leaving" <=> busy[u].op = "leaving"
<1>1. ASSUME NEW u \in Users
      PROVE  /\ busy'[u].op = "banning" <=> busy[u].op = "banning"
             /\ busy[u].op = "banning" => busy'[u] = busy[u]
             /\ busy'[u].op = "announcing" <=> busy[u].op = "announcing"
             /\ busy'[u].op = "leaving" <=> busy[u].op = "leaving"
             /\ busy'[u].op = "owner leaving" <=> busy[u].op = "owner leaving"
  BY DEF PlainStep, Plain
<1>2. Announcing' = Announcing /\ Banning' = Banning /\ Leaving' = Leaving
  BY <1>1 DEF Announcing, Banning, Leaving
<1>3. \A u \in Banning : busy'[u] = busy[u]
  BY <1>1 DEF Banning
<1>4. Counted' = Counted
  BY <1>2, <1>3 DEF Counted
<1>5. Untold' = Untold
  BY <1>2, <1>3 DEF Untold, Of
<1> QED
  BY <1>1, <1>2, <1>4, <1>5

\* A step that is about neither the mirror nor the host.
LEMMA Aside ==
    ASSUME NEW g \in Mirrors, Follows(g), PlainStep, HostRowsKept, RowsKept(g),
           evicting'[g] = evicting[g], Whose(up'[g], "leave") = Whose(up[g], "leave"),
           down'[g] = down[g]
    PROVE  Follows(g)'
<1>1. /\ Announcing' = Announcing /\ Counted' = Counted /\ Untold' = Untold
      /\ \A u \in Users : busy'[u].op = "leaving" <=> busy[u].op = "leaving"
  BY PlainSame DEF HostRowsKept
<1>2. LeavesKept(g)
  BY <1>1 DEF LeavesKept, Of
<1>3. SeesKept(g)
  BY <1>2, SameRows
<1>4. CurrentKept(g)
  BY <1>1, SameHost DEF HostRowsKept, InHost
<1> QED
  BY <1>3, <1>4, FollowsStay

LEMMA PlainOne ==
    ASSUME Base, NEW u \in Users, NEW h, busy' = [busy EXCEPT ![u] = h],
           busy[u].op \in Plain, h.op \in Plain
    PROVE  PlainStep
  BY DEF PlainStep, Base, TypeOK

LEMMA AsideDesk ==
    ASSUME Base, NEW g \in Mirrors, Follows(g), NEW u \in Users, NEW t \in Users,
           Decline(u) \/ NewInvite(u) \/ SetRole(u, t) \/ Offer(u, t) \/ Delete(u)
    PROVE  Follows(g)'
<1>1. UNCHANGED <<roomVars, evicting, down, up>>
  BY DEF Decline, NewInvite, SetRole, Offer, Delete
<1>2. PlainStep
  <2>1. CASE UNCHANGED busy
    BY <2>1 DEF PlainStep
  <2>2. CASE Delete(u)
    <3>1. busy' = [busy EXCEPT ![u] = Doing("deleting", NoUser, {})] /\ busy[u] = Idle
      BY <2>2 DEF Delete, Begin, Command
    <3>2. busy[u].op \in Plain /\ Doing("deleting", NoUser, {}).op \in Plain
      BY <3>1 DEF Plain, Idle, Doing
    <3> QED
      BY <3>1, <3>2, PlainOne
  <2> QED
    BY <2>1, <2>2 DEF Decline, NewInvite, SetRole, Offer
<1>3. HostRowsKept /\ RowsKept(g)
  BY <1>1 DEF HostRowsKept, RowsKept, roomVars
<1> QED
  BY <1>1, <1>2, <1>3, Aside

LEMMA AsideJoinRemote ==
    ASSUME Base, NEW g \in Mirrors, Follows(g), NEW u \in Users, JoinRemote(u)
    PROVE  Follows(g)'
<1>1. UNCHANGED <<roomVars, evicting, down>>
  BY DEF JoinRemote
<1>2. Begin(u, "joining", NoUser) /\ busy[u] = Idle
  BY DEF JoinRemote
<1>3. busy[u].op \in Plain /\ Doing("joining", NoUser, {}).op \in Plain
  BY <1>2 DEF Plain, Idle, Doing
<1>4. busy' = [busy EXCEPT ![u] = Doing("joining", NoUser, {})]
  BY <1>2 DEF Begin
<1>5. PlainStep
  BY <1>3, <1>4, PlainOne
<1>6. HostRowsKept /\ RowsKept(g)
  BY <1>1 DEF HostRowsKept, RowsKept, roomVars
<1>7. Whose(up'[g], "leave") = Whose(up[g], "leave")
  <2> DEFINE r == News("join", u, NoUser)
  <2>1. up' = [up EXCEPT ![Home[u]] = Append(@, r)]
    BY DEF JoinRemote
  <2>2. up'[g] = up[g] \/ up'[g] = Append(up[g], r)
    BY <2>1 DEF Base, TypeOK
  <2>3. r \in Relay /\ r.act = "join" /\ up[g] \in Seq(Relay)
    BY DEF News, Relay, MaybeUser, Base, TypeOK
  <2> HIDE DEF r
  <2>4. Whose(Append(up[g], r), "leave") = Whose(up[g], "leave")
    BY <2>3, WhoseAppend
  <2> QED
    BY <2>2, <2>4
<1> QED
  BY <1>1, <1>5, <1>6, <1>7, Aside

LEMMA JoinTaken ==
    ASSUME Base, NEW g \in Mirrors, NEW k, NEW i \in 1 .. Len(up[k]),
           up[k][i].act = "join", up' = [up EXCEPT ![k] = Without(@, i)]
    PROVE  Whose(up'[g], "leave") = Whose(up[g], "leave")
<1>1. CASE g = k
  <2> DEFINE q == up[k]
  <2>1. q \in Seq(Relay) /\ up'[k] = Without(q, i) /\ i \in 1 .. Len(q) /\ q[i].act # "leave"
    BY <1>1 DEF Base, TypeOK
  <2> HIDE DEF q
  <2>2. Whose(Without(q, i), "leave") = Whose(q, "leave")
    BY <2>1, WhoseWithout
  <2> QED
    BY <1>1, <2>1, <2>2 DEF q
<1>2. CASE g # k
  BY <1>2 DEF Base, TypeOK
<1> QED
  BY <1>1, <1>2

LEMMA AsideLost ==
    ASSUME Base, JoinsSound, "admitted" \notin MayFail, NEW g \in Mirrors, Follows(g),
           NEW u \in Users, LosePost(u)
    PROVE  Follows(g)'
<1>1. UNCHANGED <<roomVars, evicting, down>> /\ End(u) /\ busy[u].op = "joining"
  BY DEF LosePost
<1>2. busy' = [busy EXCEPT ![u] = Idle] /\ busy[u].op \in Plain /\ Idle.op \in Plain
  BY <1>1 DEF End, Plain, Idle
<1>3. PlainStep
  BY <1>2, PlainOne
<1>4. HostRowsKept /\ RowsKept(g)
  BY <1>1 DEF HostRowsKept, RowsKept, roomVars
<1>5. Whose(up'[g], "leave") = Whose(up[g], "leave")
  <2> DEFINE k == Home[u]
  <2>1. PICK i \in 1 .. Len(up[k]) :
          up[k][i] = News("join", u, NoUser) /\ up' = [up EXCEPT ![k] = Without(@, i)]
    BY DEF LosePost
  <2>2. up[k][i].act = "join"
    BY <2>1 DEF News
  <2> HIDE DEF k
  <2> QED
    BY <2>1, <2>2, JoinTaken
<1> QED
  BY <1>1, <1>3, <1>4, <1>5, Aside

LEMMA AsideLookUp ==
    ASSUME Base, JoinsSound, NEW g \in Mirrors, Follows(g), NEW k \in Mirrors, NEW r, LookUp(k, r)
    PROVE  Follows(g)'
<1>1. UNCHANGED <<roomVars, evicting, down>> /\ r.act = "join" /\ Reaches(k, r)
  BY DEF LookUp
<1>2. r.who \in Users /\ busy[r.who].op = "joining"
  BY LookedUpUser DEF Of
<1>3. PlainStep
  <2> DEFINE h == IF HostedAt(Host) /\ r.who # creator[Host] /\ ~IsLocal(Host, r.who)
                  THEN Doing("lookup", creator[Host], {}) ELSE Idle
  <2>1. busy' = [busy EXCEPT ![r.who] = h]
    BY DEF LookUp
  <2>2. h.op \in Plain /\ busy[r.who].op \in Plain
    BY <1>2 DEF Plain, Doing, Idle
  <2> HIDE DEF h
  <2> QED
    BY <1>2, <2>1, <2>2, PlainOne
<1>4. HostRowsKept /\ RowsKept(g)
  BY <1>1 DEF HostRowsKept, RowsKept, roomVars
<1>5. Whose(up'[g], "leave") = Whose(up[g], "leave")
  <2>1. PICK i \in Ready(up[k]) : up[k][i] = r /\ up' = [up EXCEPT ![k] = Without(@, i)]
    BY <1>1 DEF Reaches
  <2>2. i \in 1 .. Len(up[k]) /\ up[k][i].act = "join"
    BY <1>1, <2>1 DEF Ready
  <2> QED
    BY <2>1, <2>2, JoinTaken
<1> QED
  BY <1>1, <1>3, <1>4, <1>5, Aside

\* What another mirror does.
LEMMA AsideHeard ==
    ASSUME Base, JoinsSound, NEW g \in Mirrors, Follows(g), NEW k \in Mirrors, k # g,
           NEW r, Heard(k, r)
    PROVE  Follows(g)'
<1>0. RowsTyped
  BY DEF Base, TypeOK, RowsTyped
<1>1. HostRowsKept
  BY <1>0, NewsKeepsHost
<1>2. Gets(k, r)
  BY DEF Heard, Admitted, HandleMemberJoined, HandleMemberLeft,
    HandleOwnerChanged, HandleDelete, HandleKick, HandleBan, HandleUnban
<1>3. up' = up /\ down'[g] = down[g]
  BY <1>2, DownGoesTaken DEF Gets
<1>4. PlainStep
  <2>1. CASE UNCHANGED busy
    BY <2>1 DEF PlainStep
  <2>2. CASE Admitted(k, r)
    <3>1. r.who \in Users /\ busy[r.who].op = "joining"
      BY <2>2, AnsweredUser DEF Of
    <3>2. busy' = [busy EXCEPT ![r.who] = Idle]
      BY <2>2 DEF Admitted, End
    <3>3. busy[r.who].op \in Plain /\ Idle.op \in Plain
      BY <3>1 DEF Plain, Idle
    <3> QED
      BY <3>1, <3>2, <3>3, PlainOne
  <2> QED
    BY <2>1, <2>2 DEF Heard, HandleMemberJoined, HandleMemberLeft,
      HandleOwnerChanged, HandleDelete, HandleKick, HandleBan, HandleUnban
<1>5. RowsKept(g) /\ evicting'[g] = evicting[g]
  <2>1. g \in Gateways /\ k \in Gateways
    BY DEF Mirrors
  <2>2. CASE HandleDelete(k, r)
    BY <1>0, <2>1, <2>2 DEF HandleDelete, Drop, RowsTyped, RowsKept, roomVars
  <2>3. CASE Admitted(k, r)
    BY <1>0, <2>1, <2>3 DEF Admitted, RowsTyped, RowsKept
  <2>4. CASE HandleMemberJoined(k, r)
    BY <1>0, <2>1, <2>4 DEF HandleMemberJoined, AddFed, RowsTyped, RowsKept
  <2>5. CASE HandleMemberLeft(k, r)
    BY <1>0, <2>1, <2>5 DEF HandleMemberLeft, DropFed, RowsTyped, RowsKept
  <2>6. CASE HandleOwnerChanged(k, r)
    BY <1>0, <2>1, <2>6 DEF HandleOwnerChanged, AddFed, RowsTyped, RowsKept
  <2>7. CASE HandleKick(k, r)
    BY <1>0, <2>1, <2>7 DEF HandleKick, DropFed, RowsTyped, RowsKept, Base, TypeOK
  <2>8. CASE HandleBan(k, r)
    BY <1>0, <2>1, <2>8 DEF HandleBan, DropFed, RowsTyped, RowsKept, Base, TypeOK
  <2>9. CASE HandleUnban(k, r)
    BY <1>0, <2>1, <2>9 DEF HandleUnban, RowsTyped, RowsKept
  <2> QED
    BY <2>2, <2>3, <2>4, <2>5, <2>6, <2>7, <2>8, <2>9 DEF Heard
<1>6. Whose(up'[g], "leave") = Whose(up[g], "leave")
  BY <1>3
<1> QED
  BY <1>1, <1>3, <1>4, <1>5, <1>6, Aside

LEMMA AsideEvict ==
    ASSUME Base, NEW g \in Mirrors, Follows(g), NEW k \in Mirrors, k # g, NEW u, Evict(k, u)
    PROVE  Follows(g)'
<1>0. RowsTyped /\ g \in Gateways /\ k \in Gateways
  BY DEF Base, TypeOK, RowsTyped, Mirrors
<1>1. HostRowsKept
  BY <1>0, EvictKeepsHost
<1>2. RowsKept(g)
  <2>1. \/ Drop(k)
        \/ /\ members' = [members EXCEPT ![k] = members[k] \ {u}]
           /\ creator' = creator /\ fed' = fed /\ departed' = departed /\ banned' = banned
    BY DEF Evict
  <2> QED
    BY <1>0, <2>1 DEF Drop, RowsTyped, RowsKept
<1>3. evicting'[g] = evicting[g] /\ up' = up /\ down' = down /\ busy' = busy
  BY <1>0 DEF Evict, Base, TypeOK
<1>4. PlainStep /\ Whose(up'[g], "leave") = Whose(up[g], "leave") /\ down'[g] = down[g]
  BY <1>3 DEF PlainStep
<1> QED
  BY <1>1, <1>2, <1>3, <1>4, Aside

-----------------------------------------------------------------------------
(* The host tells the gateways of what it does.                             *)

\* What a relay about one user leaves as it was at the host, ...
HostKeeps(g, act, who) ==
    /\ \A w \in Foreign(g) \ {who} :
         w \notin Untold' => w \notin Untold /\ (w \in InHost' <=> w \in InHost)
    /\ act # "owner_changed" => creator'[Host] = creator[Host]
    /\ act # "unban" => banned[Host] \subseteq banned'[Host]

\* ... and what has become of the user.
HostTells(g, act, who, by) ==
    \/ act = "member_joined" /\ by = creator[Host] /\ who \notin banned[Host] /\ who \in InHost'
    \/ act = "member_left" /\ by \in {creator[Host], who} /\ who \notin InHost'
    \/ /\ act = "owner_changed" /\ creator'[Host] = who /\ who \in Foreign(g)
       /\ who \in InHost \ Untold /\ who \in InHost'
    \/ act = "kick" /\ who \notin InHost'
    \/ act = "ban" /\ who \in banned'[Host] /\ who \notin InHost'
    \/ /\ act = "unban" /\ banned[Host] \ {who} \subseteq banned'[Host]
       /\ Untold \subseteq Untold' /\ InHost' = InHost

LEMMA CurrentOwn ==
    ASSUME NEW g, NEW s, Current(g, s), Of(g) \cap Announcing = {}
    PROVE  s.own = Of(g) \cap Counted
  BY DEF Current

\* A gateway at which the host counts nobody is up to date.
LEMMA CurrentNobody ==
    ASSUME NEW g, NEW s, Current(g, s), Of(g) \cap Announcing = {}, Of(g) \cap Counted = {},
           Of(g) \cap Counted' = {}
    PROVE  Current(g, s)'
<1>1. s.own = {}
  BY CurrentOwn
<1> QED
  BY <1>1 DEF Current, Of

LEMMA HostNews ==
    ASSUME NEW g \in Mirrors, Follows(g), SeesKept(g), down[g] \in Seq(Relay),
           NEW act, NEW who \in Users, NEW by, News(act, who, by) \in Relay, NEW gs,
           \/ g \in gs /\ down'[g] = down[g] \o <<News(act, who, by)>>
           \/ g \notin gs /\ down'[g] = down[g],
           Of(g) \cap Announcing = {},
           g \notin gs => Of(g) \cap Counted = {},
           Of(g) \cap Counted' =
             IF act \in {"kick", "ban"} THEN (Of(g) \cap Counted) \ {who} ELSE Of(g) \cap Counted,
           HostKeeps(g, act, who), HostTells(g, act, who, by)
    PROVE  Follows(g)'
<1> DEFINE r == News(act, who, by)
<1>1. r.act = act /\ r.who = who /\ r.by = by /\ r \in Relay
  BY DEF News
<1>2. act \notin {"admitted", "delete_room"}
  BY DEF HostTells
<1> HIDE DEF r
<1>3. CASE g \in gs
  <2>1. ASSUME NEW s, Current(g, s)
        PROVE  \E t : Leads(g, s, r, t) /\ Current(g, t)'
    <3> DEFINE t == [own |-> Of(g) \cap Counted', creator |-> creator'[Host], in |-> InHost',
                     open |-> Untold', banned |-> banned'[Host]]
    <3>1. /\ t.own = Of(g) \cap Counted' /\ t.creator = creator'[Host] /\ t.in = InHost'
          /\ t.open = Untold' /\ t.banned = banned'[Host]
      OBVIOUS
    <3>2. PICK x : x = t
      OBVIOUS
    <3> HIDE DEF t
    <3>3. /\ x.own = Of(g) \cap Counted' /\ x.creator = creator'[Host] /\ x.in = InHost'
          /\ x.open = Untold' /\ x.banned = banned'[Host]
      BY <3>1, <3>2
    <3>4. s.own = Of(g) \cap Counted
      BY <2>1, CurrentOwn
    <3>5. x.own = OwnAfter(s.own, r)
      BY <1>1, <1>2, <3>3, <3>4 DEF OwnAfter
    <3>6. Current(g, x)'
      BY <3>3 DEF Current, Of, Foreign
    <3>7. ASSUME x.own # {}  PROVE Keeps(g, s, r, x) /\ Tells(g, s, r, x)
      <4>1. s.own # {}
        BY <3>3, <3>4, <3>7
      <4>2. /\ s.creator = creator[Host] /\ s.banned \subseteq banned[Host]
            /\ \A w \in Foreign(g) \ Untold : w \notin s.open /\ (w \in s.in <=> w \in InHost)
        BY <2>1, <4>1 DEF Current
      <4>3. \A w \in Foreign(g) \ {who} : SameFor(s, x, w)
        BY <3>3, <4>2 DEF HostKeeps, SameFor
      <4>4. Keeps(g, s, r, x)
        BY <1>1, <3>3, <4>2, <4>3 DEF HostKeeps, Keeps
      <4>5. who \in Foreign(g) /\ InHost' = InHost /\ Untold \subseteq Untold' => SameFor(s, x, who)
        BY <3>3, <4>2 DEF SameFor
      <4>6. act = "owner_changed" => SameFor(s, x, who)
        BY <3>3, <4>2 DEF HostTells, SameFor
      <4>7. Tells(g, s, r, x)
        BY <1>1, <3>3, <4>2, <4>5, <4>6 DEF HostTells, Tells, IsOut
      <4> QED
        BY <4>4, <4>7
    <3>8. Leads(g, s, r, x)
      BY <1>1, <1>2, <3>5, <3>7 DEF Leads
    <3> QED
      BY <3>6, <3>8
  <2>2. down'[g] = down[g] \o <<r>>
    BY <1>3 DEF r
  <2> QED
    BY <1>1, <2>1, <2>2, FollowsTold
<1>4. CASE g \notin gs
  <2>1. Of(g) \cap Counted = {} /\ Of(g) \cap Counted' = {}
    BY <1>4
  <2>2. CurrentKept(g)
    BY <2>1, CurrentNobody DEF CurrentKept
  <2> QED
    BY <1>4, <2>2, FollowsStay
<1> QED
  BY <1>3, <1>4

\* Nobody's command is held up at the host.
Calm == \A v \in Users : busy[v].op \notin Held

LEMMA WhenCalm ==
    ASSUME Calm
    PROVE  Announcing = {} /\ Counted = fed[Host] /\ Untold = Leaving \cap Of(Host)
<1>1. Banning = {} /\ Announcing = {}
  BY DEF Calm, Held, Banning, Announcing
<1>2. Counted = fed[Host]
  BY <1>1 DEF Counted
<1>3. Untold = Leaving \cap Of(Host)
  BY <1>1 DEF Untold
<1> QED
  BY <1>1, <1>2, <1>3

LEMMA StaysCalm ==
    ASSUME Calm, UNCHANGED busy
    PROVE  Announcing' = {} /\ Counted' = fed'[Host] /\ Untold' = Untold
<1>1. Banning' = {} /\ Announcing' = {} /\ Banning = {} /\ Announcing = {} /\ Leaving' = Leaving
  BY DEF Calm, Held, Banning, Announcing, Leaving
<1>2. Counted' = fed'[Host]
  BY <1>1 DEF Counted
<1>3. Untold' = Untold
  BY <1>1 DEF Untold, Of
<1> QED
  BY <1>1, <1>2, <1>3

\* The gateways that are told are those the host counts anybody at.
LEMMA NobodyThere ==
    ASSUME BannedIsOut, NEW g \in Mirrors, g \notin GatewaysOf(Visible(Host))
    PROVE  Of(g) \cap fed[Host] = {}
<1>1. g # Host
  BY DEF Mirrors
<1> QED
  BY <1>1 DEF BannedIsOut, GatewaysOf, Visible, Of

LEMMA ToldAt ==
    ASSUME NEW gs, NEW news, down' = Told(gs, news), NEW g \in Mirrors
    PROVE  \/ g \in gs /\ down'[g] = down[g] \o news
           \/ g \notin gs /\ down'[g] = down[g]
  BY DEF Told

\* A step on the host's rows leaves a mirror's alone.
OnHost ==
    /\ \E c : creator' = [creator EXCEPT ![Host] = c]
    /\ \E m : members' = [members EXCEPT ![Host] = m]
    /\ \E f : fed' = [fed EXCEPT ![Host] = f]
    /\ \E d : departed' = [departed EXCEPT ![Host] = d]
    /\ \E b : banned' = [banned EXCEPT ![Host] = b]
    /\ evicting' = evicting /\ up' = up

LEMMA SeesKeptOnHost ==
    ASSUME Base, NEW g \in Mirrors, OnHost,
           \A v \in Of(g) : busy'[v].op = "leaving" <=> busy[v].op = "leaving"
    PROVE  SeesKept(g)
<1>1. g \in Gateways /\ g # Host
  BY DEF Mirrors
<1>2. RowsTyped
  BY DEF Base, TypeOK, RowsTyped
<1>3. creator'[g] = creator[g] /\ members'[g] = members[g]
  BY <1>1, <1>2 DEF OnHost, RowsTyped
<1>4. fed'[g] = fed[g] /\ departed'[g] = departed[g] /\ banned'[g] = banned[g]
  BY <1>1, <1>2 DEF OnHost, RowsTyped
<1>5. evicting'[g] = evicting[g] /\ LeavesKept(g)
  BY DEF OnHost, LeavesKept
<1> QED
  BY <1>3, <1>4, <1>5, SameRows DEF RowsKept

LEMMA Unwritten ==
    ASSUME Base
    PROVE  /\ creator = [creator EXCEPT ![Host] = creator[Host]]
           /\ members = [members EXCEPT ![Host] = members[Host]]
           /\ fed = [fed EXCEPT ![Host] = fed[Host]]
           /\ departed = [departed EXCEPT ![Host] = departed[Host]]
           /\ banned = [banned EXCEPT ![Host] = banned[Host]]
<1>1. RowsTyped
  BY DEF Base, TypeOK, RowsTyped
<1>2. creator = [creator EXCEPT ![Host] = creator[Host]]
  BY <1>1 DEF RowsTyped
<1>3. members = [members EXCEPT ![Host] = members[Host]]
  BY <1>1 DEF RowsTyped
<1>4. fed = [fed EXCEPT ![Host] = fed[Host]]
  BY <1>1 DEF RowsTyped
<1>5. departed = [departed EXCEPT ![Host] = departed[Host]]
  BY <1>1 DEF RowsTyped
<1>6. banned = [banned EXCEPT ![Host] = banned[Host]]
  BY <1>1 DEF RowsTyped
<1> QED
  BY <1>2, <1>3, <1>4, <1>5, <1>6

LEMMA RemoveRows ==
    ASSUME Base, NEW u, Remove(u)
    PROVE  /\ members'[Host] = members[Host] \ {u} /\ fed'[Host] = fed[Host] \ {u}
           /\ \E m : members' = [members EXCEPT ![Host] = m]
           /\ \E f : fed' = [fed EXCEPT ![Host] = f]
           /\ \E d : departed' = [departed EXCEPT ![Host] = d]
<1>1. RowsTyped /\ Host \in Gateways
  BY RoomAssumption DEF Base, TypeOK, RowsTyped
<1>2. members'[Host] = members[Host] \ {u} /\ fed'[Host] = fed[Host] \ {u}
  BY <1>1 DEF Remove, DropFed, RowsTyped
<1> QED
  BY <1>2 DEF Remove, DropFed

LEMMA CalmNews ==
    ASSUME Base, BannedIsOut, Calm, Counted' = fed'[Host], NEW g \in Mirrors, Follows(g),
           SeesKept(g),
           NEW act \in {"member_joined", "member_left", "owner_changed", "kick", "ban", "unban"},
           NEW who \in Users, NEW by \in MaybeUser,
           down' = Told(GatewaysOf(Visible(Host)), <<News(act, who, by)>>),
           Of(g) \cap fed'[Host] =
             IF act \in {"kick", "ban"} THEN (Of(g) \cap fed[Host]) \ {who}
             ELSE Of(g) \cap fed[Host],
           HostKeeps(g, act, who), HostTells(g, act, who, by)
    PROVE  Follows(g)'
<1> DEFINE gs == GatewaysOf(Visible(Host))
           news == <<News(act, who, by)>>
<1>0. down' = Told(gs, news)
  OBVIOUS
<1> HIDE DEF news
<1>6. \/ g \in gs /\ down'[g] = down[g] \o news
      \/ g \notin gs /\ down'[g] = down[g]
  BY <1>0, ToldAt
<1>1. \/ g \in gs /\ down'[g] = down[g] \o <<News(act, who, by)>>
      \/ g \notin gs /\ down'[g] = down[g]
  BY <1>6 DEF news
<1>2. g \notin gs => Of(g) \cap fed[Host] = {}
  BY NobodyThere
<1>3. News(act, who, by) \in Relay
  BY DEF News, Relay
<1>4. down[g] \in Seq(Relay)
  BY DEF Base, TypeOK
<1> HIDE DEF gs
<1>5. Announcing = {} /\ Counted = fed[Host]
  BY WhenCalm
<1> QED
  BY <1>1, <1>2, <1>3, <1>4, <1>5, HostNews

LEMMA FollowsJoin ==
    ASSUME Base, BannedIsOut, Calm, NEW g \in Mirrors, Follows(g), NEW u \in Users, Join(u)
    PROVE  Follows(g)'
<1>1. /\ Home[u] = Host /\ u \notin banned[Host] /\ UNCHANGED <<creator, fed, departed, banned, busy>>
      /\ UNCHANGED <<evicting, up>> /\ members' = [members EXCEPT ![Host] = members[Host] \cup {u}]
  BY DEF Join, Command
<1>2. g \in Gateways /\ g # Host /\ Host \in Gateways
      /\ members'[Host] = members[Host] \cup {u} /\ members'[g] = members[g]
  BY <1>1, RoomAssumption DEF Mirrors, Base, TypeOK
<1>3. CASE u \in members[Host]
  <2>1. HostRowsKept /\ RowsKept(g) /\ PlainStep /\ down' = down
    BY <1>1, <1>2, <1>3 DEF HostRowsKept, RowsKept, PlainStep, Join
  <2> QED
    BY <1>1, <2>1, Aside
<1>4. CASE u \notin members[Host]
  <2> DEFINE by == creator[Host]
  <2>1. down' = Told(GatewaysOf(Visible(Host)), <<News("member_joined", u, by)>>)
    BY <1>4 DEF Join
  <2>2. SeesKept(g)
    BY <1>1, Unwritten, SeesKeptOnHost DEF OnHost
  <2>3. Counted' = fed'[Host] /\ Untold' = Untold
    BY <1>1, StaysCalm
  <2>4. by \in MaybeUser
    BY <1>2 DEF Base, TypeOK
  <2>5. HostKeeps(g, "member_joined", u) /\ HostTells(g, "member_joined", u, by)
    BY <1>1, <1>2, <2>3 DEF HostKeeps, HostTells, InHost
  <2> HIDE DEF by
  <2> QED
    BY <1>1, <2>1, <2>2, <2>3, <2>4, <2>5, CalmNews
<1> QED
  BY <1>3, <1>4

LEMMA FollowsAccept ==
    ASSUME Base, BannedIsOut, Calm, NEW g \in Mirrors, Follows(g), NEW u \in Users, Accept(u)
    PROVE  Follows(g)'
<1>1. /\ Home[u] = Host /\ busy[u] = Idle /\ UNCHANGED <<members, fed, departed, banned, busy>>
      /\ UNCHANGED <<evicting, up>>
  BY DEF Accept, Command
<1>2. g \in Gateways /\ g # Host /\ Host \in Gateways
  BY RoomAssumption DEF Mirrors
<1>3. CASE Stale(u)
  <2>1. HostRowsKept /\ RowsKept(g) /\ PlainStep /\ down' = down
    BY <1>1, <1>2, <1>3 DEF HostRowsKept, RowsKept, PlainStep, Accept
  <2> QED
    BY <1>1, <2>1, Aside
<1>4. CASE ~Stale(u)
  <2>1. /\ down' = Told(GatewaysOf(Visible(Host)), <<News("owner_changed", u, u)>>)
        /\ creator' = [creator EXCEPT ![Host] = u] /\ u \in members[Host]
    BY <1>4 DEF Accept, Stale
  <2>2. SeesKept(g)
    BY <1>1, <2>1, Unwritten, SeesKeptOnHost DEF OnHost
  <2>3. Counted' = fed'[Host] /\ Untold' = Untold
    BY <1>1, StaysCalm
  <2>4. u \in MaybeUser /\ creator'[Host] = u /\ u \in Foreign(g)
    BY <1>1, <1>2, <2>1 DEF MaybeUser, Base, TypeOK, Foreign, Of
  <2>5. u \notin Untold
    <3>1. busy[u].op = "idle"
      BY <1>1 DEF Idle
    <3>2. u \notin Leaving
      BY <3>1 DEF Leaving
    <3> QED
      BY <3>2, WhenCalm
  <2>6. HostKeeps(g, "owner_changed", u) /\ HostTells(g, "owner_changed", u, u)
    BY <1>1, <2>1, <2>3, <2>4, <2>5 DEF HostKeeps, HostTells, InHost
  <2> QED
    BY <1>1, <2>1, <2>2, <2>3, <2>4, <2>6, CalmNews
<1> QED
  BY <1>3, <1>4

LEMMA FollowsKick ==
    ASSUME Base, BannedIsOut, Calm, NEW g \in Mirrors, Follows(g), NEW u \in Users,
           NEW t \in Users, Kick(u, t)
    PROVE  Follows(g)'
<1>1. /\ UNCHANGED <<creator, banned, busy, evicting, up>> /\ Remove(t)
      /\ down' = Told(GatewaysOf(Visible(Host)), <<News("kick", t, u)>>)
  BY DEF Kick, KickReaches
<1>2. /\ members'[Host] = members[Host] \ {t} /\ fed'[Host] = fed[Host] \ {t}
      /\ \E m : members' = [members EXCEPT ![Host] = m]
      /\ \E f : fed' = [fed EXCEPT ![Host] = f]
      /\ \E d : departed' = [departed EXCEPT ![Host] = d]
  BY <1>1, RemoveRows
<1>3. SeesKept(g)
  BY <1>1, <1>2, Unwritten, SeesKeptOnHost DEF OnHost
<1>4. Counted' = fed'[Host] /\ Untold' = Untold
  BY <1>1, StaysCalm
<1>5. HostKeeps(g, "kick", t) /\ HostTells(g, "kick", t, u)
  BY <1>1, <1>2, <1>4 DEF HostKeeps, HostTells, InHost
<1>6. u \in MaybeUser /\ Of(g) \cap fed'[Host] = (Of(g) \cap fed[Host]) \ {t}
  BY <1>2 DEF MaybeUser
<1> QED
  BY <1>1, <1>3, <1>4, <1>5, <1>6, CalmNews

LEMMA FollowsUnban ==
    ASSUME Base, BannedIsOut, Calm, NEW g \in Mirrors, Follows(g), NEW u \in Users,
           NEW t \in Users, Unban(u, t)
    PROVE  Follows(g)'
<1>1. /\ UNCHANGED <<creator, members, fed, departed, busy, evicting, up>>
      /\ banned' = [banned EXCEPT ![Host] = banned[Host] \ {t}]
      /\ down' = Told(GatewaysOf(Visible(Host)), <<News("unban", t, u)>>)
  BY DEF Unban
<1>2. banned'[Host] = banned[Host] \ {t}
  BY <1>1, RoomAssumption DEF Base, TypeOK
<1>3. SeesKept(g)
  BY <1>1, Unwritten, SeesKeptOnHost DEF OnHost
<1>4. Counted' = fed'[Host] /\ Untold' = Untold
  BY <1>1, StaysCalm
<1>5. HostKeeps(g, "unban", t) /\ HostTells(g, "unban", t, u)
  BY <1>1, <1>2, <1>4 DEF HostKeeps, HostTells, InHost
<1>6. u \in MaybeUser
  BY DEF MaybeUser
<1> QED
  BY <1>1, <1>3, <1>4, <1>5, <1>6, CalmNews

\* What is done at the host and told later leaves the last word open.
LEMMA ToldLater ==
    ASSUME NEW g, creator'[Host] = creator[Host], banned[Host] \subseteq banned'[Host],
           \A v \in Of(g) \ Announcing' : v \notin Announcing /\ (v \in Counted' <=> v \in Counted),
           \A w \in Foreign(g) \ Untold' : w \notin Untold /\ (w \in InHost' <=> w \in InHost)
    PROVE  CurrentKept(g)
<1>1. ASSUME NEW t, Current(g, t)  PROVE Current(g, t)'
  BY <1>1 DEF Current, Of, Foreign
<1> QED
  BY <1>1 DEF CurrentKept

LEMMA FollowsBan ==
    ASSUME Base, BannedIsOut, Calm, NEW g \in Mirrors, Follows(g), NEW u \in Users,
           NEW t \in Users, Ban(u, t)
    PROVE  Follows(g)'
<1> DEFINE l == {t} \cap Visible(Host)
           h == Doing("banning", t, l)
<1>1. /\ UNCHANGED <<creator, evicting, up, down>> /\ Remove(t) /\ busy[u] = Idle
      /\ banned' = [banned EXCEPT ![Host] = banned[Host] \cup {t}]
      /\ busy' = [busy EXCEPT ![u] = h]
  BY DEF Ban, Command
<1>2. h.op = "banning" /\ h.who = t /\ h.list = l
  BY DEF Doing
<1> HIDE DEF h
<1>3. /\ members'[Host] = members[Host] \ {t} /\ fed'[Host] = fed[Host] \ {t}
      /\ \E m : members' = [members EXCEPT ![Host] = m]
      /\ \E f : fed' = [fed EXCEPT ![Host] = f]
      /\ \E d : departed' = [departed EXCEPT ![Host] = d]
  BY <1>1, RemoveRows
<1>4. banned'[Host] = banned[Host] \cup {t}
  BY <1>1, RoomAssumption DEF Base, TypeOK
<1>5. busy[u].op = "idle" /\ busy'[u] = h /\ \A v \in Users \ {u} : busy'[v] = busy[v]
  <2>1. DOMAIN busy = Users
    BY DEF Base, TypeOK
  <2>2. busy[u].op = "idle"
    BY <1>1 DEF Idle
  <2> QED
    BY <1>1, <2>1, <2>2
<1>6. SeesKept(g)
  <2>1. \A v \in Of(g) : busy'[v].op = "leaving" <=> busy[v].op = "leaving"
    BY <1>2, <1>5 DEF Of
  <2> QED
    BY <1>1, <1>3, <2>1, Unwritten, SeesKeptOnHost DEF OnHost
<1>7. Banning' = {u} /\ Announcing' = {} /\ Leaving' = Leaving
  BY <1>2, <1>5 DEF Calm, Held, Banning, Announcing, Leaving
<1>8. Counted' = fed'[Host] \cup l
  BY <1>2, <1>5, <1>7 DEF Counted
<1>9. Untold' = (Leaving \cap Of(Host)) \cup {t}
  BY <1>2, <1>5, <1>7 DEF Untold, Of
<1>10. Counted' = fed[Host]
  BY <1>3, <1>8 DEF BannedIsOut, Visible
<1>11. CurrentKept(g)
  BY <1>1, <1>3, <1>4, <1>7, <1>9, <1>10, WhenCalm, ToldLater DEF InHost
<1> QED
  BY <1>1, <1>6, <1>11, FollowsStay

\* A leave begins: at the host, at the mirror, or elsewhere.
LEMMA LeaveFacts ==
    ASSUME Base, Calm, NEW u \in Users, Leave(u)
    PROVE  /\ UNCHANGED <<creator, fed, departed, banned, evicting, down, up>>
           /\ members' = [members EXCEPT ![Home[u]] = members[Home[u]] \ {u}]
           /\ members'[Home[u]] = members[Home[u]] \ {u}
           /\ \A k \in Gateways \ {Home[u]} : members'[k] = members[k]
           /\ busy[u].op = "idle" /\ busy'[u].op \in {"leaving", "owner leaving"}
           /\ \A v \in Users \ {u} : busy'[v] = busy[v]
           /\ Home[u] # Host => busy'[u].op = "leaving" /\ u \in members[Home[u]]
           /\ Announcing' = {} /\ Counted' = fed[Host]
           /\ Untold' = (Leaving \cup {u}) \cap Of(Host)
<1> DEFINE op == IF u = creator[Home[u]] THEN "owner leaving" ELSE "leaving"
           h == Doing(op, NoUser, {})
<1>1. Home[u] \in Gateways /\ RowsTyped /\ DOMAIN busy = Users
  BY RoomAssumption DEF Base, TypeOK, RowsTyped
<1>2. /\ UNCHANGED <<creator, fed, departed, banned, evicting, down, up>>
      /\ members' = [members EXCEPT ![Home[u]] = members[Home[u]] \ {u}]
      /\ Command(u, Home[u]) /\ u \in members[Home[u]] \cup {creator[Home[u]]}
      /\ Begin(u, op, NoUser)
  BY Zenon DEF Leave
<1>3. busy' = [busy EXCEPT ![u] = h]
  BY <1>2 DEF Begin
<1>4. h.op = op
  BY DEF Doing
<1>5. op \in {"leaving", "owner leaving"}
  OBVIOUS
<1>6. Home[u] # Host => u # creator[Home[u]]
  <2>1. Open(Home[u]) => Home[creator[Home[u]]] = Host
    BY <1>1 DEF Base, HostOK
  <2>2. Open(Home[u])
    BY <1>2 DEF Command
  <2> QED
    BY <2>1, <2>2
<1>7. Home[u] # Host => op = "leaving" /\ u \in members[Home[u]]
  BY <1>2, <1>6
<1> HIDE DEF op, h
<1>8. busy[u].op = "idle" /\ busy'[u] = h /\ \A v \in Users \ {u} : busy'[v] = busy[v]
  BY <1>1, <1>2, <1>3 DEF Command, Idle
<1>9. members'[Home[u]] = members[Home[u]] \ {u}
      /\ \A k \in Gateways \ {Home[u]} : members'[k] = members[k]
  BY <1>1, <1>2 DEF RowsTyped
<1>10. Banning' = {} /\ Announcing' = {} /\ Leaving' = Leaving \cup {u}
  BY <1>4, <1>5, <1>8 DEF Calm, Held, Banning, Announcing, Leaving
<1>11. Counted' = fed[Host]
  BY <1>2, <1>10 DEF Counted
<1>12. Untold' = (Leaving \cup {u}) \cap Of(Host)
  BY <1>10 DEF Untold, Of
<1> QED
  BY <1>2, <1>4, <1>5, <1>7, <1>8, <1>9, <1>10, <1>11, <1>12

LEMMA FollowsLeave ==
    ASSUME Base, RowsSound, Calm, NEW g \in Mirrors, Follows(g), NEW u \in Users, Leave(u)
    PROVE  Follows(g)'
<1> USE RoomAssumption
<1>1. /\ UNCHANGED <<creator, fed, departed, banned, evicting, down, up>>
      /\ members' = [members EXCEPT ![Home[u]] = members[Home[u]] \ {u}]
      /\ members'[Home[u]] = members[Home[u]] \ {u}
      /\ \A k \in Gateways \ {Home[u]} : members'[k] = members[k]
      /\ busy[u].op = "idle" /\ busy'[u].op \in {"leaving", "owner leaving"}
      /\ \A v \in Users \ {u} : busy'[v] = busy[v]
      /\ Home[u] # Host => busy'[u].op = "leaving" /\ u \in members[Home[u]]
  BY LeaveFacts
<1>2. /\ Announcing' = {} /\ Counted' = fed[Host]
      /\ Untold' = (Leaving \cup {u}) \cap Of(Host)
  BY LeaveFacts
<1>3. Announcing = {} /\ Counted = fed[Host] /\ Untold = Leaving \cap Of(Host)
  BY WhenCalm
<1>4. g \in Gateways /\ g # Host /\ Home[u] \in Gateways
  BY DEF Mirrors
<1>5. CurrentKept(g)
  <2>1. \A w \in Foreign(g) \ Untold' : w \notin Untold /\ (w \in InHost' <=> w \in InHost)
    <3>1. CASE Home[u] = Host
      BY <1>1, <1>2, <1>3, <3>1 DEF InHost, Of
    <3>2. CASE Home[u] # Host
      <4>1. members'[Host] = members[Host] /\ u \notin Of(Host)
        BY <1>1, <3>2 DEF Of
      <4> QED
        BY <1>1, <1>2, <1>3, <4>1 DEF InHost
    <3> QED
      BY <3>1, <3>2
  <2> QED
    BY <1>1, <1>2, <1>3, <2>1, ToldLater
<1>6. SeesKept(g)
  <2>1. CASE Home[u] # g
    <3>1. RowsKept(g) /\ LeavesKept(g)
      BY <1>1, <1>4, <2>1 DEF RowsKept, LeavesKept, Of
    <3> QED
      BY <1>1, <3>1, SameRows
  <2>2. CASE Home[u] = g
    <3>1. /\ members'[g] = members[g] \ {u} /\ busy'[u].op = "leaving"
          /\ Visible(g)' = Visible(g) /\ (Open(g)' <=> Open(g))
      BY <1>1, <1>4, <2>2 DEF Visible, Open
    <3>2. Gone(g, u)' /\ \A v \in Of(g) \ {u} : Gone(g, v)' <=> Gone(g, v)
      BY <1>1, <3>1 DEF Gone, Of
    <3>3. ASSUME NEW s, Sees(g, s)  PROVE Sees(g, s)'
      <4>1. \A v \in Of(g) : ~Gone(g, v)' => (v \in (members[g] \ evicting[g])' <=> v \in s.own)
        <5>1. ASSUME NEW v \in Of(g), ~Gone(g, v)'
              PROVE  v \in members'[g] \ evicting'[g] <=> v \in s.own
          <6>1. v # u /\ ~Gone(g, v)
            BY <3>2, <5>1
          <6>2. v \in members[g] \ evicting[g] <=> v \in s.own
            BY <3>3, <6>1 DEF Sees
          <6> QED
            BY <1>1, <3>1, <6>1, <6>2
        <5> QED
          BY <5>1
      <4>2. Open(g)' /\ evicting'[g] = {} =>
              \E v \in s.own : v \in members'[g] \/ busy'[v].op = "leaving"
        <5>1. ASSUME Open(g)', evicting'[g] = {}
              PROVE  \E v \in s.own : v \in members'[g] \/ busy'[v].op = "leaving"
          <6>1. PICK v \in s.own : v \in members[g] \/ busy[v].op = "leaving"
            BY <1>1, <3>1, <3>3, <5>1 DEF Sees
          <6>2. v \in Users
            BY <3>3 DEF Sees, Of
          <6> QED
            BY <1>1, <3>1, <6>1, <6>2
        <5> QED
          BY <5>1
      <4>3. Open(g)' /\ s.own # {} =>
             /\ creator'[g] = s.creator /\ banned'[g] \subseteq s.banned
             /\ banned'[g] \cap fed'[g] = {}
             /\ \A w \in Foreign(g) \ s.open : w \in (Visible(g) \ departed[g])' <=> w \in s.in
        BY <1>1, <3>1, <3>3 DEF Sees
      <4>4. s.own \subseteq Of(g)
        BY <3>3 DEF Sees
      <4> QED
        BY <4>1, <4>2, <4>3, <4>4 DEF Sees, Of, Foreign
    <3> QED
      BY <3>3 DEF SeesKept
  <2> QED
    BY <2>1, <2>2
<1> QED
  BY <1>1, <1>5, <1>6, FollowsStay

-----------------------------------------------------------------------------
(* The handlers go on and tell.                                             *)

LEMMA WhenEnded ==
    ASSUME Base, NEW u \in Users, End(u), \A v \in Users \ {u} : busy[v].op \notin Held
    PROVE  /\ busy'[u].op = "idle" /\ \A v \in Users \ {u} : busy'[v] = busy[v]
           /\ Announcing' = {} /\ Counted' = fed'[Host]
           /\ Untold' = (Leaving \ {u}) \cap Of(Host)
<1>1. DOMAIN busy = Users /\ busy' = [busy EXCEPT ![u] = Idle]
  BY DEF Base, TypeOK, End
<1>2. busy'[u] = Idle /\ \A v \in Users \ {u} : busy'[v] = busy[v]
  BY <1>1
<1>3. busy'[u].op = "idle"
  BY <1>2 DEF Idle
<1>4. Banning' = {} /\ Announcing' = {} /\ Leaving' = Leaving \ {u}
  BY <1>2, <1>3 DEF Held, Banning, Announcing, Leaving
<1>5. Counted' = fed'[Host]
  BY <1>4 DEF Counted
<1>6. Untold' = (Leaving \ {u}) \cap Of(Host)
  BY <1>4 DEF Untold, Of
<1> QED
  BY <1>2, <1>3, <1>4, <1>5, <1>6

LEMMA FollowsLeaveEnd ==
    ASSUME Base, RowsSound, JoinsSound, BannedIsOut, Calm, NEW g \in Mirrors, Follows(g),
           NEW u \in Users, LeaveEnd(u)
    PROVE  Follows(g)'
<1> DEFINE by == creator[Host]
<1>1. /\ busy[u].op = "leaving" /\ Home[u] = Host /\ End(u)
      /\ down' = Told(GatewaysOf(Visible(Host)), <<News("member_left", u, by)>>)
      /\ UNCHANGED <<creator, members, fed, departed, banned, evicting, up>>
  BY DEF LeaveEnd, roomVars
<1>2. g \in Gateways /\ g # Host /\ Host \in Gateways
  BY RoomAssumption DEF Mirrors
<1>3. /\ busy'[u].op = "idle" /\ \A v \in Users \ {u} : busy'[v] = busy[v]
      /\ Counted' = fed'[Host] /\ Untold' = (Leaving \ {u}) \cap Of(Host)
  BY <1>1, WhenEnded DEF Calm
<1>4. SeesKept(g)
  <2>1. u \notin Of(g)
    BY <1>1, <1>2 DEF Of
  <2>2. \A v \in Of(g) : busy'[v].op = "leaving" <=> busy[v].op = "leaving"
    BY <1>3, <2>1 DEF Of
  <2> QED
    BY <1>1, <2>2, Unwritten, SeesKeptOnHost DEF OnHost
<1>5. u \notin InHost
  BY <1>1, <1>2 DEF InHost, JoinsSound, HomesFit, HomeFits, RowsSound, RowsFit, Foreign, Of
<1>6. by \in MaybeUser
  BY <1>2 DEF Base, TypeOK
<1>7. InHost' = InHost /\ Untold = Leaving \cap Of(Host)
  BY <1>1, WhenCalm DEF InHost
<1>8. HostKeeps(g, "member_left", u) /\ HostTells(g, "member_left", u, by)
  BY <1>1, <1>3, <1>5, <1>7 DEF HostKeeps, HostTells
<1> HIDE DEF by
<1> QED
  BY <1>1, <1>3, <1>4, <1>6, <1>8, CalmNews

LEMMA FollowsOwnerLeaves ==
    ASSUME Base, RowsSound, JoinsSound, BannedIsOut, Calm, NEW g \in Mirrors, Follows(g),
           NEW u \in Users, OwnerLeaveEnd(u)
    PROVE  Follows(g)'
<1>1. busy[u].op = "owner leaving" /\ End(u) /\ evicting' = evicting /\ up' = up
  BY DEF OwnerLeaveEnd
<1>2. g \in Gateways /\ g # Host /\ Host \in Gateways
  BY RoomAssumption DEF Mirrors
<1>3. /\ busy'[u].op = "idle" /\ \A v \in Users \ {u} : busy'[v] = busy[v]
      /\ Announcing' = {} /\ Counted' = fed'[Host] /\ Untold' = (Leaving \ {u}) \cap Of(Host)
  BY <1>1, WhenEnded DEF Calm
<1>4. Home[u] = Host /\ u \notin InHost
  BY <1>1, <1>2 DEF InHost, JoinsSound, HomesFit, HomeFits, RowsSound, RowsFit, Foreign, Of
<1>5. Announcing = {} /\ Counted = fed[Host] /\ Untold = Leaving \cap Of(Host)
  BY WhenCalm
<1>6. ASSUME OnHost  PROVE SeesKept(g)
  <2>1. u \notin Of(g)
    BY <1>2, <1>4 DEF Of
  <2>2. \A v \in Of(g) : busy'[v].op = "leaving" <=> busy[v].op = "leaving"
    BY <1>3, <2>1 DEF Of
  <2> QED
    BY <1>6, <2>2, SeesKeptOnHost
<1>7. ASSUME NEW n \in Successors(u), creator' = [creator EXCEPT ![Host] = n],
             down' = Told(GatewaysOf(Visible(Host)),
               <<News("owner_changed", n, n), News("member_left", u, n)>>),
             UNCHANGED <<members, fed, departed, banned>>
      PROVE  Follows(g)'
  <2> DEFINE gs == GatewaysOf(Visible(Host))
             a == News("owner_changed", n, n)
             b == News("member_left", u, n)
             news == <<a, b>>
  <2>1. n \in members[Host] /\ n \in Users
    BY <1>2, <1>7 DEF Successors, Base, TypeOK
  <2>2. /\ a \in Relay /\ a.act = "owner_changed" /\ a.who = n
        /\ b \in Relay /\ b.act = "member_left" /\ b.who = u /\ b.by = n
    BY <2>1 DEF News, Relay, MaybeUser
  <2> HIDE DEF a, b
  <2>3. down' = Told(gs, news)
    BY <1>7 DEF a, b
  <2> HIDE DEF news
  <2>4. \/ g \in gs /\ down'[g] = down[g] \o news
        \/ g \notin gs /\ down'[g] = down[g]
    BY <2>3, ToldAt
  <2>5. SeesKept(g)
    BY <1>1, <1>6, <1>7, Unwritten DEF OnHost
  <2>6. creator'[Host] = n /\ InHost' = InHost /\ down[g] \in Seq(Relay)
    BY <1>2, <1>7 DEF InHost, Base, TypeOK
  <2>7. n \in Foreign(g) /\ n \in InHost /\ n \notin Untold
    <3>1. Home[n] = Host
      BY <2>1 DEF Base, HostOK
    <3>2. n \notin Leaving
      BY <2>1, <3>1 DEF Leaving, JoinsSound, HomesFit, HomeFits
    <3> QED
      BY <1>2, <1>5, <2>1, <3>1, <3>2 DEF Foreign, Of, InHost
  <2>8. CASE g \in gs
    <3>1. ASSUME NEW s, Current(g, s)
          PROVE  \E t, m : Leads(g, s, a, m) /\ Leads(g, m, b, t) /\ Current(g, t)'
      <4> DEFINE t0 == [own |-> s.own, creator |-> creator'[Host], in |-> InHost',
                        open |-> Untold', banned |-> banned'[Host]]
                 m == [own |-> s.own, creator |-> n, in |-> s.in, open |-> s.open,
                       banned |-> s.banned]
      <4>1. /\ t0.own = s.own /\ t0.creator = creator'[Host] /\ t0.in = InHost'
            /\ t0.open = Untold' /\ t0.banned = banned'[Host]
        OBVIOUS
      <4>2. /\ m.own = s.own /\ m.creator = n /\ m.in = s.in /\ m.open = s.open
            /\ m.banned = s.banned
        OBVIOUS
      <4>3. PICK t : t = t0
        OBVIOUS
      <4> HIDE DEF t0, m
      <4>4. /\ t.own = s.own /\ t.creator = n /\ t.in = InHost
            /\ t.open = Untold' /\ t.banned = banned[Host]
        BY <1>7, <2>6, <4>1, <4>3
      <4>5. \A v \in Of(g) : v \in s.own <=> v \in fed[Host]
        BY <1>5, <3>1 DEF Current
      <4>6. s.own \subseteq Of(g)
        BY <3>1 DEF Current
      <4>7. Current(g, t)'
        BY <1>3, <1>7, <2>6, <4>4, <4>5, <4>6 DEF Current, Of, Foreign
      <4>8. ASSUME s.own # {}
            PROVE  /\ s.creator = creator[Host] /\ s.banned \subseteq banned[Host]
                   /\ \A w \in Foreign(g) \ Untold : w \notin s.open /\ (w \in s.in <=> w \in InHost)
        BY <3>1, <4>8 DEF Current
      <4>9. \A w : SameFor(s, m, w)
        BY <4>2 DEF SameFor
      <4>10. Leads(g, s, a, m)
        <5>1. s.own # {} => Keeps(g, s, a, m)
          BY <2>2, <4>2, <4>9 DEF Keeps
        <5>2. s.own # {} => Tells(g, s, a, m)
          BY <2>2, <2>7, <4>2, <4>8, <4>9 DEF Tells
        <5> QED
          BY <2>2, <4>2, <5>1, <5>2 DEF Leads, OwnAfter
      <4>11. Leads(g, m, b, t)
        <5>1. s.own # {} => \A w \in Foreign(g) \ {u} : SameFor(m, t, w)
          BY <1>3, <1>5, <4>2, <4>4, <4>8 DEF SameFor
        <5>2. s.own # {} => Keeps(g, m, b, t)
          BY <2>2, <4>2, <4>4, <4>8, <5>1 DEF Keeps
        <5>3. s.own # {} => Tells(g, m, b, t)
          BY <1>4, <2>2, <4>2, <4>4 DEF Tells, IsOut
        <5> QED
          BY <2>2, <4>2, <4>4, <5>2, <5>3 DEF Leads, OwnAfter
      <4> QED
        BY <4>7, <4>10, <4>11
    <3>2. down'[g] = down[g] \o <<a, b>>
      BY <2>4, <2>8 DEF news
    <3> QED
      BY <2>2, <2>5, <2>6, <3>1, <3>2, FollowsTwice
  <2>9. CASE g \notin gs
    <3>1. Of(g) \cap fed[Host] = {}
      BY <2>9, NobodyThere
    <3>2. CurrentKept(g)
      BY <1>3, <1>5, <1>7, <3>1, CurrentNobody DEF CurrentKept
    <3> QED
      BY <2>4, <2>5, <2>9, <3>2, FollowsStay
  <2> QED
    BY <2>8, <2>9
<1>8. ASSUME down' = Told(GatewaysOf(Visible(Host)), <<News("member_left", u, u)>>),
             UNCHANGED roomVars
      PROVE  Follows(g)'
  <2>1. UNCHANGED <<creator, members, fed, departed, banned>>
    BY <1>8 DEF roomVars
  <2>2. SeesKept(g)
    BY <1>1, <1>6, <2>1, Unwritten DEF OnHost
  <2>3. HostKeeps(g, "member_left", u) /\ HostTells(g, "member_left", u, u)
    BY <1>3, <1>4, <1>5, <2>1 DEF HostKeeps, HostTells, InHost
  <2>4. u \in MaybeUser
    BY DEF MaybeUser
  <2> QED
    BY <1>3, <1>8, <2>1, <2>2, <2>3, <2>4, CalmNews
<1>9. ASSUME Visible(Host) = {}, Drop(Host), down' = down
      PROVE  Follows(g)'
  <2>1. fed'[Host] = {} /\ Of(g) \cap fed[Host] = {}
    BY <1>2, <1>9 DEF Drop, Base, TypeOK, BannedIsOut, Visible
  <2>2. SeesKept(g)
    BY <1>1, <1>6, <1>9 DEF OnHost, Drop
  <2>3. CurrentKept(g)
    BY <1>3, <1>5, <2>1, CurrentNobody DEF CurrentKept
  <2> QED
    BY <1>9, <2>2, <2>3, FollowsStay
<1> QED
  BY <1>7, <1>8, <1>9 DEF OwnerLeaveEnd

LEMMA FollowsBanEnd ==
    ASSUME Base, HandlersSound, BannedIsOut, NEW g \in Mirrors, Follows(g),
           NEW u \in Users, BanEnd(u), \A v \in Users \ {u} : busy[v].op \notin Held
    PROVE  Follows(g)'
<1> DEFINE t == busy[u].who
           l == busy[u].list
           gs == GatewaysOf(Visible(Host) \cup l)
           news == <<News("ban", t, u)>>
<1>1. /\ busy[u].op = "banning" /\ End(u) /\ evicting' = evicting /\ up' = up
      /\ UNCHANGED <<creator, members, fed, departed, banned>> /\ down' = Told(gs, news)
  BY DEF BanEnd, roomVars
<1>2. t \in Users /\ t \in banned[Host] /\ l \subseteq {t}
  BY <1>1 DEF Base, BusyOK, HandlersSound, HandlerSound
<1>3. /\ busy'[u].op = "idle" /\ \A v \in Users \ {u} : busy'[v] = busy[v]
      /\ Counted' = fed'[Host] /\ Untold' = (Leaving \ {u}) \cap Of(Host)
  BY <1>1, WhenEnded
<1>4. SeesKept(g)
  <2>1. \A v \in Of(g) : busy'[v].op = "leaving" <=> busy[v].op = "leaving"
    BY <1>1, <1>3 DEF Of
  <2> QED
    BY <1>1, <2>1, Unwritten, SeesKeptOnHost DEF OnHost
<1>5. Banning = {u} /\ Announcing = {} /\ u \notin Leaving
  BY <1>1 DEF Held, Banning, Announcing, Leaving
<1>6. Counted = fed[Host] \cup l /\ Untold = (Leaving \cap Of(Host)) \cup {t}
  BY <1>5 DEF Counted, Untold
<1>7. t \notin InHost /\ InHost' = InHost
  BY <1>1, <1>2 DEF BannedIsOut, InHost
<1>8. g # Host /\ down[g] \in Seq(Relay)
  BY DEF Mirrors, Base, TypeOK
<1>9. g \notin gs => Of(g) \cap Counted = {}
  BY <1>6, <1>8 DEF GatewaysOf, BannedIsOut, Visible, Of
<1> HIDE DEF t, l, news, gs
<1>10. \/ g \in gs /\ down'[g] = down[g] \o news
       \/ g \notin gs /\ down'[g] = down[g]
  BY <1>1, ToldAt
<1>11. \/ g \in gs /\ down'[g] = down[g] \o <<News("ban", t, u)>>
       \/ g \notin gs /\ down'[g] = down[g]
  BY <1>10 DEF news, t
<1>12. News("ban", t, u) \in Relay
  BY <1>2 DEF News, Relay, MaybeUser
<1>13. Of(g) \cap Counted' = (Of(g) \cap Counted) \ {t}
  BY <1>1, <1>2, <1>3, <1>6, <1>7 DEF InHost
<1>14. HostKeeps(g, "ban", t) /\ HostTells(g, "ban", t, u)
  <2>1. HostKeeps(g, "ban", t)
    BY <1>1, <1>3, <1>5, <1>6, <1>7 DEF HostKeeps
  <2>2. banned'[Host] = banned[Host]
    BY <1>1
  <2>3. HostTells(g, "ban", t, u)
    BY <1>2, <1>7, <2>2 DEF HostTells
  <2> QED
    BY <2>1, <2>3
<1>15. Of(g) \cap Announcing = {}
  BY <1>5
<1> QED
  BY <1>2, <1>4, <1>8, <1>9, <1>11, <1>12, <1>13, <1>14, <1>15, HostNews

LEMMA FollowsDeleteEnd ==
    ASSUME Base, HandlersSound, BannedIsOut, NEW g \in Mirrors, Follows(g),
           NEW u \in Users, DeleteEnd(u), \A v \in Users \ {u} : busy[v].op \notin Held
    PROVE  Follows(g)'
<1> DEFINE gs == GatewaysOf(Visible(Host))
           r == News("delete_room", u, u)
           news == <<r>>
<1>1. /\ busy[u].op = "deleting" /\ End(u) /\ evicting' = evicting /\ up' = up
      /\ Drop(Host) /\ down' = Told(gs, news)
  BY DEF DeleteEnd
<1>2. u = creator[Host]
  BY <1>1 DEF HandlersSound, HandlerSound
<1>3. /\ busy'[u].op = "idle" /\ \A v \in Users \ {u} : busy'[v] = busy[v]
      /\ Counted' = fed'[Host]
  BY <1>1, WhenEnded
<1>4. SeesKept(g)
  <2>1. \A v \in Of(g) : busy'[v].op = "leaving" <=> busy[v].op = "leaving"
    BY <1>1, <1>3 DEF Of
  <2> QED
    BY <1>1, <2>1, SeesKeptOnHost DEF OnHost, Drop
<1>5. Banning = {} /\ Announcing = {}
  BY <1>1 DEF Held, Banning, Announcing
<1>6. Counted = fed[Host] /\ Counted' = {}
  <2>1. fed'[Host] = {}
    BY <1>1, RoomAssumption DEF Drop, Base, TypeOK
  <2> QED
    BY <1>3, <1>5, <2>1 DEF Counted
<1>7. r \in Relay /\ r.act = "delete_room" /\ r.by = u /\ down[g] \in Seq(Relay)
  BY DEF News, Relay, MaybeUser, Base, TypeOK
<1>8. g \notin gs => Of(g) \cap Counted = {}
  BY <1>6, NobodyThere
<1> HIDE DEF r, news, gs
<1>9. \/ g \in gs /\ down'[g] = down[g] \o news
      \/ g \notin gs /\ down'[g] = down[g]
  BY <1>1, ToldAt
<1>10. CASE g \in gs
  <2>1. ASSUME NEW s, Current(g, s)
        PROVE  \E t : Leads(g, s, r, t) /\ Current(g, t)'
    <3> DEFINE t == [own |-> {}]
    <3>1. t.own = {}
      OBVIOUS
    <3> HIDE DEF t
    <3>2. Leads(g, s, r, t)
      BY <1>2, <1>7, <2>1, <3>1 DEF Leads, OwnAfter, Current
    <3>3. PICK x : x = t
      OBVIOUS
    <3>4. Current(g, x)'
      BY <1>6, <3>1, <3>3 DEF Current
    <3> QED
      BY <3>2, <3>3, <3>4
  <2>2. down'[g] = down[g] \o <<r>>
    BY <1>9, <1>10 DEF news
  <2> QED
    BY <1>4, <1>7, <2>1, <2>2, FollowsTold
<1>11. CASE g \notin gs
  <2>1. CurrentKept(g)
    BY <1>5, <1>6, <1>8, <1>11, CurrentNobody DEF CurrentKept
  <2> QED
    BY <1>4, <1>9, <1>11, <2>1, FollowsStay
<1> QED
  BY <1>10, <1>11

LEMMA FollowsAdmit ==
    ASSUME Base, BannedIsOut, NEW g \in Mirrors, Follows(g),
           NEW u \in Users, Admit(u), \A v \in Users \ {u} : busy[v].op \notin Held
    PROVE  Follows(g)'
<1>0. DOMAIN busy = Users /\ fed \in [Gateways -> SUBSET Users] /\ Host \in Gateways
  BY RoomAssumption DEF Base, TypeOK
<1>1. /\ busy[u].op = "lookup"
      /\ UNCHANGED <<creator, members, banned, evicting, down, up>>
  BY DEF Admit
<1>2. g \in Gateways /\ g # Host
  BY DEF Mirrors
<1>3. CASE End(u) /\ fed' = fed /\ departed' = departed
  <2>1. busy' = [busy EXCEPT ![u] = Idle] /\ busy[u].op \in Plain /\ Idle.op \in Plain
    BY <1>1, <1>3 DEF End, Idle, Plain
  <2>2. PlainStep
    BY <2>1, PlainOne
  <2>3. HostRowsKept /\ RowsKept(g)
    BY <1>1, <1>3 DEF HostRowsKept, RowsKept
  <2> QED
    BY <1>1, <2>2, <2>3, Aside
<1>4. ASSUME AddFed(Host, u), NEW list,
             busy' = [busy EXCEPT ![u] = Doing("announcing", busy[u].who, list)]
      PROVE  Follows(g)'
  <2> DEFINE h == Doing("announcing", busy[u].who, list)
  <2>1. h.op = "announcing"
    BY DEF Doing
  <2> HIDE DEF h
  <2>2. busy'[u] = h /\ \A v \in Users \ {u} : busy'[v] = busy[v]
    BY <1>0, <1>4 DEF h
  <2>3. fed'[Host] = fed[Host] \cup {u}
    BY <1>0, <1>4 DEF AddFed
  <2>4. SeesKept(g)
    <3>1. \A v \in Of(g) : busy'[v].op = "leaving" <=> busy[v].op = "leaving"
      BY <1>1, <2>1, <2>2 DEF Of
    <3> QED
      BY <1>1, <1>4, <3>1, Unwritten, SeesKeptOnHost DEF OnHost, AddFed
  <2>5. /\ Banning = {} /\ Announcing = {} /\ Banning' = {} /\ Announcing' = {u}
        /\ Leaving' = Leaving
    BY <1>1, <2>1, <2>2 DEF Held, Banning, Announcing, Leaving
  <2>6. Counted = fed[Host] /\ Counted' = fed'[Host]
    BY <2>5 DEF Counted
  <2>7. Untold = Leaving \cap Of(Host) /\ Untold' = (Leaving \cap Of(Host)) \cup {u}
    BY <2>5 DEF Untold, Of
  <2>8. CurrentKept(g)
    BY <1>1, <2>3, <2>5, <2>6, <2>7, ToldLater DEF InHost
  <2> QED
    BY <1>1, <2>4, <2>8, FollowsStay
<1>5. \/ End(u) /\ fed' = fed /\ departed' = departed
      \/ AddFed(Host, u) /\ \E list : busy' = [busy EXCEPT ![u] = Doing("announcing", busy[u].who, list)]
  BY <1>0 DEF Admit
<1> QED
  BY <1>3, <1>4, <1>5

LEMMA AnswerElsewhere ==
    ASSUME Base, NEW u \in Users, Answer(u), NEW k \in Mirrors, u \notin Of(k), NEW gs,
           gs = GatewaysOf(Visible(Host))
    PROVE  \/ k \in gs /\ down'[k] = down[k] \o <<News("member_joined", u, busy[u].who)>>
           \/ k \notin gs /\ down'[k] = down[k]
<1> DEFINE told == Told(gs \ {Home[u]}, <<News("member_joined", u, busy[u].who)>>)
<1>1. \E answer : down' = [told EXCEPT ![Home[u]] = Append(@, answer)]
  BY DEF Answer
<1>2. k # Home[u]
  BY DEF Of
<1>3. down'[k] = told[k]
  BY <1>1, <1>2 DEF Told
<1> QED
  BY <1>2, <1>3 DEF Told

LEMMA FollowsAnswer ==
    ASSUME Base, HandlersSound, BannedIsOut, NEW g \in Mirrors, Follows(g),
           NEW u \in Users, Answer(u), \A v \in Users \ {u} : busy[v].op \notin Held
    PROVE  Follows(g)'
<1> DEFINE c == creator[Host]
<1>1. /\ busy[u].op = "announcing" /\ UNCHANGED <<creator, members, fed, departed, banned>>
      /\ evicting' = evicting /\ up' = up
      /\ busy' = [busy EXCEPT ![u] = Doing("joining", NoUser, {})]
  BY DEF Answer, roomVars
<1>2. /\ busy[u].who = creator[Host] /\ u \in fed[Host] /\ busy[u].list = InHost \ {u}
      /\ busy[u].who \in Users
  BY <1>1 DEF HandlersSound, HandlerSound, InHost, Base, BusyOK
<1>3. busy'[u].op = "joining" /\ \A v \in Users \ {u} : busy'[v] = busy[v]
  <2>1. DOMAIN busy = Users
    BY DEF Base, TypeOK
  <2>2. busy'[u] = Doing("joining", NoUser, {}) /\ \A v \in Users \ {u} : busy'[v] = busy[v]
    BY <1>1, <2>1
  <2> QED
    BY <2>2 DEF Doing
<1>4. SeesKept(g)
  <2>1. \A v \in Of(g) : busy'[v].op = "leaving" <=> busy[v].op = "leaving"
    BY <1>1, <1>3 DEF Of
  <2> QED
    BY <1>1, <2>1, Unwritten, SeesKeptOnHost DEF OnHost
<1>5. /\ Banning = {} /\ Announcing = {u} /\ Banning' = {} /\ Announcing' = {}
      /\ Leaving' = Leaving /\ u \notin Leaving
  <2>1. Banning = {} /\ Announcing = {u} /\ u \notin Leaving
    BY <1>1 DEF Held, Banning, Announcing, Leaving
  <2>2. Banning' = {} /\ Announcing' = {}
    BY <1>3 DEF Held, Banning, Announcing
  <2>3. Leaving' = Leaving
    BY <1>1, <1>3 DEF Leaving
  <2> QED
    BY <2>1, <2>2, <2>3
<1>6. Counted = fed[Host] /\ Counted' = fed[Host] /\ InHost' = InHost
  BY <1>1, <1>5 DEF Counted, InHost
<1>7. Untold = (Leaving \cap Of(Host)) \cup {u} /\ Untold' = Leaving \cap Of(Host)
  BY <1>5 DEF Untold, Of
<1>8. u \notin banned[Host] /\ u \in InHost /\ down[g] \in Seq(Relay)
  BY <1>2 DEF BannedIsOut, InHost, Base, TypeOK
<1>9. CASE u \notin Of(g)
  <2> DEFINE gs == GatewaysOf(Visible(Host))
  <2>1. \/ g \in gs /\ down'[g] = down[g] \o <<News("member_joined", u, busy[u].who)>>
        \/ g \notin gs /\ down'[g] = down[g]
    BY <1>9, AnswerElsewhere
  <2>2. \/ g \in gs /\ down'[g] = down[g] \o <<News("member_joined", u, c)>>
        \/ g \notin gs /\ down'[g] = down[g]
    BY <1>2, <2>1
  <2>3. g \notin gs => Of(g) \cap Counted = {}
    BY <1>6, NobodyThere
  <2>4. News("member_joined", u, c) \in Relay
    BY <1>2 DEF News, Relay, MaybeUser
  <2>5. HostKeeps(g, "member_joined", u) /\ HostTells(g, "member_joined", u, c)
    BY <1>1, <1>6, <1>7, <1>8 DEF HostKeeps, HostTells
  <2>6. Of(g) \cap Announcing = {} /\ Of(g) \cap Counted' = Of(g) \cap Counted
    BY <1>5, <1>6, <1>9
  <2> HIDE DEF gs, c
  <2> QED
    BY <1>4, <1>8, <2>2, <2>3, <2>4, <2>5, <2>6, HostNews
<1>10. CASE u \in Of(g)
  <2>1. PICK r \in Relay :
          /\ r.act = "admitted" /\ r.who = u /\ r.by = busy[u].who /\ r.list = busy[u].list
          /\ down'[g] = Append(down[g], r)
    BY <1>10, AnswerSent
  <2>2. down'[g] = down[g] \o <<r>>
    BY <1>8, <2>1
  <2>3. ASSUME NEW s, Current(g, s)
        PROVE  \E t : Leads(g, s, r, t) /\ Current(g, t)'
    <3> DEFINE t0 == [own |-> s.own \cup {u}, creator |-> creator[Host], in |-> InHost,
                      open |-> Untold', banned |-> banned[Host]]
    <3>1. /\ t0.own = s.own \cup {u} /\ t0.creator = creator[Host] /\ t0.in = InHost
          /\ t0.open = Untold' /\ t0.banned = banned[Host]
      OBVIOUS
    <3>2. PICK t : t = t0
      OBVIOUS
    <3> HIDE DEF t0
    <3>3. /\ t.own = s.own \cup {u} /\ t.creator = creator[Host] /\ t.in = InHost
          /\ t.open = Untold' /\ t.banned = banned[Host]
      BY <3>1, <3>2
    <3>4. s.own \subseteq Of(g) /\ \A v \in Of(g) \ {u} : v \in s.own <=> v \in fed[Host]
      BY <1>5, <1>6, <2>3 DEF Current
    <3>5. Current(g, t)'
      BY <1>1, <1>2, <1>6, <1>10, <3>3, <3>4 DEF Current, Of, Foreign
    <3>6. u \notin Foreign(g)
      BY <1>10 DEF Foreign
    <3>7. s.own # {} => s.creator = r.by /\ s.banned \subseteq t.banned
      BY <1>2, <2>1, <2>3, <3>3 DEF Current
    <3>8. s.own # {} => \A w \in Foreign(g) : SameFor(s, t, w)
      BY <1>7, <2>3, <3>3, <3>6 DEF Current, SameFor
    <3>9. t.creator = r.by /\ r.list \cap t.banned = {}
      BY <1>2, <2>1, <3>3 DEF BannedIsOut, InHost
    <3>10. \A w \in Foreign(g) \ t.open : w \in t.in <=> w \in r.list
      BY <1>2, <2>1, <3>3, <3>6
    <3>11. Admits(g, s, r, t)
      BY <3>7, <3>8, <3>9, <3>10 DEF Admits
    <3>12. Leads(g, s, r, t)
      BY <2>1, <3>3, <3>11 DEF Leads, OwnAfter
    <3> QED
      BY <3>5, <3>12
  <2> QED
    BY <1>4, <1>8, <2>2, <2>3, FollowsTold
<1> QED
  BY <1>9, <1>10

-----------------------------------------------------------------------------
(* The leave of a mirror's user.                                            *)

LEMMA LeaveHandled ==
    ASSUME Base, RowsSound, JoinsSound, BannedIsOut, NEW k \in Mirrors, NEW r, HandleLeave(k, r)
    PROVE  /\ r.who \in Of(k) /\ r.who \in Whose(up[k], "leave")
           /\ UNCHANGED <<creator, banned, busy, evicting>>
           /\ members'[Host] = members[Host] /\ fed'[Host] = fed[Host] \ {r.who}
           /\ \A j \in Mirrors : /\ members'[j] = members[j] /\ fed'[j] = fed[j]
                                 /\ departed'[j] = departed[j]
           /\ \/ down' = down /\ r.who \notin fed[Host]
              \/ down' = Told(GatewaysOf(Visible(Host) \ {r.who}) \ {k},
                              <<News("member_left", r.who, creator[Host])>>)
<1> DEFINE u == r.who
<1>1. r.act = "leave" /\ Reaches(k, r) /\ UNCHANGED <<busy, evicting>>
  BY DEF HandleLeave
<1>2. u \in Of(k) /\ u \in Whose(up[k], "leave")
  <2>1. PICK i \in Ready(up[k]) : up[k][i] = r
    BY <1>1 DEF Reaches
  <2>2. u \in Whose(up[k], "leave")
    BY <1>1, <2>1 DEF Ready, Whose
  <2> QED
    BY <2>2 DEF JoinsSound, PostsFit
<1>3. Host \in Gateways /\ Host \notin Mirrors /\ k # Host /\ RowsTyped
  BY RoomAssumption DEF Mirrors, Base, TypeOK, RowsTyped
<1>4. u \notin members[Host]
  BY <1>2, <1>3 DEF Of, Base, HostOK
<1> HIDE DEF u
<1>5. CASE HostedAt(Host) /\ u \in Visible(Host)
  <2>1. /\ Remove(u) /\ UNCHANGED <<creator, banned>>
        /\ down' = Told(GatewaysOf(Visible(Host) \ {u}) \ {k},
                        <<News("member_left", u, creator[Host])>>)
    BY <1>5 DEF HandleLeave, u
  <2>2. /\ members'[Host] = members[Host] \ {u} /\ fed'[Host] = fed[Host] \ {u}
        /\ \E m : members' = [members EXCEPT ![Host] = m]
        /\ \E f : fed' = [fed EXCEPT ![Host] = f]
        /\ \E d : departed' = [departed EXCEPT ![Host] = d]
    BY <2>1, RemoveRows
  <2>3. \A j \in Mirrors : /\ members'[j] = members[j] /\ fed'[j] = fed[j]
                           /\ departed'[j] = departed[j]
    BY <1>3, <2>2 DEF RowsTyped, Mirrors
  <2> QED
    BY <1>1, <1>2, <1>4, <2>1, <2>2, <2>3 DEF u
<1>6. CASE ~(HostedAt(Host) /\ u \in Visible(Host))
  <2>1. UNCHANGED <<creator, members, fed, departed, banned>> /\ down' = down
    BY <1>6 DEF HandleLeave, roomVars, u
  <2>2. u \notin fed[Host]
    <3>1. ASSUME u \in fed[Host]  PROVE FALSE
      <4>1. u \in Visible(Host) /\ Open(Host)
        BY <1>3, <3>1 DEF Visible, BannedIsOut, RowsSound, RowsFit
      <4>2. Home[creator[Host]] = Host
        BY <1>3, <4>1 DEF Base, HostOK
      <4>3. creator[Host] \notin fed[Host]
        BY <1>3, <4>2 DEF RowsSound, RowsFit, Foreign, Of
      <4> QED
        BY <1>6, <4>1, <4>3 DEF HostedAt, Visible
    <3> QED
      BY <3>1
  <2> QED
    BY <1>1, <1>2, <2>1, <2>2 DEF u
<1> QED
  BY <1>5, <1>6

LEMMA FollowsOthersLeave ==
    ASSUME Base, RowsSound, JoinsSound, BannedIsOut, Calm, NEW g \in Mirrors, Follows(g),
           NEW k \in Mirrors, k # g, NEW r, HandleLeave(k, r)
    PROVE  Follows(g)'
<1> DEFINE u == r.who
           gs == GatewaysOf(Visible(Host) \ {u}) \ {k}
           c == creator[Host]
           news == <<News("member_left", u, c)>>
<1>1. /\ u \in Of(k) /\ UNCHANGED <<creator, banned, busy, evicting>>
      /\ members'[Host] = members[Host] /\ fed'[Host] = fed[Host] \ {u}
      /\ members'[g] = members[g] /\ fed'[g] = fed[g] /\ departed'[g] = departed[g]
  BY LeaveHandled
<1>2. (down' = down /\ u \notin fed[Host]) \/ down' = Told(gs, news)
  BY LeaveHandled
<1>3. u \in Users /\ u \notin Of(g) /\ g # Host /\ k # Host /\ down[g] \in Seq(Relay)
      /\ creator[Host] \in MaybeUser
  BY <1>1, RoomAssumption DEF Of, Mirrors, Base, TypeOK
<1>4. up'[g] = up[g]
  <2>1. Reaches(k, r)
    BY DEF HandleLeave
  <2> QED
    BY <2>1 DEF Reaches, Base, TypeOK
<1>5. SeesKept(g)
  <2>1. RowsKept(g) /\ LeavesKept(g) /\ evicting'[g] = evicting[g]
    BY <1>1, <1>4 DEF RowsKept, LeavesKept
  <2> QED
    BY <2>1, SameRows
<1>6. Announcing = {} /\ Counted = fed[Host]
  BY WhenCalm
<1>7. Announcing' = {} /\ Counted' = fed'[Host] /\ Untold' = Untold
  BY <1>1, StaysCalm
<1>8. u \notin members[Host]
  BY <1>1, <1>3 DEF Of, Base, HostOK
<1>9. InHost' = InHost \ {u}
  BY <1>1, <1>8 DEF InHost
<1>10. CASE down' = down /\ u \notin fed[Host]
  <2>1. InHost' = InHost /\ Counted' = Counted
    BY <1>1, <1>6, <1>7, <1>10 DEF InHost
  <2>2. CurrentKept(g)
    BY <1>1, <1>6, <1>7, <2>1, SameHost
  <2> QED
    BY <1>5, <1>10, <2>2, FollowsStay
<1>11. CASE down' = Told(gs, news)
  <2>1. g \notin gs => Of(g) \cap Counted = {}
    BY <1>3, <1>6 DEF GatewaysOf, Of, Visible, BannedIsOut
  <2>2. HostKeeps(g, "member_left", u) /\ HostTells(g, "member_left", u, c)
    BY <1>1, <1>7, <1>9 DEF HostKeeps, HostTells
  <2>3. News("member_left", u, c) \in Relay
    BY <1>3 DEF News, Relay
  <2>4. Of(g) \cap Counted' = Of(g) \cap Counted /\ Of(g) \cap Announcing = {}
    BY <1>1, <1>3, <1>6, <1>7
  <2> HIDE DEF news, gs
  <2>5. \/ g \in gs /\ down'[g] = down[g] \o news
        \/ g \notin gs /\ down'[g] = down[g]
    BY <1>11, ToldAt
  <2>6. \/ g \in gs /\ down'[g] = down[g] \o <<News("member_left", u, c)>>
        \/ g \notin gs /\ down'[g] = down[g]
    BY <2>5 DEF news
  <2> HIDE DEF u, c
  <2>7. u \in Users
    BY <1>3
  <2> QED
    BY <1>3, <1>5, <2>1, <2>2, <2>3, <2>4, <2>6, <2>7, HostNews
<1> QED
  BY <1>2, <1>10, <1>11

LEMMA FollowsOwnLeave ==
    ASSUME Base, RowsSound, JoinsSound, BannedIsOut, Calm, NEW g \in Mirrors, Follows(g),
           NEW r, HandleLeave(g, r)
    PROVE  Follows(g)'
<1> DEFINE u == r.who
<1>1. /\ u \in Of(g) /\ u \in Whose(up[g], "leave")
      /\ UNCHANGED <<creator, banned, busy, evicting>>
      /\ members'[Host] = members[Host] /\ fed'[Host] = fed[Host] \ {u}
      /\ members'[g] = members[g] /\ fed'[g] = fed[g] /\ departed'[g] = departed[g]
  BY LeaveHandled
<1>2. u \notin Whose(down[g], "admitted") /\ u \notin members[g] /\ busy[u].op # "leaving"
  BY <1>1 DEF JoinsSound, PostsFit, AnswersFit
<1>3. down'[g] = down[g] /\ down[g] \in Seq(Relay)
  BY DEF HandleLeave, Told, Base, TypeOK
<1>4. Whose(up[g], "leave") \subseteq Whose(up'[g], "leave") \cup {u}
      /\ Whose(up'[g], "leave") \subseteq Whose(up[g], "leave")
  <2>1. Reaches(g, r)
    BY DEF HandleLeave
  <2>2. PICK i \in Ready(up[g]) : up[g][i] = r /\ up' = [up EXCEPT ![g] = Without(@, i)]
    BY <2>1 DEF Reaches
  <2>3. i \in 1 .. Len(up[g])
    BY DEF Ready
  <2>4. /\ \A act : Whose(up'[g], act) \subseteq Whose(up[g], act)
        /\ \A act : Whose(up[g], act) \subseteq Whose(up'[g], act) \cup {up[g][i].who}
    BY <2>2, <2>3, PostTaken
  <2> QED
    BY <2>2, <2>4
<1> HIDE DEF u
<1>5. \A v \in Of(g) \ {u} : Gone(g, v)' <=> Gone(g, v)
  BY <1>1, <1>4 DEF Gone
<1>6. Visible(g)' = Visible(g) /\ (Open(g)' <=> Open(g))
  BY <1>1 DEF Visible, Open
<1>7. ASSUME NEW s, Sees(g, s)  PROVE Sees(g, Less(s, u))'
  <2> DEFINE x0 == Less(s, u)
  <2>1. /\ x0.own = s.own \ {u} /\ x0.creator = s.creator /\ x0.in = s.in /\ x0.open = s.open
        /\ x0.banned = s.banned
    BY DEF Less
  <2>2. PICK x : x = x0
    OBVIOUS
  <2> HIDE DEF x0
  <2>3. /\ x.own = s.own \ {u} /\ x.creator = s.creator /\ x.in = s.in /\ x.open = s.open
        /\ x.banned = s.banned
    BY <2>1, <2>2
  <2>4. \A v \in Of(g) : ~Gone(g, v)' => (v \in (members[g] \ evicting[g])' <=> v \in x.own)
    <3>1. ASSUME NEW v \in Of(g), ~Gone(g, v)'
          PROVE  v \in members'[g] \ evicting'[g] <=> v \in x.own
      <4>1. CASE v = u
        BY <1>1, <1>2, <2>3, <4>1
      <4>2. CASE v # u
        <5>1. ~Gone(g, v)
          BY <1>5, <3>1, <4>2
        <5>2. v \in members[g] \ evicting[g] <=> v \in s.own
          BY <1>7, <5>1 DEF Sees
        <5> QED
          BY <1>1, <2>3, <4>2, <5>2
      <4> QED
        BY <4>1, <4>2
    <3> QED
      BY <3>1
  <2>5. Open(g)' /\ evicting'[g] = {} =>
          \E v \in x.own : v \in members'[g] \/ busy'[v].op = "leaving"
    <3>1. ASSUME Open(g)', evicting'[g] = {}
          PROVE  \E v \in x.own : v \in members'[g] \/ busy'[v].op = "leaving"
      <4>1. PICK v \in s.own : v \in members[g] \/ busy[v].op = "leaving"
        BY <1>1, <1>6, <1>7, <3>1 DEF Sees
      <4>2. v # u
        BY <1>2, <4>1
      <4> QED
        BY <1>1, <2>3, <4>1, <4>2
    <3> QED
      BY <3>1
  <2>6. Open(g)' /\ x.own # {} =>
         /\ creator'[g] = x.creator /\ banned'[g] \subseteq x.banned
         /\ banned'[g] \cap fed'[g] = {}
         /\ \A w \in Foreign(g) \ x.open : w \in (Visible(g) \ departed[g])' <=> w \in x.in
    <3>1. x.own # {} => s.own # {}
      BY <2>3
    <3> QED
      BY <1>1, <1>6, <1>7, <2>3, <3>1 DEF Sees
  <2>7. x.own \subseteq Of(g)
    BY <1>7, <2>3 DEF Sees
  <2>8. Sees(g, x)'
    BY <2>4, <2>5, <2>6, <2>7 DEF Sees, Of, Foreign
  <2>9. x = Less(s, u)'
    BY <2>2, <1>1 DEF x0, Less, u
  <2> QED
    BY <2>8, <2>9 DEF x0
<1>8. ASSUME NEW s, Current(g, s)  PROVE Current(g, Less(s, u))'
  <2> DEFINE x0 == Less(s, u)
  <2>1. /\ x0.own = s.own \ {u} /\ x0.creator = s.creator /\ x0.in = s.in /\ x0.open = s.open
        /\ x0.banned = s.banned
    BY DEF Less
  <2>2. PICK x : x = x0
    OBVIOUS
  <2> HIDE DEF x0
  <2>3. /\ x.own = s.own \ {u} /\ x.creator = s.creator /\ x.in = s.in /\ x.open = s.open
        /\ x.banned = s.banned
    BY <2>1, <2>2
  <2>4. Announcing = {} /\ Counted = fed[Host] /\ Announcing' = {} /\ Counted' = fed'[Host]
        /\ Untold' = Untold
    BY <1>1, WhenCalm, StaysCalm
  <2>5. u \notin members[Host]
    BY <1>1, RoomAssumption DEF Of, Mirrors, Base, HostOK
  <2>6. InHost' = InHost \ {u}
    BY <1>1, <2>5 DEF InHost
  <2>7. \A w \in Foreign(g) : w # u
    BY <1>1 DEF Foreign
  <2>8. x.own \subseteq Of(g)
    BY <1>8, <2>3 DEF Current
  <2>9. \A v \in Of(g) \ Announcing' : v \in x.own <=> v \in Counted'
    BY <1>1, <1>8, <2>3, <2>4 DEF Current
  <2>10. x.own # {} =>
          /\ x.creator = creator'[Host] /\ x.banned \subseteq banned'[Host]
          /\ \A w \in Foreign(g) \ Untold' : w \notin x.open /\ (w \in x.in <=> w \in InHost')
    <3>1. x.own # {} => s.own # {}
      BY <2>3
    <3> QED
      BY <1>1, <1>8, <2>3, <2>4, <2>6, <2>7, <3>1 DEF Current
  <2>11. Current(g, x)'
    BY <2>8, <2>9, <2>10 DEF Current, Of, Foreign
  <2>12. x = Less(s, u)'
    BY <2>2, <1>1 DEF x0, Less, u
  <2> QED
    BY <2>11, <2>12 DEF x0
<1> QED
  BY <1>2, <1>3, <1>7, <1>8, FollowsLess

-----------------------------------------------------------------------------
(* What a mirror does on its own.                                           *)

\* A member is not on the way out.
LEMMA MemberStays ==
    ASSUME RowsSound, JoinsSound, NEW g \in Mirrors, NEW v \in members[g]
    PROVE  v \in Of(g) /\ ~Gone(g, v)
<1>1. g \in Gateways
  BY DEF Mirrors
<1>2. v \in Of(g)
  BY <1>1 DEF RowsSound, RowsFit
<1>3. busy[v].op # "leaving"
  BY <1>2 DEF JoinsSound, HomesFit, HomeFits, Of
<1>4. v \notin Whose(up[g], "leave")
  BY DEF JoinsSound, PostsFit
<1> QED
  BY <1>2, <1>3, <1>4 DEF Gone

LEMMA MirrorLeaveFacts ==
    ASSUME Base, Calm, NEW u \in Users, LeaveMirrorEnd(u)
    PROVE  /\ Home[u] \in Mirrors /\ Home[u] # Host
           /\ busy[u].op = "leaving" /\ busy'[u].op = "idle"
           /\ \A v \in Users \ {u} : busy'[v] = busy[v]
           /\ up' = [up EXCEPT ![Home[u]] = Append(@, News("leave", u, u))]
           /\ down' = down /\ evicting' = evicting
           /\ \A k \in Gateways \ {Home[u]} : RowsKept(k)
           /\ IF Open(Home[u]) /\ members[Home[u]] = {} THEN Drop(Home[u])
              ELSE RowsKept(Home[u])
           /\ Announcing' = {} /\ Counted' = fed'[Host]
           /\ Untold' = (Leaving \ {u}) \cap Of(Host)
<1>1. Home[u] \in Gateways /\ Home[u] # Host /\ Home[u] \in Mirrors /\ Host \in Gateways
  BY RoomAssumption DEF LeaveMirrorEnd, Mirrors
<1>2. /\ busy[u].op = "leaving" /\ End(u) /\ down' = down /\ evicting' = evicting
      /\ up' = [up EXCEPT ![Home[u]] = Append(@, News("leave", u, u))]
  BY DEF LeaveMirrorEnd
<1>3. /\ busy'[u].op = "idle" /\ \A v \in Users \ {u} : busy'[v] = busy[v]
      /\ Announcing' = {} /\ Counted' = fed'[Host]
      /\ Untold' = (Leaving \ {u}) \cap Of(Host)
  <2>1. \A v \in Users \ {u} : busy[v].op \notin Held
    BY DEF Calm
  <2> QED
    BY <1>2, <2>1, WhenEnded
<1>4. IF Open(Home[u]) /\ members[Home[u]] = {} THEN Drop(Home[u]) ELSE UNCHANGED roomVars
  BY DEF LeaveMirrorEnd
<1>5. RowsTyped
  BY DEF Base, TypeOK, RowsTyped
<1>6. \A k \in Gateways \ {Home[u]} : RowsKept(k)
  BY <1>1, <1>4, <1>5 DEF RowsKept, Drop, roomVars, RowsTyped
<1>7. IF Open(Home[u]) /\ members[Home[u]] = {} THEN Drop(Home[u]) ELSE RowsKept(Home[u])
  BY <1>4 DEF RowsKept, roomVars
<1> QED
  BY <1>1, <1>2, <1>3, <1>6, <1>7

LEMMA FollowsMirrorLeaves ==
    ASSUME Base, RowsSound, JoinsSound, Calm, NEW g \in Mirrors, Follows(g),
           NEW u \in Users, LeaveMirrorEnd(u)
    PROVE  Follows(g)'
<1> DEFINE k == Home[u]
<1>1. /\ k \in Mirrors /\ k # Host
      /\ busy[u].op = "leaving" /\ busy'[u].op = "idle"
      /\ \A v \in Users \ {u} : busy'[v] = busy[v]
      /\ up' = [up EXCEPT ![k] = Append(@, News("leave", u, u))]
      /\ down' = down /\ evicting' = evicting
      /\ \A j \in Gateways \ {k} : RowsKept(j)
      /\ IF Open(k) /\ members[k] = {} THEN Drop(k) ELSE RowsKept(k)
      /\ Announcing' = {} /\ Counted' = fed'[Host]
      /\ Untold' = (Leaving \ {u}) \cap Of(Host)
  BY MirrorLeaveFacts
<1>2. Announcing = {} /\ Counted = fed[Host] /\ Untold = Leaving \cap Of(Host)
  BY WhenCalm
<1>3. Host \in Gateways /\ Host # k /\ g \in Gateways
  BY <1>1, RoomAssumption DEF Mirrors
<1>4. RowsKept(Host)
  BY <1>1, <1>3
<1>5. CurrentKept(g)
  <2>1. u \notin Of(Host)
    BY <1>1 DEF Of
  <2>2. InHost' = InHost
    BY <1>4 DEF InHost, RowsKept
  <2>3. Untold \subseteq Untold'
    BY <1>1, <1>2, <2>1
  <2> QED
    BY <1>1, <1>2, <1>4, <2>2, <2>3, SameHost DEF RowsKept
<1>6. CASE k # g
  <2>1. RowsKept(g) /\ evicting'[g] = evicting[g]
    BY <1>1, <1>3, <1>6
  <2>2. up'[g] = up[g]
    BY <1>1, <1>6 DEF Base, TypeOK
  <2>3. LeavesKept(g)
    BY <1>1, <1>6, <2>2 DEF LeavesKept, Of
  <2> QED
    BY <1>1, <1>5, <2>1, <2>3, SameRows, FollowsStay
<1>7. CASE k = g
  <2>1. up'[g] = Append(up[g], News("leave", u, u)) /\ up[g] \in Seq(Relay)
    BY <1>1, <1>7 DEF Base, TypeOK
  <2>2. Whose(up'[g], "leave") = Whose(up[g], "leave") \cup {u}
    <3>1. News("leave", u, u) \in Relay
      BY DEF News, Relay, MaybeUser
    <3>2. News("leave", u, u).act = "leave" /\ News("leave", u, u).who = u
      BY DEF News
    <3> QED
      BY <2>1, <3>1, <3>2, WhoseAppend
  <2>3. \A v \in Of(g) : Gone(g, v)' <=> Gone(g, v)
    BY <1>1, <2>2 DEF Gone, Of
  <2> HIDE DEF k
  <2>4. CASE Open(g) /\ members[g] = {}
    <3>1. members'[g] = {} /\ ~Open(g)'
      BY <1>1, <1>3, <1>7, <2>4 DEF Drop, Open, Base, TypeOK
    <3>2. ASSUME NEW s, Sees(g, s)  PROVE Sees(g, s)'
      <4>1. \A v \in Of(g) : ~Gone(g, v)' => (v \in members'[g] \ evicting'[g] <=> v \in s.own)
        BY <2>3, <2>4, <3>1, <3>2 DEF Sees
      <4>2. s.own \subseteq Of(g)
        BY <3>2 DEF Sees
      <4> QED
        BY <3>1, <4>1, <4>2 DEF Sees, Of
    <3>3. SeesKept(g)
      BY <3>2 DEF SeesKept
    <3> QED
      BY <1>1, <1>5, <3>3, FollowsStay
  <2>5. CASE ~(Open(g) /\ members[g] = {})
    <3>1. RowsKept(g) /\ evicting'[g] = evicting[g]
      BY <1>1, <1>7, <2>5
    <3>2. (Open(g)' <=> Open(g)) /\ Visible(g)' = Visible(g)
      BY <3>1 DEF Open, Visible, RowsKept
    <3>3. ASSUME NEW s, Sees(g, s)  PROVE Sees(g, s)'
      <4>1. \A v \in Of(g) : ~Gone(g, v)' => (v \in members'[g] \ evicting'[g] <=> v \in s.own)
        BY <2>3, <3>1, <3>3 DEF Sees, RowsKept
      <4>2. ASSUME Open(g)', evicting'[g] = {}
            PROVE  \E v \in s.own : v \in members'[g] \/ busy'[v].op = "leaving"
        <5>1. PICK v \in members[g] : TRUE
          BY <2>5, <3>2, <4>2
        <5>2. v \in Of(g) /\ ~Gone(g, v)
          BY <5>1, MemberStays
        <5>3. v \in s.own
          BY <3>1, <3>3, <4>2, <5>1, <5>2 DEF Sees
        <5> QED
          BY <3>1, <5>1, <5>3 DEF RowsKept
      <4>3. Open(g)' /\ s.own # {} =>
             /\ creator'[g] = s.creator /\ banned'[g] \subseteq s.banned
             /\ banned'[g] \cap fed'[g] = {}
             /\ \A w \in Foreign(g) \ s.open : w \in (Visible(g) \ departed[g])' <=> w \in s.in
        BY <3>1, <3>2, <3>3 DEF Sees, RowsKept
      <4>4. s.own \subseteq Of(g)
        BY <3>3 DEF Sees
      <4> QED
        BY <4>1, <4>2, <4>3, <4>4 DEF Sees, Of, Foreign
    <3>4. SeesKept(g)
      BY <3>3 DEF SeesKept
    <3> QED
      BY <1>1, <1>5, <3>4, FollowsStay
  <2> QED
    BY <2>4, <2>5
<1> QED
  BY <1>6, <1>7

\* The last of a user who was put out.
LEMMA FollowsEvict ==
    ASSUME Base, RowsSound, JoinsSound, NEW g \in Mirrors, Follows(g), NEW u, Evict(g, u)
    PROVE  Follows(g)'
<1> DEFINE left == members[g] \ {u}
<1>1. /\ u \in evicting[g] /\ evicting'[g] = evicting[g] \ {u}
      /\ busy' = busy /\ down' = down /\ up' = up
      /\ g \in Gateways /\ RowsTyped
  BY DEF Evict, Base, TypeOK, RowsTyped, Mirrors
<1>2. CurrentKept(g)
  <2>1. HostRowsKept
    BY <1>1, EvictKeepsHost
  <2>2. PlainStep
    BY <1>1 DEF PlainStep
  <2>3. Announcing' = Announcing /\ Counted' = Counted /\ Untold' = Untold
    BY <2>1, <2>2, PlainSame DEF HostRowsKept
  <2>4. InHost' = InHost
    BY <2>1 DEF HostRowsKept, InHost
  <2> QED
    BY <2>1, <2>3, <2>4, SameHost DEF HostRowsKept
<1>3. \A v \in Of(g) : Gone(g, v)' <=> Gone(g, v)
  BY <1>1 DEF Gone
<1>4. CASE Open(g) /\ left = {}
  <2>1. members'[g] = {} /\ ~Open(g)'
    BY <1>1, <1>4 DEF Evict, Drop, Open, RowsTyped
  <2>2. members[g] \ evicting[g] = {}
    BY <1>1, <1>4
  <2>3. ASSUME NEW s, Sees(g, s)  PROVE Sees(g, s)'
    <3>1. \A v \in Of(g) : ~Gone(g, v)' => (v \in members'[g] \ evicting'[g] <=> v \in s.own)
      BY <1>3, <2>1, <2>2, <2>3 DEF Sees
    <3>2. s.own \subseteq Of(g)
      BY <2>3 DEF Sees
    <3> QED
      BY <2>1, <3>1, <3>2 DEF Sees, Of
  <2>4. SeesKept(g)
    BY <2>3 DEF SeesKept
  <2> QED
    BY <1>1, <1>2, <2>4, FollowsStay
<1>5. CASE ~(Open(g) /\ left = {})
  <2>1. /\ members'[g] = left /\ creator'[g] = creator[g] /\ fed'[g] = fed[g]
        /\ departed'[g] = departed[g] /\ banned'[g] = banned[g]
    BY <1>1, <1>5 DEF Evict, RowsTyped
  <2>2. (Open(g)' <=> Open(g)) /\ Visible(g)' = Visible(g)
    BY <2>1 DEF Open, Visible
  <2>3. members'[g] \ evicting'[g] = members[g] \ evicting[g]
    BY <1>1, <2>1
  <2>4. ASSUME NEW s, Sees(g, s)  PROVE Sees(g, s)'
    <3>1. \A v \in Of(g) : ~Gone(g, v)' => (v \in members'[g] \ evicting'[g] <=> v \in s.own)
      BY <1>3, <2>3, <2>4 DEF Sees
    <3>2. ASSUME Open(g)', evicting'[g] = {}
          PROVE  \E v \in s.own : v \in members'[g] \/ busy'[v].op = "leaving"
      <4>1. PICK v \in left : TRUE
        BY <1>5, <2>2, <3>2
      <4>2. v \in members'[g] \ evicting'[g] /\ v \in members[g]
        BY <2>1, <3>2, <4>1
      <4>3. v \in Of(g) /\ ~Gone(g, v)
        BY <4>2, MemberStays
      <4>4. v \in s.own
        BY <1>3, <3>1, <4>2, <4>3
      <4> QED
        BY <4>2, <4>4
    <3>3. Open(g)' /\ s.own # {} =>
           /\ creator'[g] = s.creator /\ banned'[g] \subseteq s.banned
           /\ banned'[g] \cap fed'[g] = {}
           /\ \A w \in Foreign(g) \ s.open : w \in (Visible(g) \ departed[g])' <=> w \in s.in
      BY <2>1, <2>2, <2>4 DEF Sees
    <3>4. s.own \subseteq Of(g)
      BY <2>4 DEF Sees
    <3> QED
      BY <3>1, <3>2, <3>3, <3>4 DEF Sees, Of, Foreign
  <2>5. SeesKept(g)
    BY <2>4 DEF SeesKept
  <2> QED
    BY <1>1, <1>2, <2>5, FollowsStay
<1> QED
  BY <1>4, <1>5

-----------------------------------------------------------------------------
(* A mirror takes the relays of the host, the first one first.              *)

\* What a mirror takes for local are its own users.
LEMMA LocalIs ==
    ASSUME Base, RowsSound, MirrorOK, NEW g \in Mirrors, NEW w \in Users
    PROVE  IsLocal(g, w) <=> w \in Of(g)
<1>1. g \in Gateways /\ w # NoUser
  BY RoomAssumption DEF Mirrors
<1>2. members[g] \subseteq Of(g) /\ fed[g] \subseteq Foreign(g)
  BY <1>1 DEF RowsSound, RowsFit
<1>3. w # creator[g] \/ w \in Visible(g)
  BY <1>1 DEF MirrorOK, MirrorSound, Open
<1> QED
  BY <1>2, <1>3 DEF IsLocal, Of, Foreign, Visible

\* What the rows of a mirror are.
LEMMA Shown ==
    ASSUME Base, RowsSound, MirrorOK, NEW g \in Mirrors, evicting[g] = {}, NEW s, Sees(g, s)
    PROVE  /\ s.own \subseteq Of(g)
           /\ \A v \in Of(g) : ~Gone(g, v) => (v \in members[g] <=> v \in s.own)
           /\ ~Open(g) => members[g] = {} /\ fed[g] = {} /\ departed[g] = {} /\ banned[g] = {}
           /\ Open(g) =>
                /\ s.own # {} /\ creator[g] = s.creator /\ creator[g] \in Visible(g)
                /\ Visible(g) = fed[g]
                /\ \E v \in s.own : v \in members[g] \/ busy[v].op = "leaving"
           /\ Open(g) => banned[g] \subseteq s.banned /\ banned[g] \cap fed[g] = {}
           /\ Open(g) => \A w \in Foreign(g) \ s.open : w \in fed[g] \ departed[g] <=> w \in s.in
           /\ fed[g] \subseteq Foreign(g)
<1>1. g \in Gateways
  BY DEF Mirrors
<1>2. /\ fed[g] \subseteq Foreign(g)
      /\ ~Open(g) => members[g] = {} /\ fed[g] = {} /\ departed[g] = {} /\ banned[g] = {}
  BY <1>1 DEF RowsSound, RowsFit
<1>3. s.own \subseteq Of(g)
  BY DEF Sees
<1>4. \A v \in Of(g) : ~Gone(g, v) => (v \in members[g] <=> v \in s.own)
  BY DEF Sees
<1>5. CASE Open(g)
  <2>1. PICK v \in s.own : v \in members[g] \/ busy[v].op = "leaving"
    BY <1>5 DEF Sees
  <2>2. /\ creator[g] = s.creator /\ banned[g] \subseteq s.banned /\ banned[g] \cap fed[g] = {}
        /\ \A w \in Foreign(g) \ s.open : w \in Visible(g) \ departed[g] <=> w \in s.in
    BY <1>5, <2>1 DEF Sees
  <2>3. Visible(g) = fed[g]
    BY <2>2 DEF Visible
  <2>4. creator[g] \in Visible(g)
    BY <1>5 DEF MirrorOK, MirrorSound
  <2> QED
    BY <1>2, <1>3, <1>4, <1>5, <2>1, <2>2, <2>3, <2>4
<1>6. CASE ~Open(g)
  BY <1>2, <1>3, <1>4, <1>6
<1> QED
  BY <1>5, <1>6

\* A relay about users of other gateways.
LEMMA ShowsNext ==
    ASSUME NEW g, NEW s, NEW t, Sees(g, s), t.own = s.own,
           members'[g] = members[g], evicting'[g] = evicting[g],
           \A v \in Of(g) : Gone(g, v)' <=> Gone(g, v),
           \A v \in Users : busy'[v].op = "leaving" <=> busy[v].op = "leaving",
           Open(g)' => Open(g),
           Open(g)' /\ t.own # {} =>
             /\ creator'[g] = t.creator /\ banned'[g] \subseteq t.banned
             /\ banned'[g] \cap fed'[g] = {}
             /\ \A w \in Foreign(g) \ t.open : w \in fed'[g] \ departed'[g] <=> w \in t.in
    PROVE  Sees(g, t)'
<1>1. t.own \subseteq Of(g)
  BY DEF Sees
<1>2. \A v \in Of(g) : ~Gone(g, v)' => (v \in members'[g] \ evicting'[g] <=> v \in t.own)
  BY DEF Sees
<1>3. Open(g)' /\ evicting'[g] = {} =>
        \E v \in t.own : v \in members'[g] \/ busy'[v].op = "leaving"
  BY <1>1 DEF Sees, Of
<1>4. Open(g)' /\ t.own # {} =>
        /\ creator'[g] = t.creator /\ banned'[g] \subseteq t.banned
        /\ banned'[g] \cap fed'[g] = {}
        /\ \A w \in Foreign(g) \ t.open : w \in (Visible(g) \ departed[g])' <=> w \in t.in
  BY DEF Visible
<1> QED
  BY <1>1, <1>2, <1>3, <1>4 DEF Sees, Of, Foreign

\* What is left alone when a mirror takes a relay.
LEMMA HeardKeeps ==
    ASSUME Base, JoinsSound, NEW g \in Mirrors, NEW r, Heard(g, r)
    PROVE  /\ CurrentKept(g) /\ up' = up /\ Gets(g, r)
           /\ \A v \in Users : busy'[v].op = "leaving" <=> busy[v].op = "leaving"
           /\ \A v \in Of(g) : Gone(g, v)' <=> Gone(g, v)
<1>1. Gets(g, r)
  BY DEF Heard, Admitted, HandleMemberJoined, HandleMemberLeft, HandleOwnerChanged,
         HandleDelete, HandleKick, HandleBan, HandleUnban
<1>2. up' = up
  BY <1>1 DEF Gets
<1>3. HostRowsKept
  BY NewsKeepsHost DEF Base, TypeOK, RowsTyped
<1>4. PlainStep
  <2>1. CASE Admitted(g, r)
    <3>1. r.who \in Of(g) /\ busy[r.who].op = "joining"
      BY <2>1, AnsweredUser
    <3>2. busy' = [busy EXCEPT ![r.who] = Idle]
      BY <2>1 DEF Admitted, End
    <3>3. busy[r.who].op \in Plain /\ Idle.op \in Plain /\ r.who \in Users
      BY <3>1 DEF Plain, Idle, Of
    <3> QED
      BY <3>2, <3>3, PlainOne
  <2>2. CASE ~Admitted(g, r)
    <3>1. busy' = busy
      BY <2>2 DEF Heard, HandleMemberJoined, HandleMemberLeft, HandleOwnerChanged,
                  HandleDelete, HandleKick, HandleBan, HandleUnban
    <3> QED
      BY <3>1 DEF PlainStep
  <2> QED
    BY <2>1, <2>2
<1>5. /\ Announcing' = Announcing /\ Counted' = Counted /\ Untold' = Untold
      /\ \A u \in Users : busy'[u].op = "leaving" <=> busy[u].op = "leaving"
  BY <1>3, <1>4, PlainSame DEF HostRowsKept
<1>6. CurrentKept(g)
  <2>1. InHost' = InHost
    BY <1>3 DEF HostRowsKept, InHost
  <2> QED
    BY <1>3, <1>5, <2>1, SameHost DEF HostRowsKept
<1>7. \A v \in Of(g) : Gone(g, v)' <=> Gone(g, v)
  BY <1>2, <1>5 DEF Gone, Of
<1> QED
  BY <1>1, <1>2, <1>5, <1>6, <1>7

LEMMA HeardFirst ==
    ASSUME Base, JoinsSound, Late = {}, NEW g \in Mirrors, Follows(g), NEW r, Heard(g, r),
           \A s, t : Sees(g, s) /\ Leads(g, s, r, t) => Sees(g, t)'
    PROVE  Follows(g)'
<1>1. CurrentKept(g) /\ Gets(g, r)
  BY HeardKeeps
<1>2. PICK i \in Ready(down[g]) : down[g][i] = r /\ down' = [down EXCEPT ![g] = Without(@, i)]
  BY <1>1 DEF Gets
<1>3. down[g] \in Seq(Relay) /\ down'[g] = Without(down[g], i)
  BY <1>2 DEF Base, TypeOK
<1>4. Len(down[g]) \in Nat
  BY <1>3, LenProperties
<1>5. i = 1 /\ 1 \in 1 .. Len(down[g])
  BY <1>4, FirstTaken
<1>6. down[g][1] = r /\ down'[g] = Without(down[g], 1)
  BY <1>2, <1>3, <1>5
<1> QED
  BY <1>1, <1>3, <1>5, <1>6, FollowsTaken

LEMMA ShowsJoined ==
    ASSUME Base, RowsSound, JoinsSound, MirrorOK, NEW g \in Mirrors, evicting[g] = {}, NEW r,
           HandleMemberJoined(g, r), NEW s, NEW t, Sees(g, s), Leads(g, s, r, t)
    PROVE  Sees(g, t)'
<1> DEFINE u == r.who
<1>1. /\ r.act = "member_joined" /\ Gets(g, r)
      /\ UNCHANGED <<creator, members, banned, busy, evicting>>
  BY DEF HandleMemberJoined
<1>2. g \in Gateways /\ u \in Users /\ RowsTyped
  BY <1>1, NewsOK DEF Base, TypeOK, RowsTyped
<1>3. /\ \A v \in Users : busy'[v].op = "leaving" <=> busy[v].op = "leaving"
      /\ \A v \in Of(g) : Gone(g, v)' <=> Gone(g, v)
  BY HeardKeeps DEF Heard
<1>4. t.own = s.own
  BY <1>1 DEF Leads, OwnAfter
<1>5. Open(g)' <=> Open(g)
  BY <1>1 DEF Open
<1>6. ASSUME Open(g)
      PROVE  /\ creator'[g] = t.creator /\ banned'[g] \subseteq t.banned
             /\ banned'[g] \cap fed'[g] = {}
             /\ \A w \in Foreign(g) \ t.open : w \in fed'[g] \ departed'[g] <=> w \in t.in
  <2>1. /\ s.own # {} /\ creator[g] = s.creator /\ creator[g] \in Visible(g)
        /\ Visible(g) = fed[g]
        /\ banned[g] \subseteq s.banned /\ banned[g] \cap fed[g] = {}
        /\ \A w \in Foreign(g) \ s.open : w \in fed[g] \ departed[g] <=> w \in s.in
        /\ fed[g] \subseteq Foreign(g)
    BY <1>6, Shown
  <2>2. Keeps(g, s, r, t) /\ Tells(g, s, r, t)
    BY <1>1, <1>4, <2>1 DEF Leads
  <2>3. r.by = s.creator /\ u \notin s.banned /\ (u \in t.in \/ u \in t.open)
    BY <1>1, <2>2 DEF Tells
  <2>4. /\ t.creator = s.creator /\ s.banned \subseteq t.banned
        /\ \A w \in Foreign(g) \ {u} : SameFor(s, t, w)
    BY <1>1, <2>2 DEF Keeps
  <2>5. Vouched(g, r)
    BY <1>6, <2>1, <2>3 DEF Vouched
  <2>6. CASE u = creator[g]
    <3>1. departed'[g] = departed[g] \ {u} /\ fed'[g] = fed[g]
      BY <1>2, <2>5, <2>6 DEF HandleMemberJoined, IsRoute, RowsTyped
    <3> QED
      BY <1>1, <2>1, <2>3, <2>4, <2>6, <3>1 DEF SameFor
  <2>7. CASE u # creator[g] /\ u \notin Of(g)
    <3>1. ~IsLocal(g, u) /\ u \notin banned[g]
      BY <1>2, <2>1, <2>3, <2>7, LocalIs
    <3>2. AddFed(g, u)
      BY <2>5, <2>7, <3>1 DEF HandleMemberJoined, IsRoute
    <3>3. departed'[g] = departed[g] \ {u} /\ fed'[g] = fed[g] \cup {u}
      BY <1>2, <3>2 DEF AddFed, RowsTyped
    <3> QED
      BY <1>1, <2>1, <2>3, <2>4, <3>1, <3>3 DEF SameFor
  <2>8. CASE u # creator[g] /\ u \in Of(g)
    <3>1. IsLocal(g, u)
      BY <1>2, <2>8, LocalIs
    <3>2. departed'[g] = departed[g] /\ fed'[g] = fed[g]
      BY <2>8, <3>1 DEF HandleMemberJoined, IsRoute
    <3>3. \A w \in Foreign(g) : w # u
      BY <2>8 DEF Foreign
    <3> QED
      BY <1>1, <2>1, <2>4, <3>2, <3>3 DEF SameFor
  <2> QED
    BY <2>6, <2>7, <2>8
<1> QED
  BY <1>1, <1>3, <1>4, <1>5, <1>6, ShowsNext

LEMMA ShowsLeft ==
    ASSUME Base, RowsSound, JoinsSound, MirrorOK, NEW g \in Mirrors, evicting[g] = {}, NEW r,
           HandleMemberLeft(g, r), NEW s, NEW t, Sees(g, s), Leads(g, s, r, t)
    PROVE  Sees(g, t)'
<1> DEFINE u == r.who
<1>1. /\ r.act = "member_left" /\ Gets(g, r)
      /\ UNCHANGED <<creator, members, banned, busy, evicting>>
  BY DEF HandleMemberLeft
<1>2. g \in Gateways /\ u \in Users /\ RowsTyped
  BY <1>1, NewsOK DEF Base, TypeOK, RowsTyped
<1>3. /\ \A v \in Users : busy'[v].op = "leaving" <=> busy[v].op = "leaving"
      /\ \A v \in Of(g) : Gone(g, v)' <=> Gone(g, v)
  BY HeardKeeps DEF Heard
<1>4. t.own = s.own
  BY <1>1 DEF Leads, OwnAfter
<1>5. Open(g)' <=> Open(g)
  BY <1>1 DEF Open
<1>6. ASSUME Open(g)
      PROVE  /\ creator'[g] = t.creator /\ banned'[g] \subseteq t.banned
             /\ banned'[g] \cap fed'[g] = {}
             /\ \A w \in Foreign(g) \ t.open : w \in fed'[g] \ departed'[g] <=> w \in t.in
  <2>1. /\ s.own # {} /\ creator[g] = s.creator /\ creator[g] \in Visible(g)
        /\ Visible(g) = fed[g]
        /\ banned[g] \subseteq s.banned /\ banned[g] \cap fed[g] = {}
        /\ \A w \in Foreign(g) \ s.open : w \in fed[g] \ departed[g] <=> w \in s.in
        /\ fed[g] \subseteq Foreign(g)
    BY <1>6, Shown
  <2>2. Keeps(g, s, r, t) /\ Tells(g, s, r, t)
    BY <1>1, <1>4, <2>1 DEF Leads
  <2>3. r.by \in {s.creator, u} /\ (u \notin t.in \/ u \in t.open)
    BY <1>1, <2>2 DEF Tells, IsOut
  <2>4. /\ t.creator = s.creator /\ s.banned \subseteq t.banned
        /\ \A w \in Foreign(g) \ {u} : SameFor(s, t, w)
    BY <1>1, <2>2 DEF Keeps
  <2>5. CASE ~Vouched(g, r)
    <3>1. u \notin fed[g]
      BY <1>6, <2>1, <2>3, <2>5 DEF Vouched
    <3>2. departed'[g] = departed[g] /\ fed'[g] = fed[g]
      BY <2>5 DEF HandleMemberLeft
    <3> QED
      BY <1>1, <2>1, <2>3, <2>4, <3>1, <3>2 DEF SameFor
  <2>6. CASE Vouched(g, r) /\ u = creator[g]
    <3>1. departed'[g] = departed[g] \cup ({u} \cap fed[g]) /\ fed'[g] = fed[g]
      BY <1>2, <2>6 DEF HandleMemberLeft, IsRoute, RowsTyped
    <3> QED
      BY <1>1, <2>1, <2>3, <2>4, <2>6, <3>1 DEF SameFor
  <2>7. CASE Vouched(g, r) /\ u # creator[g] /\ u \notin Of(g)
    <3>1. ~IsLocal(g, u)
      BY <1>2, <2>7, LocalIs
    <3>2. DropFed(g, u)
      BY <2>7, <3>1 DEF HandleMemberLeft, IsRoute
    <3>3. departed'[g] = departed[g] \ {u} /\ fed'[g] = fed[g] \ {u}
      BY <1>2, <3>2 DEF DropFed, RowsTyped
    <3> QED
      BY <1>1, <2>1, <2>3, <2>4, <3>3 DEF SameFor
  <2>8. CASE Vouched(g, r) /\ u # creator[g] /\ u \in Of(g)
    <3>1. IsLocal(g, u)
      BY <1>2, <2>8, LocalIs
    <3>2. departed'[g] = departed[g] /\ fed'[g] = fed[g]
      BY <2>8, <3>1 DEF HandleMemberLeft, IsRoute
    <3>3. \A w \in Foreign(g) : w # u
      BY <2>8 DEF Foreign
    <3> QED
      BY <1>1, <2>1, <2>4, <3>2, <3>3 DEF SameFor
  <2> QED
    BY <2>5, <2>6, <2>7, <2>8
<1> QED
  BY <1>1, <1>3, <1>4, <1>5, <1>6, ShowsNext

LEMMA ShowsOwner ==
    ASSUME Base, RowsSound, JoinsSound, MirrorOK, NEW g \in Mirrors, evicting[g] = {}, NEW r,
           HandleOwnerChanged(g, r), NEW s, NEW t, Sees(g, s), Leads(g, s, r, t)
    PROVE  Sees(g, t)'
<1> DEFINE u == r.who
<1>1. /\ r.act = "owner_changed" /\ Gets(g, r)
      /\ UNCHANGED <<members, banned, busy, evicting>>
  BY DEF HandleOwnerChanged
<1>2. g \in Gateways /\ u \in Users /\ RowsTyped /\ r \in Honest /\ u # NoUser
  BY <1>1, NewsOK, RoomAssumption DEF Base, TypeOK, RowsTyped
<1>3. /\ \A v \in Users : busy'[v].op = "leaving" <=> busy[v].op = "leaving"
      /\ \A v \in Of(g) : Gone(g, v)' <=> Gone(g, v)
  BY HeardKeeps DEF Heard
<1>4. t.own = s.own
  BY <1>1 DEF Leads, OwnAfter
<1>5. CASE ~Open(g)
  <2>1. creator'[g] = creator[g]
    BY <1>5 DEF HandleOwnerChanged, Vouched
  <2>2. ~Open(g)'
    BY <1>5, <2>1 DEF Open
  <2> QED
    BY <1>1, <1>3, <1>4, <2>2, ShowsNext
<1>6. CASE Open(g)
  <2>1. /\ s.own # {} /\ creator[g] = s.creator /\ creator[g] \in Visible(g)
        /\ Visible(g) = fed[g]
        /\ banned[g] \subseteq s.banned /\ banned[g] \cap fed[g] = {}
        /\ \A w \in Foreign(g) \ s.open : w \in fed[g] \ departed[g] <=> w \in s.in
        /\ fed[g] \subseteq Foreign(g)
    BY <1>6, Shown
  <2>2. Keeps(g, s, r, t) /\ Tells(g, s, r, t)
    BY <1>1, <1>4, <2>1 DEF Leads
  <2>3. t.creator = u /\ u \in Foreign(g) /\ u \in s.in \ s.open /\ SameFor(s, t, u)
    BY <1>1, <2>2 DEF Tells
  <2>4. s.banned \subseteq t.banned /\ \A w \in Foreign(g) \ {u} : SameFor(s, t, w)
    BY <1>1, <2>2 DEF Keeps
  <2>5. u \in fed[g] \ departed[g]
    BY <2>1, <2>3
  <2>6. r.by = u
    BY <1>1, <1>2 DEF Honest
  <2>7. Vouched(g, r)
    BY <1>6, <2>1, <2>5, <2>6 DEF Vouched
  <2>8. ~IsLocal(g, u)
    BY <1>2, <2>3, LocalIs DEF Foreign
  <2>9. creator'[g] = u /\ fed'[g] = fed[g] /\ departed'[g] = departed[g]
    <3>1. CASE u # creator[g]
      BY <1>2, <2>1, <2>5, <2>7, <2>8, <3>1 DEF HandleOwnerChanged, RowsTyped
    <3>2. CASE u = creator[g]
      BY <3>2 DEF HandleOwnerChanged
    <3> QED
      BY <3>1, <3>2
  <2>10. \A w \in Foreign(g) : SameFor(s, t, w)
    BY <2>3, <2>4
  <2>11. \A w \in Foreign(g) \ t.open : w \in fed'[g] \ departed'[g] <=> w \in t.in
    BY <2>1, <2>9, <2>10 DEF SameFor
  <2>12. banned'[g] \subseteq t.banned /\ banned'[g] \cap fed'[g] = {} /\ creator'[g] = t.creator
    BY <1>1, <2>1, <2>3, <2>4, <2>9
  <2> QED
    BY <1>1, <1>3, <1>4, <1>6, <2>11, <2>12, ShowsNext
<1> QED
  BY <1>5, <1>6

\* Moderation that is not refused is the creator's.
LEMMA NotRefused ==
    ASSUME Base, MirrorOK, ignored' = {}, NEW g \in Mirrors, NEW r,
           Refuse(g, r) \/ (Vouched(g, r) /\ r.by = Owner(g))
    PROVE  Open(g) /\ Vouched(g, r) /\ r.by = Owner(g) /\ r.by = creator[g]
<1>1. ~Refuse(g, r)
  BY DEF Refuse
<1>2. Vouched(g, r) /\ r.by = Owner(g)
  BY <1>1
<1>3. r.by = creator[g]
  BY <1>2, ByCreator DEF Base, TypeOK, RowsTyped
<1> QED
  BY <1>2, <1>3 DEF Vouched

LEMMA ShowsUnban ==
    ASSUME Base, RowsSound, JoinsSound, MirrorOK, ignored' = {}, NEW g \in Mirrors,
           evicting[g] = {}, NEW r, HandleUnban(g, r), NEW s, NEW t, Sees(g, s),
           Leads(g, s, r, t)
    PROVE  Sees(g, t)'
<1> DEFINE u == r.who
<1>1. /\ r.act = "unban" /\ Gets(g, r)
      /\ UNCHANGED <<creator, members, fed, departed, busy, evicting>>
  BY DEF HandleUnban
<1>2. g \in Gateways /\ u \in Users /\ RowsTyped
  BY <1>1, NewsOK DEF Base, TypeOK, RowsTyped
<1>3. /\ \A v \in Users : busy'[v].op = "leaving" <=> busy[v].op = "leaving"
      /\ \A v \in Of(g) : Gone(g, v)' <=> Gone(g, v)
  BY HeardKeeps DEF Heard
<1>4. t.own = s.own
  BY <1>1 DEF Leads, OwnAfter
<1>5. Open(g) /\ Vouched(g, r) /\ r.by = Owner(g)
  <2>1. Refuse(g, r) \/ (Vouched(g, r) /\ r.by = Owner(g))
    BY DEF HandleUnban
  <2> QED
    BY <2>1, NotRefused
<1>6. banned'[g] = banned[g] \ {u}
  BY <1>2, <1>5 DEF HandleUnban, RowsTyped
<1>7. /\ s.own # {} /\ creator[g] = s.creator /\ banned[g] \subseteq s.banned
      /\ banned[g] \cap fed[g] = {}
      /\ \A w \in Foreign(g) \ s.open : w \in fed[g] \ departed[g] <=> w \in s.in
  BY <1>5, Shown
<1>8. Keeps(g, s, r, t) /\ Tells(g, s, r, t)
  BY <1>1, <1>4, <1>7 DEF Leads
<1>9. s.banned \ {u} \subseteq t.banned /\ (u \in Foreign(g) => SameFor(s, t, u))
  BY <1>1, <1>8 DEF Tells
<1>10. t.creator = s.creator /\ \A w \in Foreign(g) \ {u} : SameFor(s, t, w)
  BY <1>1, <1>8 DEF Keeps
<1>11. \A w \in Foreign(g) : SameFor(s, t, w)
  BY <1>9, <1>10
<1>12. \A w \in Foreign(g) \ t.open : w \in fed'[g] \ departed'[g] <=> w \in t.in
  BY <1>1, <1>7, <1>11 DEF SameFor
<1>13. creator'[g] = t.creator /\ banned'[g] \subseteq t.banned /\ banned'[g] \cap fed'[g] = {}
  BY <1>1, <1>6, <1>7, <1>9, <1>10
<1> QED
  BY <1>1, <1>3, <1>4, <1>5, <1>12, <1>13, ShowsNext

LEMMA ShowsDelete ==
    ASSUME Base, RowsSound, JoinsSound, MirrorOK, NEW g \in Mirrors, evicting[g] = {}, NEW r,
           HandleDelete(g, r), NEW s, NEW t, Sees(g, s), Leads(g, s, r, t)
    PROVE  Sees(g, t)'
<1>1. r.act = "delete_room" /\ Gets(g, r)
  BY DEF HandleDelete
<1>2. g \in Gateways /\ RowsTyped
  BY <1>1, NewsOK DEF Base, TypeOK, RowsTyped
<1>3. t.own = {}
  BY <1>1 DEF Leads, OwnAfter
<1>4. members'[g] = {} /\ ~Open(g)'
  <2>1. CASE Open(g)
    <3>1. s.own # {} /\ creator[g] = s.creator /\ creator[g] \in Visible(g)
      BY <2>1, Shown
    <3>2. Vouched(g, r)
      BY <1>1, <2>1, <3>1 DEF Leads, Vouched
    <3>3. Drop(g)
      BY <3>2 DEF HandleDelete
    <3> QED
      BY <1>2, <3>3 DEF Drop, Open, RowsTyped
  <2>2. CASE ~Open(g)
    <3>1. members[g] = {}
      BY <2>2, Shown
    <3>2. members' = members /\ creator' = creator
      BY <2>2 DEF HandleDelete, Vouched, roomVars
    <3> QED
      BY <2>2, <3>1, <3>2 DEF Open
  <2> QED
    BY <2>1, <2>2
<1> QED
  BY <1>3, <1>4 DEF Sees

\* A user of the mirror is put out, or one of another gateway is no member.
LEMMA ShowsOut ==
    ASSUME Base, RowsSound, JoinsSound, NEW g \in Mirrors, evicting[g] = {}, NEW u \in Users,
           NEW s, NEW t, Sees(g, s), t.own = s.own \ {u}, Open(g),
           creator'[g] = creator[g], members'[g] = members[g],
           evicting'[g] = IF u \in Of(g) THEN {u} ELSE {},
           \A v \in Of(g) : Gone(g, v)' <=> Gone(g, v),
           \A v \in Users : busy'[v].op = "leaving" <=> busy[v].op = "leaving",
           fed'[g] \ departed'[g] = (fed[g] \ departed[g]) \ {u},
           t.own # {} =>
             /\ t.creator = s.creator /\ banned'[g] \subseteq t.banned
             /\ banned'[g] \cap fed'[g] = {} /\ (u \notin t.in \/ u \in t.open)
             /\ \A w \in Foreign(g) \ {u} : SameFor(s, t, w),
           \A w \in Foreign(g) \ s.open : w \in fed[g] \ departed[g] <=> w \in s.in,
           creator[g] = s.creator
    PROVE  Sees(g, t)'
<1>1. t.own \subseteq Of(g) /\ s.own \subseteq Of(g)
  BY DEF Sees
<1>2. \A v \in Of(g) : ~Gone(g, v)' => (v \in members'[g] \ evicting'[g] <=> v \in t.own)
  <2>1. ASSUME NEW v \in Of(g), ~Gone(g, v)'
        PROVE  v \in members'[g] \ evicting'[g] <=> v \in t.own
    <3>1. v \in members[g] <=> v \in s.own
      BY <2>1 DEF Sees
    <3>2. v \in evicting'[g] <=> v = u
      BY <2>1
    <3> QED
      BY <3>1, <3>2
  <2> QED
    BY <2>1
<1>3. Open(g)' /\ evicting'[g] = {} =>
        \E v \in t.own : v \in members'[g] \/ busy'[v].op = "leaving"
  <2>1. ASSUME evicting'[g] = {}
        PROVE  \E v \in t.own : v \in members'[g] \/ busy'[v].op = "leaving"
    <3>1. u \notin Of(g)
      BY <2>1
    <3>2. t.own = s.own
      BY <1>1, <3>1
    <3>3. PICK v \in s.own : v \in members[g] \/ busy[v].op = "leaving"
      BY DEF Sees
    <3>4. v \in Users
      BY <1>1, <3>3 DEF Of
    <3> QED
      BY <3>2, <3>3, <3>4
  <2> QED
    BY <2>1
<1>4. Open(g)' /\ t.own # {} =>
        /\ creator'[g] = t.creator /\ banned'[g] \subseteq t.banned
        /\ banned'[g] \cap fed'[g] = {}
        /\ \A w \in Foreign(g) \ t.open : w \in (Visible(g) \ departed[g])' <=> w \in t.in
  <2>1. ASSUME t.own # {}
        PROVE  \A w \in Foreign(g) \ t.open : w \in fed'[g] \ departed'[g] <=> w \in t.in
    BY <2>1 DEF SameFor
  <2>2. banned'[g] \cap fed'[g] = {} => Visible(g)' = fed'[g]
    BY DEF Visible
  <2> QED
    BY <2>1, <2>2
<1> QED
  BY <1>1, <1>2, <1>3, <1>4 DEF Sees, Of, Foreign

LEMMA ShowsKick ==
    ASSUME Base, RowsSound, JoinsSound, MirrorOK, ignored' = {}, NEW g \in Mirrors,
           evicting[g] = {}, NEW r, HandleKick(g, r), NEW s, NEW t, Sees(g, s),
           Leads(g, s, r, t)
    PROVE  Sees(g, t)'
<1> DEFINE u == r.who
<1>1. r.act = "kick" /\ Gets(g, r) /\ UNCHANGED <<creator, members, banned, busy>>
  BY DEF HandleKick
<1>2. g \in Gateways /\ u \in Users /\ RowsTyped /\ evicting \in [Gateways -> SUBSET Users]
  BY <1>1, NewsOK DEF Base, TypeOK, RowsTyped
<1>3. /\ \A v \in Users : busy'[v].op = "leaving" <=> busy[v].op = "leaving"
      /\ \A v \in Of(g) : Gone(g, v)' <=> Gone(g, v)
  BY HeardKeeps DEF Heard
<1>4. t.own = s.own \ {u}
  BY <1>1 DEF Leads, OwnAfter
<1>5. Vouched(g, r) /\ r.by = Owner(g) /\ u # creator[g]
  <2>1. ~Refuse(g, r)
    BY DEF Refuse
  <2> QED
    BY <2>1 DEF HandleKick
<1>6. Open(g)
  BY <1>5 DEF Vouched
<1>7. /\ creator[g] = s.creator /\ banned[g] \subseteq s.banned
      /\ banned[g] \cap fed[g] = {}
      /\ \A w \in Foreign(g) \ s.open : w \in fed[g] \ departed[g] <=> w \in s.in
      /\ fed[g] \subseteq Foreign(g)
  BY <1>6, Shown
<1>8. ASSUME t.own # {}
      PROVE  /\ t.creator = s.creator /\ s.banned \subseteq t.banned
             /\ (u \notin t.in \/ u \in t.open)
             /\ \A w \in Foreign(g) \ {u} : SameFor(s, t, w)
  <2>1. Keeps(g, s, r, t) /\ Tells(g, s, r, t)
    BY <1>1, <1>8 DEF Leads
  <2> QED
    BY <1>1, <2>1 DEF Keeps, Tells, IsOut
<1>9. /\ evicting'[g] = IF u \in Of(g) THEN {u} ELSE {}
      /\ fed'[g] \subseteq fed[g]
      /\ fed'[g] \ departed'[g] = (fed[g] \ departed[g]) \ {u}
  <2>1. CASE u \in Of(g)
    <3>1. Evicts(g, r)
      BY <1>2, <1>5, <2>1, LocalIs DEF Evicts
    <3>2. evicting'[g] = evicting[g] \cup {u} /\ fed'[g] = fed[g] /\ departed'[g] = departed[g]
      BY <1>2, <1>5, <3>1 DEF HandleKick
    <3>3. u \notin fed[g]
      BY <1>7, <2>1 DEF Foreign
    <3> QED
      BY <2>1, <3>2, <3>3
  <2>2. CASE u \notin Of(g)
    <3>1. ~Evicts(g, r)
      BY <1>2, <2>2, LocalIs DEF Evicts
    <3>2. DropFed(g, u) /\ evicting' = evicting
      BY <1>5, <3>1 DEF HandleKick
    <3>3. fed'[g] = fed[g] \ {u} /\ departed'[g] = departed[g] \ {u}
      BY <1>2, <3>2 DEF DropFed, RowsTyped
    <3> QED
      BY <2>2, <3>2, <3>3
  <2> QED
    BY <2>1, <2>2
<1>10. t.own # {} =>
         /\ t.creator = s.creator /\ banned'[g] \subseteq t.banned
         /\ banned'[g] \cap fed'[g] = {} /\ (u \notin t.in \/ u \in t.open)
         /\ \A w \in Foreign(g) \ {u} : SameFor(s, t, w)
  BY <1>1, <1>7, <1>8, <1>9
<1>11. creator'[g] = creator[g] /\ members'[g] = members[g]
  BY <1>1
<1> HIDE DEF u
<1> QED
  BY <1>2, <1>3, <1>4, <1>6, <1>7, <1>9, <1>10, <1>11, ShowsOut

LEMMA ShowsBan ==
    ASSUME Base, RowsSound, JoinsSound, MirrorOK, ignored' = {}, NEW g \in Mirrors,
           evicting[g] = {}, NEW r, HandleBan(g, r), NEW s, NEW t, Sees(g, s),
           Leads(g, s, r, t)
    PROVE  Sees(g, t)'
<1> DEFINE u == r.who
<1>1. r.act = "ban" /\ Gets(g, r) /\ UNCHANGED <<creator, members, busy>>
  BY DEF HandleBan
<1>2. g \in Gateways /\ u \in Users /\ RowsTyped /\ evicting \in [Gateways -> SUBSET Users]
  BY <1>1, NewsOK DEF Base, TypeOK, RowsTyped
<1>3. /\ \A v \in Users : busy'[v].op = "leaving" <=> busy[v].op = "leaving"
      /\ \A v \in Of(g) : Gone(g, v)' <=> Gone(g, v)
  BY HeardKeeps DEF Heard
<1>4. t.own = s.own \ {u}
  BY <1>1 DEF Leads, OwnAfter
<1>5. Open(g) /\ Vouched(g, r) /\ r.by = Owner(g)
  <2>1. Refuse(g, r) \/ (Vouched(g, r) /\ r.by = Owner(g))
    BY DEF HandleBan
  <2> QED
    BY <2>1, NotRefused
<1>6. /\ creator[g] = s.creator /\ banned[g] \subseteq s.banned
      /\ banned[g] \cap fed[g] = {}
      /\ \A w \in Foreign(g) \ s.open : w \in fed[g] \ departed[g] <=> w \in s.in
      /\ fed[g] \subseteq Foreign(g) /\ creator[g] \in Visible(g) /\ Visible(g) = fed[g]
  BY <1>5, Shown
<1>7. ASSUME t.own # {}
      PROVE  /\ t.creator = s.creator /\ s.banned \subseteq t.banned /\ u \in t.banned
             /\ (u \notin t.in \/ u \in t.open)
             /\ \A w \in Foreign(g) \ {u} : SameFor(s, t, w)
  <2>1. Keeps(g, s, r, t) /\ Tells(g, s, r, t)
    BY <1>1, <1>7 DEF Leads
  <2> QED
    BY <1>1, <2>1 DEF Keeps, Tells, IsOut
<1>8. /\ banned'[g] = banned[g] \cup {u} /\ fed'[g] = fed[g] \ {u}
      /\ departed'[g] = departed[g] \ {u}
      /\ evicting'[g] = IF Evicts(g, r) THEN evicting[g] \cup {u} ELSE evicting[g]
  BY <1>2, <1>5 DEF HandleBan, DropFed, RowsTyped
<1>9. Evicts(g, r) <=> u \in Of(g)
  <2>1. u \in Of(g) => u # creator[g]
    BY <1>6 DEF Foreign
  <2> QED
    BY <1>2, <2>1, LocalIs DEF Evicts
<1>10. /\ evicting'[g] = IF u \in Of(g) THEN {u} ELSE {}
       /\ fed'[g] \ departed'[g] = (fed[g] \ departed[g]) \ {u}
  BY <1>8, <1>9
<1>11. t.own # {} =>
         /\ t.creator = s.creator /\ banned'[g] \subseteq t.banned
         /\ banned'[g] \cap fed'[g] = {} /\ (u \notin t.in \/ u \in t.open)
         /\ \A w \in Foreign(g) \ {u} : SameFor(s, t, w)
  BY <1>6, <1>7, <1>8
<1>12. creator'[g] = creator[g] /\ members'[g] = members[g]
  BY <1>1
<1> HIDE DEF u
<1> QED
  BY <1>2, <1>3, <1>4, <1>5, <1>6, <1>10, <1>11, <1>12, ShowsOut

LEMMA ShowsAdmitted ==
    ASSUME Base, RowsSound, JoinsSound, MirrorOK, NEW g \in Mirrors, evicting[g] = {}, NEW r,
           Admitted(g, r), NEW s, NEW t, Sees(g, s), Leads(g, s, r, t)
    PROVE  Sees(g, t)'
<1> DEFINE u == r.who
           c == r.by
           list == r.list
           known == {w \in list : w # u /\ ~IsLocal(g, w)} \cup {c}
<1>1. r.act = "admitted" /\ Gets(g, r) /\ UNCHANGED <<banned, evicting>>
  BY DEF Admitted
<1>2. /\ g \in Gateways /\ g # Host /\ u \in Users /\ list \subseteq Users /\ RowsTyped
      /\ r \in Honest
  BY <1>1, NewsOK DEF Base, TypeOK, RowsTyped
<1>3. c \in Foreign(g) /\ c \in Users /\ c # NoUser
  BY <1>1, <1>2, RoomAssumption DEF Honest, Foreign, Of
<1>4. u \in Of(g) /\ u \notin Whose(up[g], "leave") /\ busy[u].op = "joining"
  BY AnsweredUser
<1>5. /\ \A v \in Users : busy'[v].op = "leaving" <=> busy[v].op = "leaving"
      /\ \A v \in Of(g) : Gone(g, v)' <=> Gone(g, v)
  BY HeardKeeps DEF Heard
<1>6. t.own = s.own \cup {u}
  BY <1>1 DEF Leads, OwnAfter
<1>7. Admits(g, s, r, t)
  BY <1>1, <1>6 DEF Leads
<1>8. /\ t.creator = c /\ list \cap t.banned = {}
      /\ \A w \in Foreign(g) \ t.open : w \in t.in <=> w \in list
      /\ s.own # {} => /\ s.creator = c /\ s.banned \subseteq t.banned
                       /\ \A w \in Foreign(g) : SameFor(s, t, w)
  BY <1>7 DEF Admits
<1>9. known = (list \cap Foreign(g)) \cup {c}
  <2>1. \A w \in list : w # u /\ ~IsLocal(g, w) <=> w \in Foreign(g)
    BY <1>2, <1>4, LocalIs DEF Foreign
  <2> QED
    BY <2>1
<1> HIDE DEF known, c, list
<1>10. /\ s.own \subseteq Of(g)
       /\ \A v \in Of(g) : ~Gone(g, v) => (v \in members[g] <=> v \in s.own)
       /\ ~Open(g) => members[g] = {} /\ fed[g] = {} /\ departed[g] = {} /\ banned[g] = {}
       /\ Open(g) => /\ s.own # {} /\ creator[g] = s.creator /\ creator[g] \in Visible(g)
                     /\ Visible(g) = fed[g]
       /\ Open(g) => banned[g] \subseteq s.banned /\ banned[g] \cap fed[g] = {}
       /\ Open(g) => \A w \in Foreign(g) \ s.open : w \in fed[g] \ departed[g] <=> w \in s.in
  BY Shown
<1>11. Open(g) => creator[g] = c /\ c \in Visible(g)
  BY <1>8, <1>10
<1>12. /\ creator'[g] = c /\ members'[g] = members[g] \cup {u}
       /\ fed'[g] = fed[g] \cup known
       /\ departed'[g] = (departed[g] \ known) \cup ({c} \ list)
  BY <1>2, <1>11 DEF Admitted, RowsTyped, known, c, list
<1>13. banned'[g] = banned[g] /\ evicting'[g] = {}
  BY <1>1
<1> HIDE DEF u
<1>14. t.own \subseteq Of(g)
  BY <1>4, <1>6, <1>10
<1>15. \A v \in Of(g) : ~Gone(g, v)' => (v \in members'[g] \ evicting'[g] <=> v \in t.own)
  BY <1>5, <1>6, <1>10, <1>12, <1>13
<1>16. \E v \in t.own : v \in members'[g] \/ busy'[v].op = "leaving"
  BY <1>6, <1>12
<1>17. banned'[g] \subseteq t.banned /\ banned'[g] \cap fed'[g] = {}
  <2>1. CASE Open(g)
    BY <1>8, <1>9, <1>10, <1>11, <1>12, <1>13, <2>1
  <2>2. CASE ~Open(g)
    BY <1>10, <1>13, <2>2
  <2> QED
    BY <2>1, <2>2
<1>18. Visible(g)' = fed'[g]
  BY <1>17 DEF Visible
<1>19. ASSUME NEW w \in Foreign(g), w \notin t.open
       PROVE  w \in fed'[g] \ departed'[g] <=> w \in t.in
  <2>1. w \in t.in <=> w \in list
    BY <1>8, <1>19
  <2>2. CASE w \in list
    BY <1>9, <1>12, <2>1, <2>2
  <2>3. CASE w \notin list /\ w = c
    BY <1>12, <2>1, <2>3
  <2>4. CASE w \notin list /\ w # c
    <3>1. w \notin known
      BY <1>9, <2>4
    <3>2. w \notin fed[g] \ departed[g]
      <4>1. CASE Open(g)
        <5>1. SameFor(s, t, w)
          BY <1>8, <1>10, <4>1
        <5>2. w \notin s.open /\ w \notin s.in
          BY <1>19, <2>1, <2>4, <5>1 DEF SameFor
        <5> QED
          BY <1>10, <4>1, <5>2
      <4>2. CASE ~Open(g)
        BY <1>10, <4>2
      <4> QED
        BY <4>1, <4>2
    <3> QED
      BY <1>12, <2>1, <2>4, <3>1, <3>2
  <2> QED
    BY <2>2, <2>3, <2>4
<1>20. creator'[g] = t.creator
  BY <1>8, <1>12
<1>21. Open(g)' /\ t.own # {} =>
        /\ creator'[g] = t.creator /\ banned'[g] \subseteq t.banned
        /\ banned'[g] \cap fed'[g] = {}
        /\ \A w \in Foreign(g) \ t.open : w \in (Visible(g) \ departed[g])' <=> w \in t.in
  BY <1>17, <1>18, <1>19, <1>20
<1> QED
  BY <1>14, <1>15, <1>16, <1>21 DEF Sees, Of, Foreign

LEMMA FollowsHeard ==
    ASSUME Base, RowsSound, JoinsSound, MirrorOK, Late = {}, ignored' = {}, NEW g \in Mirrors,
           evicting[g] = {}, Follows(g), NEW r, Heard(g, r)
    PROVE  Follows(g)'
<1>1. ASSUME NEW s, NEW t, Sees(g, s), Leads(g, s, r, t)  PROVE Sees(g, t)'
  BY <1>1, ShowsAdmitted, ShowsJoined, ShowsLeft, ShowsOwner, ShowsDelete, ShowsKick, ShowsBan,
     ShowsUnban DEF Heard
<1> QED
  BY <1>1, HeardFirst

-----------------------------------------------------------------------------
(* The mirrors follow in every step.                                        *)

LEMMA IgnoredStays ==
    ASSUME Next
    PROVE  ignored \subseteq ignored'
<1>1. ASSUME NEW g, NEW r, Heard(g, r)  PROVE ignored \subseteq ignored'
  BY <1>1 DEF Heard, Admitted, HandleMemberJoined, HandleMemberLeft, HandleOwnerChanged,
              HandleDelete, HandleKick, HandleBan, HandleUnban, Refuse
<1>2. ASSUME NEW g, NEW r, LookUp(g, r) \/ HandleLeave(g, r)  PROVE ignored' = ignored
  BY <1>2 DEF LookUp, HandleLeave
<1>3. ASSUME NEW u, Going(u)  PROVE ignored' = ignored
  BY <1>3 DEF Going, LeaveEnd, LeaveMirrorEnd, OwnerLeaveEnd, BanEnd, DeleteEnd, Admit, Answer
<1>4. ASSUME NEW g, NEW u, Evict(g, u)  PROVE ignored' = ignored
  BY <1>4 DEF Evict
<1>5. CASE Finish
  BY <1>3, <1>4, <1>5 DEF Finish, Going
<1>6. CASE UserActs
  BY <1>6 DEF UserActs, Join, Leave, Accept, Decline, Delete, NewInvite, JoinRemote, LosePost,
              Kick, Ban, Unban, SetRole, Offer
<1>7. CASE RelayTaken
  <2>1. \/ \E g, r : LookUp(g, r) \/ HandleLeave(g, r)
        \/ \E g, r : Heard(g, r)
    BY <1>7 DEF RelayTaken, Heard
  <2> QED
    BY <1>1, <1>2, <2>1
<1> QED
  BY <1>5, <1>6, <1>7 DEF Next

LEMMA FollowsGoing ==
    ASSUME Base, RowsSound, JoinsSound, HandlersSound, BannedIsOut, NEW g \in Mirrors,
           Follows(g), NEW u \in Users, Going(u), \A v \in Users \ {u} : busy[v].op \notin Held
    PROVE  Follows(g)'
<1>1. CASE LeaveEnd(u) \/ LeaveMirrorEnd(u) \/ OwnerLeaveEnd(u)
  <2>1. busy[u].op \in {"leaving", "owner leaving"}
    BY <1>1 DEF LeaveEnd, LeaveMirrorEnd, OwnerLeaveEnd
  <2>2. Calm
    BY <2>1 DEF Calm, Held
  <2> QED
    BY <1>1, <2>2, FollowsLeaveEnd, FollowsMirrorLeaves, FollowsOwnerLeaves
<1>2. CASE BanEnd(u)
  BY <1>2, FollowsBanEnd
<1>3. CASE DeleteEnd(u)
  BY <1>3, FollowsDeleteEnd
<1>4. CASE Admit(u)
  BY <1>4, FollowsAdmit
<1>5. CASE Answer(u)
  BY <1>5, FollowsAnswer
<1> QED
  BY <1>1, <1>2, <1>3, <1>4, <1>5 DEF Going

LEMMA FollowsUser ==
    ASSUME Base, RowsSound, JoinsSound, BannedIsOut, Calm, "admitted" \notin MayFail,
           NEW g \in Mirrors, Follows(g), UserActs
    PROVE  Follows(g)'
<1>1. ASSUME NEW u \in Users, Decline(u) \/ NewInvite(u) \/ Delete(u)  PROVE Follows(g)'
  BY <1>1, AsideDesk
<1>2. ASSUME NEW u \in Users, NEW t \in Users, SetRole(u, t) \/ Offer(u, t)
      PROVE  Follows(g)'
  BY <1>2, AsideDesk
<1>3. ASSUME NEW u \in Users,
             Join(u) \/ Leave(u) \/ Accept(u) \/ JoinRemote(u) \/ LosePost(u)
      PROVE  Follows(g)'
  BY <1>3, FollowsJoin, FollowsLeave, FollowsAccept, AsideJoinRemote, AsideLost
<1>4. ASSUME NEW u \in Users, NEW t \in Users, Kick(u, t) \/ Ban(u, t) \/ Unban(u, t)
      PROVE  Follows(g)'
  BY <1>4, FollowsKick, FollowsBan, FollowsUnban
<1> QED
  BY <1>1, <1>2, <1>3, <1>4 DEF UserActs

LEMMA FollowsRelay ==
    ASSUME Base, RowsSound, JoinsSound, MirrorOK, BannedIsOut, Calm, Late = {}, ignored' = {},
           NEW g \in Mirrors, evicting[g] = {}, Follows(g), RelayTaken
    PROVE  Follows(g)'
<1>1. \/ \E k \in Mirrors : \E r : LookUp(k, r)
      \/ \E k \in Mirrors : \E r : HandleLeave(k, r)
      \/ \E k \in Mirrors : \E r : Heard(k, r)
  BY DEF RelayTaken, Heard
<1>2. ASSUME NEW k \in Mirrors, NEW r, LookUp(k, r)  PROVE Follows(g)'
  BY <1>2, AsideLookUp
<1>3. ASSUME NEW k \in Mirrors, NEW r, HandleLeave(k, r)  PROVE Follows(g)'
  BY <1>3, FollowsOwnLeave, FollowsOthersLeave
<1>4. ASSUME NEW k \in Mirrors, NEW r, Heard(k, r)  PROVE Follows(g)'
  BY <1>4, FollowsHeard, AsideHeard
<1> QED
  BY <1>1, <1>2, <1>3, <1>4

LEMMA FollowedStep ==
    ASSUME Base, RowsSound, JoinsSound, HandlersSound, MirrorOK, BannedIsOut, OneAtATime,
           Followed, Late = {}, "admitted" \notin MayFail, OnlyLeaves, Next
    PROVE  Followed'
<1> SUFFICES ASSUME ignored' = {}, NEW g \in Mirrors  PROVE Follows(g)'
  BY DEF Followed
<1>1. Follows(g)
  BY IgnoredStays DEF Followed
<1>2. CASE ~Running /\ (UserActs \/ RelayTaken)
  <2>1. Calm /\ evicting[g] = {}
    BY <1>2, NobodyHeld DEF Calm
  <2> QED
    BY <1>1, <1>2, <2>1, FollowsUser, FollowsRelay
<1>3. ASSUME NEW u \in Users, Running => ~Interleaves(busy[u].op), Going(u)
      PROVE  Follows(g)'
  <2>1. \A v \in Users \ {u} : busy[v].op \notin Held
    BY <1>3, OthersFree
  <2> QED
    BY <1>1, <1>3, <2>1, FollowsGoing
<1>4. ASSUME NEW k \in Mirrors, NEW u, Evict(k, u)  PROVE Follows(g)'
  BY <1>1, <1>4, FollowsEvict, AsideEvict
<1>5. CASE Finish
  BY <1>3, <1>4, <1>5 DEF Finish, Going
<1> QED
  BY <1>2, <1>5 DEF Next

LEMMA FollowedInit ==
    ASSUME Init
    PROVE  Followed
<1> USE RoomAssumption
<1> SUFFICES ASSUME NEW g \in Mirrors  PROVE Follows(g)
  BY DEF Followed
<1>1. g \in Gateways /\ g # Host /\ Host \in Gateways
  BY DEF Mirrors
<1>2. /\ \A u \in Users : busy[u].op = "idle"
      /\ down[g] = <<>> /\ up[g] = <<>> /\ evicting[g] = {}
  BY <1>1 DEF Init, Idle
<1>3. /\ creator[Host] = Creator /\ members[Host] = JoinedAt(Host)
      /\ fed[Host] = Joined \ JoinedAt(Host) /\ banned[Host] = {}
      /\ members[g] = JoinedAt(g) /\ departed[g] = {} /\ banned[g] = {}
      /\ Open(g) => JoinedAt(g) # {} /\ creator[g] = Creator /\ fed[g] = Joined \ JoinedAt(g)
  BY <1>1 DEF Init, Open
<1>4. /\ JoinedAt(g) = Joined \cap Of(g) /\ JoinedAt(Host) = Joined \cap Of(Host)
      /\ Of(g) \cap Of(Host) = {} /\ Joined \subseteq Users
  BY <1>1 DEF JoinedAt, Of
<1>5. Announcing = {} /\ Counted = fed[Host] /\ InHost = Joined
  BY <1>2, <1>3, <1>4 DEF Announcing, Counted, Banning, InHost
<1> DEFINE s0 == [own |-> JoinedAt(g), creator |-> Creator, in |-> Joined, open |-> {},
                  banned |-> {}]
<1>6. /\ s0.own = JoinedAt(g) /\ s0.creator = Creator /\ s0.in = Joined /\ s0.open = {}
      /\ s0.banned = {}
  OBVIOUS
<1> HIDE DEF s0
<1>7. Current(g, s0)
  BY <1>3, <1>4, <1>5, <1>6 DEF Current
<1>8. Sees(g, s0)
  <2>1. \A v \in Of(g) : ~Gone(g, v) => (v \in members[g] \ evicting[g] <=> v \in s0.own)
    BY <1>2, <1>3, <1>6
  <2>2. Open(g) => \E v \in s0.own : v \in members[g]
    BY <1>3, <1>6
  <2>3. Open(g) =>
         /\ creator[g] = s0.creator /\ banned[g] \subseteq s0.banned /\ banned[g] \cap fed[g] = {}
         /\ \A w \in Foreign(g) : w \in Visible(g) \ departed[g] <=> w \in s0.in
    BY <1>3, <1>4, <1>6 DEF Visible, Foreign
  <2>4. s0.own \subseteq Of(g)
    BY <1>4, <1>6
  <2> QED
    BY <2>1, <2>2, <2>3, <2>4 DEF Sees
<1> DEFINE f == [i \in {0} |-> s0]
<1>9. f[0] = s0 /\ Len(down[g]) = 0
  BY <1>2
<1> HIDE DEF f
<1>10. Links(g, f, down[g])
  BY <1>9 DEF Links
<1> QED
  BY <1>7, <1>8, <1>9, <1>10 DEF Follows

-----------------------------------------------------------------------------
(* The invariant, and what it says of a system at rest.                     *)

AgreeInv ==
    /\ Base /\ MirrorOK /\ BannedIsOut /\ OneAtATime
    /\ RowsSound /\ JoinsSound /\ HandlersSound /\ Followed

LEMMA AgreeInit ==
    ASSUME Init
    PROVE  AgreeInv
<1>1. BannedIsOut /\ OneAtATime
  BY RoomAssumption DEF Init, BannedIsOut, OneAtATime, Interleaves, Idle
<1> QED
  BY <1>1, BaseInit, MirrorInit, SoundInit, FollowedInit DEF AgreeInv

LEMMA AgreeStays ==
    ASSUME RowsSound, JoinsSound, HandlersSound, Followed, UNCHANGED vars
    PROVE  RowsSound' /\ JoinsSound' /\ HandlersSound' /\ Followed'
<1>1. /\ creator' = creator /\ members' = members /\ fed' = fed /\ departed' = departed
      /\ banned' = banned /\ busy' = busy /\ evicting' = evicting /\ down' = down /\ up' = up
      /\ ignored' = ignored
  BY DEF vars
<1>2. RowsSound'
  BY <1>1 DEF RowsSound, RowsFit, Open
<1>3. JoinsSound'
  BY <1>1 DEF JoinsSound, HomesFit, HomeFits, PostsFit, AnswersFit
<1>4. HandlersSound'
  BY <1>1 DEF HandlersSound, HandlerSound
<1>5. ASSUME NEW g \in Mirrors, Follows(g)  PROVE Follows(g)'
  <2>1. SeesKept(g)
    <3>1. RowsKept(g) /\ LeavesKept(g) /\ evicting'[g] = evicting[g]
      BY <1>1 DEF RowsKept, LeavesKept
    <3> QED
      BY <3>1, SameRows
  <2>2. CurrentKept(g)
    <3>1. Announcing' = Announcing /\ Counted' = Counted /\ Untold' = Untold /\ InHost' = InHost
      BY <1>1 DEF Announcing, Banning, Counted, Untold, Leaving, InHost
    <3> QED
      BY <1>1, <3>1, SameHost
  <2> QED
    BY <1>1, <1>5, <2>1, <2>2, FollowsStay
<1>6. Followed'
  BY <1>1, <1>5 DEF Followed
<1> QED
  BY <1>2, <1>3, <1>4, <1>6

LEMMA AgreeStep ==
    ASSUME AgreeInv, Late = {}, "admitted" \notin MayFail, OnlyLeaves, [Next]_vars
    PROVE  AgreeInv'
<1>1. Base' /\ MirrorOK' /\ BannedIsOut' /\ OneAtATime'
  BY BaseStep, MirrorStep, BannedStep, OneAtATimeStep DEF AgreeInv
<1>2. CASE Next
  BY <1>1, <1>2, RowsSoundStep, JoinsSoundStep, HandlersSoundStep, FollowedStep DEF AgreeInv
<1>3. CASE UNCHANGED vars
  BY <1>1, <1>3, AgreeStays DEF AgreeInv
<1> QED
  BY <1>2, <1>3

\* With nothing on the way, what a mirror shows is what the host has.
LEMMA FollowersAgree ==
    ASSUME AgreeInv
    PROVE  MirrorsAgree
<1> SUFFICES ASSUME Quiet, ignored = {}, NEW g \in Mirrors
             PROVE  /\ members[g] = {u \in fed[Host] : Home[u] = g}
                    /\ Open(g) => creator[g] = creator[Host] /\ InRoom(g) = InRoom(Host)
  BY DEF MirrorsAgree
<1>1. /\ \A u \in Users : busy[u].op = "idle"
      /\ up[g] = <<>> /\ down[g] = <<>> /\ evicting[g] = {}
  BY DEF Quiet, Idle
<1>2. /\ Announcing = {} /\ Counted = fed[Host] /\ Untold = {}
  BY <1>1 DEF Announcing, Banning, Counted, Untold, Leaving
<1>3. PICK s : Sees(g, s) /\ Current(g, s)
  <2>1. PICK f : Sees(g, f[0]) /\ Current(g, f[Len(down[g])])
    BY DEF AgreeInv, Followed, Follows
  <2>2. Len(down[g]) = 0
    BY <1>1
  <2> QED
    BY <2>1, <2>2
<1>4. Base /\ RowsSound /\ MirrorOK /\ BannedIsOut
  BY DEF AgreeInv
<1>5. /\ g \in Gateways /\ Host \in Gateways /\ g # Host /\ fed[Host] \subseteq Users
      /\ members[Host] \subseteq Of(Host) /\ members[g] \subseteq Of(g)
      /\ fed[g] \subseteq Foreign(g) /\ departed[Host] = {} /\ Visible(Host) = fed[Host]
  BY <1>4, RoomAssumption DEF Mirrors, RowsSound, RowsFit, Base, TypeOK, BannedIsOut, Visible
<1>6. \A v \in Of(g) : ~Gone(g, v)
  <2>1. Whose(up[g], "leave") = {}
    <3>1. Len(up[g]) = 0
      BY <1>1
    <3> QED
      BY <3>1 DEF Whose
  <2> QED
    BY <1>1, <2>1 DEF Gone, Of
<1>7. s.own = Of(g) \cap fed[Host]
  BY <1>2, <1>3 DEF Current
<1>8. members[g] = Of(g) \cap fed[Host]
  BY <1>1, <1>3, <1>5, <1>6, <1>7 DEF Sees
<1>9. members[g] = {u \in fed[Host] : Home[u] = g}
  BY <1>5, <1>8 DEF Of
<1>10. ASSUME Open(g)  PROVE creator[g] = creator[Host] /\ InRoom(g) = InRoom(Host)
  <2>1. /\ s.own # {} /\ creator[g] = s.creator /\ Visible(g) = fed[g]
        /\ \A w \in Foreign(g) \ s.open : w \in fed[g] \ departed[g] <=> w \in s.in
    BY <1>1, <1>3, <1>4, <1>10, Shown
  <2>2. /\ s.creator = creator[Host]
        /\ \A w \in Foreign(g) : w \notin s.open /\ (w \in s.in <=> w \in InHost)
    BY <1>2, <1>3, <2>1 DEF Current
  <2>3. InRoom(Host) = InHost
    BY <1>5 DEF InRoom, InHost
  <2>4. InRoom(g) = members[g] \cup (fed[g] \ departed[g])
    BY <2>1 DEF InRoom
  <2>5. ASSUME NEW w \in Foreign(g)
        PROVE  w \in InRoom(g) <=> w \in InRoom(Host)
    <3>1. w \notin members[g]
      BY <1>5 DEF Foreign
    <3> QED
      BY <2>1, <2>2, <2>3, <2>4, <3>1
  <2>6. ASSUME NEW w \in Of(g)
        PROVE  w \in InRoom(g) <=> w \in InRoom(Host)
    <3>1. w \notin fed[g] /\ w \notin members[Host]
      BY <1>5 DEF Foreign, Of
    <3> QED
      BY <1>8, <2>3, <2>4, <3>1 DEF InHost
  <2>7. InRoom(g) \subseteq Users /\ InRoom(Host) \subseteq Users
    BY <1>5, <2>3, <2>4 DEF InHost, Of, Foreign
  <2>8. \A w \in Users : w \in Foreign(g) \/ w \in Of(g)
    BY DEF Foreign
  <2> QED
    BY <2>1, <2>2, <2>5, <2>6, <2>7, <2>8
<1> QED
  BY <1>9, <1>10

\* MirrorsAgree: when all has come to rest and no mirror refused what a
\* moderator did, every mirror shows the owner and the members of the host, and
\* the host counts for members just those who have the room.  The relays come
\* in the order they were sent, no answer of a join gets lost, and of the
\* handlers only a leave lets others in between.
THEOREM MirrorsFollow ==
    ASSUME Late = {}, "admitted" \notin MayFail, Slow \subseteq {"leave"}
    PROVE  Spec => []MirrorsAgree
<1>1. Init => AgreeInv
  BY AgreeInit
<1>2. AgreeInv /\ [Next]_vars => AgreeInv'
  BY AgreeStep DEF OnlyLeaves
<1>3. AgreeInv => MirrorsAgree
  BY FollowersAgree
<1> QED
  BY <1>1, <1>2, <1>3, PTL DEF Spec
=============================================================================
