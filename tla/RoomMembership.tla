--------------------------- MODULE RoomMembership ---------------------------
(***************************************************************************)
(* Who is in a room, who owns it and who is banned from it: the gateway    *)
(* that hosts the room, and the gateways that mirror it for their members. *)
(*                                                                         *)
(* The host decides; a mirror learns of it by relays, each POSTed by a     *)
(* task of its own and queued for a retry when the POST fails, so that a    *)
(* relay may be overtaken by those sent after it.  A member of a mirror     *)
(* joins by a POST that the host answers with a snapshot of the room.       *)
(* Handlers await sends and requests half way and others run meanwhile.     *)
(***************************************************************************)
EXTENDS Integers, Sequences, FiniteSets

CONSTANTS
    Gateways,
    Host,       \* the gateway the room was created at
    Users,
    Home,       \* the gateway of a user
    Creator,    \* who created the room
    Joined,     \* who has joined it at the start
    Uses,       \* joins an invite admits
    Late,       \* bound: kinds of relays that may be overtaken
    MayFail,    \* bound: parts of a join's POST that may get lost
    Slow,       \* bound: handlers that others interleave with
    MaxCommands, \* bound: commands of clients
    NoUser

ASSUME RoomAssumption ==
    /\ Host \in Gateways
    /\ Home \in [Users -> Gateways]
    /\ Creator \in Users /\ Home[Creator] = Host
    /\ Joined \subseteq Users /\ Creator \in Joined
    /\ Uses \in Nat /\ MaxCommands \in Nat
    /\ NoUser \notin Users

VARIABLES
    creator,    \* creator_webid of the room at a gateway; NoUser: no room
    members,    \* room_members of a gateway: its own users
    fed,        \* room_federated_members: users of other gateways
    departed,   \* those of them kept as the route to the host only
    banned,     \* room_bans
    admins,     \* users with the role admin, at the host
    offer,      \* the pending transfer of ownership
    uses,       \* joins left of the invite
    busy,       \* the handler of a user's command that is under way
    evicting,   \* the users a mirror is evicting
    down, up,   \* relays from the host to a mirror and back
    ignored,    \* moderation a mirror refused
    commands    \* commands so far

vars == <<creator, members, fed, departed, banned, admins, offer, uses, busy,
          evicting, down, up, ignored, commands>>
roomVars == <<creator, members, fed, departed, banned>>

Mirrors == Gateways \ {Host}
MaybeUser == Users \cup {NoUser}
Idle == [op |-> "idle", who |-> NoUser, list |-> {}]
Doing(op, u, list) == [op |-> op, who |-> u, list |-> list]
Relay == [act : {"kick", "ban", "unban", "member_joined", "member_left",
                 "owner_changed", "delete_room", "admitted", "leave", "join"},
          who : Users, by : MaybeUser, list : SUBSET Users]
News(act, u, by) == [act |-> act, who |-> u, by |-> by, list |-> {}]
NoOffer == [from |-> NoUser, to |-> NoUser]

TypeOK ==
    /\ creator \in [Gateways -> MaybeUser]
    /\ members \in [Gateways -> SUBSET Users]
    /\ fed \in [Gateways -> SUBSET Users]
    /\ departed \in [Gateways -> SUBSET Users]
    /\ banned \in [Gateways -> SUBSET Users]
    /\ admins \subseteq Users
    /\ offer \in [from : MaybeUser, to : MaybeUser]
    /\ uses \in 0 .. Uses
    /\ busy \in [Users -> [op : {"idle", "leaving", "owner leaving", "banning",
                                  "deleting", "joining", "lookup", "announcing"},
                            who : MaybeUser, list : SUBSET Users]]
    /\ evicting \in [Gateways -> SUBSET Users]
    /\ down \in [Mirrors -> Seq(Relay)]
    /\ up \in [Mirrors -> Seq(Relay)]
    /\ ignored \subseteq Mirrors \X Users
    /\ commands \in 0 .. MaxCommands

JoinedAt(g) == {u \in Joined : Home[u] = g}
Init ==
    LET has(g) == g = Host \/ JoinedAt(g) # {}
    IN  /\ creator = [g \in Gateways |-> IF has(g) THEN Creator ELSE NoUser]
        /\ members = [g \in Gateways |-> JoinedAt(g)]
        /\ fed = [g \in Gateways |-> IF has(g) THEN Joined \ JoinedAt(g) ELSE {}]
        /\ departed = [g \in Gateways |-> {}]
        /\ banned = [g \in Gateways |-> {}]
        /\ admins = {}
        /\ offer = NoOffer
        /\ uses = Uses
        /\ busy = [u \in Users |-> Idle]
        /\ evicting = [g \in Gateways |-> {}]
        /\ down = [g \in Mirrors |-> <<>>]
        /\ up = [g \in Mirrors |-> <<>>]
        /\ ignored = {}
        /\ commands = 0

-----------------------------------------------------------------------------
(* What a gateway reads off its rows. *)

Open(g) == creator[g] # NoUser

\* get_federated_room_members: the banned never count.
Visible(g) == fed[g] \ banned[g]

\* _room_is_hosted_here: the creator counts as local unless it is a member
\* from elsewhere.
HostedAt(g) == Open(g) /\ creator[g] \notin Visible(g)

\* _relay_identity_is_local, users being connected to their own gateway.
IsLocal(g, u) ==
    u \notin Visible(g) /\ (Home[u] = g \/ u = creator[g] \/ u \in members[g])

\* _room_owner: a creator who left keeps the row and has no authority.
Owner(g) ==
    IF creator[g] \in members[g] THEN creator[g]
    ELSE IF creator[g] \in Visible(g)
         THEN IF creator[g] \in departed[g] THEN NoUser ELSE creator[g]
         ELSE IF Visible(g) # {} THEN NoUser ELSE creator[g]

\* _check_room_permission: the owner, or an admin who is a member.
IsAdmin(u) == u = Owner(Host) \/ u \in admins \cap members[Host]

-----------------------------------------------------------------------------
(* The rows and the relays a handler writes. *)

GatewaysOf(us) == {Home[u] : u \in us} \ {Host}

\* Messages for the gateways gs, in this order, at the end of each queue.
Told(gs, news) == [g \in Mirrors |-> IF g \in gs THEN down[g] \o news ELSE down[g]]

AddFed(g, u) ==
    /\ fed' = [fed EXCEPT ![g] = @ \cup {u}]
    /\ departed' = [departed EXCEPT ![g] = @ \ {u}]
DropFed(g, u) ==
    /\ fed' = [fed EXCEPT ![g] = @ \ {u}]
    /\ departed' = [departed EXCEPT ![g] = @ \ {u}]

\* remove_room_member and delete_room_role at the host.
Remove(u) ==
    /\ members' = [members EXCEPT ![Host] = @ \ {u}]
    /\ DropFed(Host, u)
    /\ admins' = admins \ {u}

\* _drop_ownership_offer.
DropOffer(u) == offer' = IF offer.to = u THEN NoOffer ELSE offer

\* delete_room, and the room is gone from _local_rooms.
Drop(g) ==
    /\ creator' = [creator EXCEPT ![g] = NoUser]
    /\ members' = [members EXCEPT ![g] = {}]
    /\ fed' = [fed EXCEPT ![g] = {}]
    /\ departed' = [departed EXCEPT ![g] = {}]
    /\ banned' = [banned EXCEPT ![g] = {}]

Begin(u, op, who) == busy' = [busy EXCEPT ![u] = Doing(op, who, {})]
End(u) == busy' = [busy EXCEPT ![u] = Idle]

-----------------------------------------------------------------------------
(* Commands of clients of the host. *)

\* Whether a handler lets others in between.
Interleaves(op) ==
    CASE op \in {"leaving", "owner leaving"} -> "leave" \in Slow
      [] op = "banning" -> "ban" \in Slow
      [] op = "deleting" -> "delete" \in Slow
      [] op \in {"lookup", "announcing"} -> "join" \in Slow
      [] OTHER -> TRUE
Running ==
    \/ \E u \in Users : ~Interleaves(busy[u].op)
    \/ "evict" \notin Slow /\ \E g \in Mirrors : evicting[g] # {}

Command(u, g) ==
    /\ busy[u] = Idle
    /\ Home[u] = g
    /\ Open(g)
    /\ commands < MaxCommands
    /\ commands' = commands + 1

\* A user of the host joins with the invite; a member who comes back does
\* not use it up.
Join(u) ==
    /\ Command(u, Host)
    /\ u \notin banned[Host]
    /\ IF u \in members[Host]
       THEN UNCHANGED <<uses, down>>
       ELSE /\ uses > 0
            /\ uses' = uses - 1
            /\ down' = Told(GatewaysOf(Visible(Host)),
                            <<News("member_joined", u, creator[Host])>>)
    /\ members' = [members EXCEPT ![Host] = @ \cup {u}]
    /\ UNCHANGED <<creator, fed, departed, banned, admins, offer, busy,
                   evicting, up, ignored>>

\* A user leaves; whether it is the creator is looked at here, and the rest
\* is done after those still in the room were told.
Leave(u) ==
    LET g == Home[u]
    IN  /\ Command(u, g)
        /\ u \in members[g] \cup {creator[g]}
        /\ Begin(u, IF u = creator[g] THEN "owner leaving" ELSE "leaving", NoUser)
        /\ members' = [members EXCEPT ![g] = @ \ {u}]
        /\ admins' = IF g = Host THEN admins \ {u} ELSE admins
        /\ UNCHANGED <<creator, fed, departed, banned, offer, uses, evicting,
                       down, up, ignored>>

LeaveEnd(u) ==
    /\ busy[u].op = "leaving"
    /\ Home[u] = Host
    /\ End(u)
    /\ down' = Told(GatewaysOf(Visible(Host)),
                    <<News("member_left", u, creator[Host])>>)
    /\ UNCHANGED <<roomVars, admins, offer, uses, evicting, up, ignored, commands>>

\* A mirror tells the host, and is dropped with its last member.
LeaveMirrorEnd(u) ==
    LET g == Home[u]
    IN  /\ busy[u].op = "leaving"
        /\ g # Host
        /\ End(u)
        /\ up' = [up EXCEPT ![g] = Append(@, News("leave", u, u))]
        /\ IF Open(g) /\ members[g] = {} THEN Drop(g) ELSE UNCHANGED roomVars
        /\ UNCHANGED <<admins, offer, uses, evicting, down, ignored, commands>>

\* _pick_successor_owner: an admin before the others; of equals the
\* longest-standing, which is left open here.
Successors(u) ==
    LET rest == members[Host] \ {u}
    IN  IF rest \cap admins # {} THEN rest \cap admins ELSE rest

\* The creator's leave goes on: the room is handed on, kept for the members
\* elsewhere, or deleted.
OwnerLeaveEnd(u) ==
    /\ busy[u].op = "owner leaving"
    /\ End(u)
    /\ \/ \E n \in Successors(u) :
            /\ creator' = [creator EXCEPT ![Host] = n]
            /\ down' = Told(GatewaysOf(Visible(Host)),
                 <<News("owner_changed", n, n), News("member_left", u, n)>>)
            /\ UNCHANGED <<members, fed, departed, banned>>
       \/ /\ Successors(u) = {}
          /\ Visible(Host) # {}
          /\ down' = Told(GatewaysOf(Visible(Host)), <<News("member_left", u, u)>>)
          /\ UNCHANGED roomVars
       \/ /\ Successors(u) = {}
          /\ Visible(Host) = {}
          /\ Drop(Host)
          /\ UNCHANGED down
    /\ UNCHANGED <<admins, offer, uses, evicting, up, ignored, commands>>

\* Slip: the gateways are read when t is gone.
KickReachesRest(t) == GatewaysOf(Visible(Host) \ {t})

\* The gateways a kick of t is relayed to: those of the members before it.
KickReaches(t) == GatewaysOf(Visible(Host))

Kick(u, t) ==
    /\ Command(u, Host)
    /\ u = Owner(Host)
    /\ t # creator[Host]
    /\ t \in members[Host] \cup fed[Host]
    /\ Remove(t)
    /\ DropOffer(t)
    /\ down' = Told(KickReaches(t), <<News("kick", t, u)>>)
    /\ UNCHANGED <<creator, banned, uses, busy, evicting, up, ignored>>

\* The ban takes effect at once at the host; it is relayed at the end, also
\* to the gateway of a target who was a member.
Ban(u, t) ==
    /\ Command(u, Host)
    /\ IsAdmin(u)
    /\ t \notin {u, creator[Host]}
    /\ banned' = [banned EXCEPT ![Host] = @ \cup {t}]
    /\ Remove(t)
    /\ DropOffer(t)
    /\ busy' = [busy EXCEPT ![u] = Doing("banning", t, {t} \cap Visible(Host))]
    /\ UNCHANGED <<creator, uses, evicting, down, up, ignored>>

BanEnd(u) ==
    LET t == busy[u].who
    IN  /\ busy[u].op = "banning"
        /\ End(u)
        /\ down' = Told(GatewaysOf(Visible(Host) \cup busy[u].list),
                        <<News("ban", t, u)>>)
        /\ UNCHANGED <<roomVars, admins, offer, uses, evicting, up, ignored, commands>>

Unban(u, t) ==
    /\ Command(u, Host)
    /\ IsAdmin(u)
    /\ t \in banned[Host]
    /\ banned' = [banned EXCEPT ![Host] = @ \ {t}]
    /\ down' = Told(GatewaysOf(Visible(Host)), <<News("unban", t, u)>>)
    /\ UNCHANGED <<creator, members, fed, departed, admins, offer, uses, busy,
                   evicting, up, ignored>>

\* Make a member an admin, or an admin a member.
SetRole(u, t) ==
    /\ Command(u, Host)
    /\ u = Owner(Host) \/ u \in admins
    /\ t # creator[Host]
    /\ t \in members[Host] \cup (Visible(Host) \ departed[Host])
    /\ t \notin banned[Host]
    /\ admins' = IF t \in admins THEN admins \ {t} ELSE admins \cup {t}
    /\ UNCHANGED <<roomVars, offer, uses, busy, evicting, down, up, ignored>>

\* _handle_transfer_ownership: an offer replaces the one before it.
Offer(u, t) ==
    /\ Command(u, Host)
    /\ u = Owner(Host)
    /\ t # u
    /\ t \in members[Host] \ Visible(Host)
    /\ offer' = [from |-> u, to |-> t]
    /\ UNCHANGED <<roomVars, admins, uses, busy, evicting, down, up, ignored>>

\* Slip: that the owner handed the room on meanwhile is not looked at.
StaleMember(u) == u \notin members[Host] \/ u \in banned[Host]

\* An offer that is stale when it is accepted is dropped.
Stale(u) ==
    \/ u \notin members[Host]
    \/ creator[Host] # offer.from
    \/ u \in banned[Host]

Accept(u) ==
    /\ Command(u, Host)
    /\ u = offer.to
    /\ offer' = NoOffer
    /\ IF Stale(u) THEN UNCHANGED <<creator, down>>
       ELSE /\ creator' = [creator EXCEPT ![Host] = u]
            /\ down' = Told(GatewaysOf(Visible(Host)), <<News("owner_changed", u, u)>>)
    /\ UNCHANGED <<members, fed, departed, banned, admins, uses, busy, evicting,
                   up, ignored>>

Decline(u) ==
    /\ Command(u, Host)
    /\ u = offer.to
    /\ offer' = NoOffer
    /\ UNCHANGED <<roomVars, admins, uses, busy, evicting, down, up, ignored>>

\* The members are told before the room goes.
Delete(u) ==
    /\ Command(u, Host)
    /\ u = Owner(Host)
    /\ Begin(u, "deleting", NoUser)
    /\ UNCHANGED <<roomVars, admins, offer, uses, evicting, down, up, ignored>>

\* Of a room that is gone by now nothing is left to delete.
DeleteEnd(u) ==
    /\ busy[u].op = "deleting"
    /\ End(u)
    /\ down' = Told(GatewaysOf(Visible(Host)), <<News("delete_room", u, u)>>)
    /\ Drop(Host)
    /\ UNCHANGED <<admins, offer, uses, evicting, up, ignored, commands>>

\* The owner replaces the invite.
NewInvite(u) ==
    /\ Command(u, Host)
    /\ u = Owner(Host)
    /\ HostedAt(Host)
    /\ uses < Uses
    /\ uses' = Uses
    /\ UNCHANGED <<roomVars, admins, offer, busy, evicting, down, up, ignored>>

-----------------------------------------------------------------------------
(* Joining from another gateway. *)

JoinRemote(u) ==
    LET g == Home[u]
    IN  /\ g # Host
        /\ busy[u] = Idle
        /\ commands < MaxCommands
        /\ commands' = commands + 1
        /\ Begin(u, "joining", NoUser)
        /\ up' = [up EXCEPT ![g] = Append(@, News("join", u, NoUser))]
        /\ UNCHANGED <<roomVars, admins, offer, uses, evicting, down, ignored>>

\* A relay that only relays of kinds that may be overtaken precede.
Ready(q) == {i \in 1 .. Len(q) : \A j \in 1 .. i - 1 : q[j].act \in Late}
Without(q, i) == SubSeq(q, 1, i - 1) \o SubSeq(q, i + 1, Len(q))

\* The host takes relay r of mirror g.
Reaches(g, r) ==
    \E i \in Ready(up[g]) : /\ up[g][i] = r
                            /\ up' = [up EXCEPT ![g] = Without(@, i)]

\* The room is looked up by the code; the gateway of the joiner is asked for
\* its address then.
LookUp(g, r) ==
    /\ r.act = "join"
    /\ Reaches(g, r)
    /\ busy' = [busy EXCEPT ![r.who] =
         IF HostedAt(Host) /\ r.who # creator[Host] /\ ~IsLocal(Host, r.who)
         THEN Doing("lookup", creator[Host], {}) ELSE Idle]
    /\ UNCHANGED <<roomVars, admins, offer, uses, evicting, down, ignored, commands>>

\* Slip: the ban is looked at with the code only.
RefusedForUses(u) == u \notin Visible(Host) /\ uses = 0

\* Slip: the uses of the invite are not looked at.
RefusedForBan(u) == u \in banned[Host]

Refused(u) == u \in banned[Host] \/ (u \notin Visible(Host) /\ uses = 0)

\* The joiner is let in, and the answer is made: the members but the joiner,
\* without a creator who left.
Admit(u) ==
    LET new == u \notin Visible(Host)
        all == members[Host] \cup Visible(Host)
    IN  /\ busy[u].op = "lookup"
        /\ IF Refused(u)
           THEN End(u) /\ UNCHANGED <<fed, departed, uses>>
           ELSE /\ uses' = IF new THEN uses - 1 ELSE uses
                /\ AddFed(Host, u)
                /\ busy' = [busy EXCEPT ![u] =
                              Doing("announcing", @.who, all \ {u})]
        /\ UNCHANGED <<creator, members, banned, admins, offer, evicting, down,
                       up, ignored, commands>>

\* The members were told; the other gateways are, and the POST is answered.
Answer(u) ==
    LET g == Home[u]
        answer == [act |-> "admitted", who |-> u, by |-> busy[u].who,
                   list |-> busy[u].list]
        told == Told(GatewaysOf(Visible(Host)) \ {g},
                     <<News("member_joined", u, busy[u].who)>>)
    IN  /\ busy[u].op = "announcing"
        /\ busy' = [busy EXCEPT ![u] = Doing("joining", NoUser, {})]
        /\ down' = [told EXCEPT ![g] = Append(@, answer)]
        /\ UNCHANGED <<roomVars, admins, offer, uses, evicting, up, ignored, commands>>

\* The POST or its answer is lost: the client is told the host is
\* unreachable.
LosePost(u) ==
    LET g == Home[u]
    IN  /\ busy[u].op = "joining"
        /\ \/ /\ "join" \in MayFail
              /\ \E i \in 1 .. Len(up[g]) :
                   /\ up[g][i] = News("join", u, NoUser)
                   /\ up' = [up EXCEPT ![g] = Without(@, i)]
              /\ UNCHANGED down
           \/ /\ "admitted" \in MayFail
              /\ \E i \in 1 .. Len(down[g]) :
                   /\ down[g][i].act = "admitted" /\ down[g][i].who = u
                   /\ down' = [down EXCEPT ![g] = Without(@, i)]
              /\ UNCHANGED up
        /\ End(u)
        /\ UNCHANGED <<roomVars, admins, offer, uses, evicting, ignored, commands>>

\* action "leave" at the host.
HandleLeave(g, r) ==
    /\ r.act = "leave"
    /\ Reaches(g, r)
    /\ IF HostedAt(Host) /\ r.who \in Visible(Host)
       THEN /\ Remove(r.who)
            /\ DropOffer(r.who)
            /\ down' = Told(GatewaysOf(Visible(Host) \ {r.who}) \ {g},
                            <<News("member_left", r.who, creator[Host])>>)
            /\ UNCHANGED <<creator, banned>>
       ELSE UNCHANGED <<roomVars, admins, offer, down>>
    /\ UNCHANGED <<uses, busy, evicting, ignored, commands>>

-----------------------------------------------------------------------------
(* Relays of the host, at a mirror. *)

Gets(g, r) ==
    /\ \E i \in Ready(down[g]) : /\ down[g][i] = r
                                 /\ down' = [down EXCEPT ![g] = Without(@, i)]
    /\ UNCHANGED <<admins, offer, uses, up, commands>>

\* The host vouches for members it told the mirror about, and only for those.
Vouched(g, r) == Open(g) /\ r.by \in Visible(g)

\* The answer of a join: the mirror is made, or extended.
Admitted(g, r) ==
    LET known == {w \in r.list : w # r.who /\ ~IsLocal(g, w)} \cup {r.by}
    IN  /\ r.act = "admitted"
        /\ Gets(g, r)
        /\ End(r.who)
        /\ IF Open(g) => creator[g] = r.by /\ r.by \in Visible(g)
           THEN /\ creator' = [creator EXCEPT ![g] = r.by]
                /\ members' = [members EXCEPT ![g] = @ \cup {r.who}]
                /\ fed' = [fed EXCEPT ![g] = @ \cup known]
                /\ departed' = [departed EXCEPT ![g] =
                     (@ \ known) \cup ({r.by} \ r.list)]
           ELSE UNCHANGED <<creator, members, fed, departed>>
        /\ UNCHANGED <<banned, evicting, ignored>>

\* Slip: the owner's row goes like any other.
RouteLost(g, u) == FALSE

\* The creator's row is the route to the host: it stays.
IsRoute(g, u) == u = creator[g]

HandleMemberJoined(g, r) ==
    /\ r.act = "member_joined"
    /\ Gets(g, r)
    /\ IF Vouched(g, r) /\ IsRoute(g, r.who)
       THEN /\ departed' = [departed EXCEPT ![g] = @ \ {r.who}]
            /\ UNCHANGED fed
       ELSE IF Vouched(g, r) /\ ~IsLocal(g, r.who) /\ r.who \notin banned[g]
            THEN AddFed(g, r.who)
            ELSE UNCHANGED <<fed, departed>>
    /\ UNCHANGED <<creator, members, banned, busy, evicting, ignored>>

HandleMemberLeft(g, r) ==
    /\ r.act = "member_left"
    /\ Gets(g, r)
    /\ IF Vouched(g, r) /\ IsRoute(g, r.who)
       THEN /\ departed' = [departed EXCEPT ![g] = @ \cup ({r.who} \cap fed[g])]
            /\ UNCHANGED fed
       ELSE IF Vouched(g, r) /\ ~IsLocal(g, r.who)
            THEN DropFed(g, r.who)
            ELSE UNCHANGED <<fed, departed>>
    /\ UNCHANGED <<creator, members, banned, busy, evicting, ignored>>

HandleOwnerChanged(g, r) ==
    /\ r.act = "owner_changed"
    /\ Gets(g, r)
    /\ IF Vouched(g, r) /\ r.who # creator[g] /\ ~IsLocal(g, r.who)
       THEN /\ creator' = [creator EXCEPT ![g] = r.who]
            /\ IF r.who \in Visible(g) THEN UNCHANGED <<fed, departed>>
               ELSE AddFed(g, r.who)
       ELSE UNCHANGED <<creator, fed, departed>>
    /\ UNCHANGED <<members, banned, busy, evicting, ignored>>

HandleDelete(g, r) ==
    /\ r.act = "delete_room"
    /\ Gets(g, r)
    /\ IF Vouched(g, r) THEN Drop(g) ELSE UNCHANGED roomVars
    /\ UNCHANGED <<busy, evicting, ignored>>

\* A ban or a kick of the present owner is applied, any other is refused; a
\* user of the mirror is evicted then.
Evicts(g, r) == IsLocal(g, r.who) /\ r.who # creator[g]
Refuse(g, r) == ignored' = ignored \cup {<<g, r.who>>}

HandleKick(g, r) ==
    /\ r.act = "kick"
    /\ Gets(g, r)
    /\ IF Vouched(g, r) /\ r.by = Owner(g) /\ r.who # creator[g]
       THEN /\ UNCHANGED ignored
            /\ IF Evicts(g, r)
               THEN /\ evicting' = [evicting EXCEPT ![g] = @ \cup {r.who}]
                    /\ UNCHANGED <<fed, departed>>
               ELSE DropFed(g, r.who) /\ UNCHANGED evicting
       ELSE Refuse(g, r) /\ UNCHANGED <<fed, departed, evicting>>
    /\ UNCHANGED <<creator, members, banned, busy>>

HandleBan(g, r) ==
    /\ r.act = "ban"
    /\ Gets(g, r)
    /\ IF Vouched(g, r) /\ r.by = Owner(g)
       THEN /\ UNCHANGED ignored
            /\ banned' = [banned EXCEPT ![g] = @ \cup {r.who}]
            /\ DropFed(g, r.who)
            /\ evicting' = IF Evicts(g, r)
                           THEN [evicting EXCEPT ![g] = @ \cup {r.who}] ELSE evicting
       ELSE Refuse(g, r) /\ UNCHANGED <<banned, fed, departed, evicting>>
    /\ UNCHANGED <<creator, members, busy>>

HandleUnban(g, r) ==
    /\ r.act = "unban"
    /\ Gets(g, r)
    /\ IF Vouched(g, r) /\ r.by = Owner(g)
       THEN banned' = [banned EXCEPT ![g] = @ \ {r.who}] /\ UNCHANGED ignored
       ELSE Refuse(g, r) /\ UNCHANGED banned
    /\ UNCHANGED <<creator, members, fed, departed, busy, evicting>>

\* _evict_from_mirror, after the target was told.
Evict(g, u) ==
    LET left == members[g] \ {u}
    IN  /\ u \in evicting[g]
        /\ evicting' = [evicting EXCEPT ![g] = @ \ {u}]
        /\ IF Open(g) /\ left = {} THEN Drop(g)
           ELSE /\ members' = [members EXCEPT ![g] = left]
                /\ UNCHANGED <<creator, fed, departed, banned>>
        /\ UNCHANGED <<admins, offer, uses, busy, down, up, ignored, commands>>

-----------------------------------------------------------------------------
\* A handler that does not let others in between goes on first.
Finish ==
    \/ \E u \in Users :
         /\ Running => ~Interleaves(busy[u].op)
         /\ \/ LeaveEnd(u) \/ LeaveMirrorEnd(u) \/ OwnerLeaveEnd(u) \/ BanEnd(u)
            \/ DeleteEnd(u) \/ Admit(u) \/ Answer(u)
    \/ /\ Running => "evict" \notin Slow
       /\ \E g \in Mirrors : \E u \in evicting[g] : Evict(g, u)

UserActs ==
    \/ \E u \in Users :
         \/ Join(u) \/ Leave(u) \/ Accept(u) \/ Decline(u) \/ Delete(u)
         \/ NewInvite(u) \/ JoinRemote(u) \/ LosePost(u)
    \/ \E u, t \in Users :
         \/ Kick(u, t) \/ Ban(u, t) \/ Unban(u, t) \/ SetRole(u, t) \/ Offer(u, t)

RelayTaken ==
    \E g \in Mirrors :
      \/ \E r \in {up[g][i] : i \in 1 .. Len(up[g])} :
           LookUp(g, r) \/ HandleLeave(g, r)
      \/ \E r \in {down[g][i] : i \in 1 .. Len(down[g])} :
           \/ Admitted(g, r) \/ HandleMemberJoined(g, r) \/ HandleMemberLeft(g, r)
           \/ HandleOwnerChanged(g, r) \/ HandleDelete(g, r)
           \/ HandleKick(g, r) \/ HandleBan(g, r) \/ HandleUnban(g, r)

Next ==
    \/ Finish
    \/ ~Running /\ (UserActs \/ RelayTaken)

Spec == Init /\ [][Next]_vars

-----------------------------------------------------------------------------
(* Only one gateway takes itself for the host, whatever the order the relays *)
(* come in: at a mirror the creator's row, its route to the host, stays.    *)
MirrorNeverHosts == \A g \in Mirrors : ~HostedAt(g)

(* Nobody who is banned at the host is a member there, also when the ban     *)
(* came while the join was under way.                                       *)
BannedIsOut == banned[Host] \cap (members[Host] \cup fed[Host]) = {}

(* A room gets another owner by the leave of its owner, or by the acceptance *)
(* of an offer of its present owner by a member who is not banned.          *)
HandedOn ==
    LET old == creator[Host]
        new == creator'[Host]
    IN  new \notin {old, NoUser} =>
          /\ new \in members[Host] \ banned[Host]
          /\ \/ busy[old].op = "owner leaving"
             \/ offer = [from |-> old, to |-> new]
OwnerHandsOver == [][HandedOn]_vars

(* When nothing is under way, and no mirror refused what a moderator did,    *)
(* every mirror shows the owner and the members of the host, and the host    *)
(* counts for members elsewhere just those who have the room.               *)
Quiet ==
    /\ \A u \in Users : busy[u] = Idle
    /\ \A g \in Mirrors : up[g] = <<>> /\ down[g] = <<>> /\ evicting[g] = {}
InRoom(g) == members[g] \cup (Visible(g) \ departed[g])
MirrorsAgree ==
    Quiet /\ ignored = {} =>
      \A g \in Mirrors :
        /\ members[g] = {u \in fed[Host] : Home[u] = g}
        /\ Open(g) => creator[g] = creator[Host] /\ InRoom(g) = InRoom(Host)
=============================================================================
