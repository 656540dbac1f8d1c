---------------------------- MODULE RoomMessages ----------------------------
(***************************************************************************)
(* What the members of one room on several gateways read.  The room lives  *)
(* on its host; every other member gateway keeps a mirror with its own     *)
(* tables of messages, pins, reactions and mutes.  A member writes to the  *)
(* tables of their own gateway; a mirror relays the change to the host,    *)
(* the host applies it to its own tables and relays it to the other        *)
(* mirrors.  A relay that a peer did not take waits in pending_relays and  *)
(* is posted again, after relays that were made later, until it is a day   *)
(* old.                                                                    *)
(*                                                                         *)
(* Who is a member does not change here (RoomMembership has that).         *)
(***************************************************************************)
EXTENDS Integers, Sequences, SequencesExt

CONSTANTS
    Gateways, Host,     \* the member gateways, and the one that hosts the room
    Users, Home, Owner, \* the members, the gateway of each, the room's owner
    Msgs, Author,       \* the ids of the messages, and who writes each
    Moderated,          \* the members the owner may mute
    MaxEdits,           \* bound: edits of one message
    MaxCommands,        \* bound: commands of the members
    MaxFails            \* bound: POSTs, or answers to them, that are lost

ASSUME RoomAssumption ==
    /\ Host \in Gateways
    /\ Home \in [Users -> Gateways]
    /\ Author \in [Msgs -> Users]
    /\ Owner \in Users /\ Home[Owner] = Host
    /\ Moderated \subseteq Users \ {Owner}
    /\ MaxEdits \in Nat /\ MaxCommands \in Nat /\ MaxFails \in Nat

VARIABLES
    row,      \* row[g][m]: the version of m in g's messages table, or Absent
    pins,     \* pins[g]: the messages g's pins table holds
    reacted,  \* reacted[g]: the pairs <<message, member>> of g's reactions
    muted,    \* muted[g]: the members g holds muted
    seen,     \* seen[g]: the messages whose relay id g has recorded
    link,     \* link[f, g]: the relays f is about to POST to g, in order
    queued,   \* queued[f, g]: the rows of pending_relays of f for g
    commands, fails,
    gone,     \* history: gone[g], the messages deleted from g's table
    refused,  \* history: the messages the host refused
    swept     \* history: swept[f, g], those whose row for g expired before g had them

tables == <<row, pins, reacted, muted>>
wire == <<link, queued>>
history == <<gone, refused>>
vars == <<tables, seen, wire, commands, fails, history, swept>>

Absent == -1
Mirrors == Gateways \ {Host}

\* A mirror has the host's address for every member; the host has them all.
Links == (Mirrors \X {Host}) \cup ({Host} \X Mirrors)

Written == {m \in Msgs : row[Home[Author[m]]][m] # Absent \/ m \in gone[Home[Author[m]]]}

Relay ==
    [kind : {"message", "delete"}, by : Users, m : Msgs]
      \cup [kind : {"edit"}, by : Users, m : Msgs, v : 0..MaxEdits]
      \cup [kind : {"add", "remove"}, by : Users, m : Msgs]
      \cup [kind : {"pin", "unpin"}, by : Users, m : Msgs]
      \cup [kind : {"mute", "unmute"}, by : Users, who : Users]

TypeOK ==
    /\ row \in [Gateways -> [Msgs -> Absent..MaxEdits]]
    /\ pins \in [Gateways -> SUBSET Msgs]
    /\ reacted \in [Gateways -> SUBSET (Msgs \X Users)]
    /\ muted \in [Gateways -> SUBSET Moderated]
    /\ seen \in [Gateways -> SUBSET Msgs]
    /\ link \in [Links -> Seq(Relay)]
    /\ queued \in [Links -> Seq(Relay)]
    /\ commands \in 0..MaxCommands
    /\ fails \in 0..MaxFails
    /\ gone \in [Gateways -> SUBSET Msgs]
    /\ refused \in SUBSET Msgs
    /\ swept \in [Links -> SUBSET Msgs]

Init ==
    /\ row = [g \in Gateways |-> [m \in Msgs |-> Absent]]
    /\ pins = [g \in Gateways |-> {}]
    /\ reacted = [g \in Gateways |-> {}]
    /\ muted = [g \in Gateways |-> {}]
    /\ seen = [g \in Gateways |-> {}]
    /\ link = [l \in Links |-> <<>>]
    /\ queued = [l \in Links |-> <<>>]
    /\ commands = 0
    /\ fails = 0
    /\ gone = [g \in Gateways |-> {}]
    /\ refused = {}
    /\ swept = [l \in Links |-> {}]

-----------------------------------------------------------------------------
(* What a gateway does to its own tables.                                  *)

\* INSERT OR IGNORE: a row that is there keeps its text.
SaveMessage(g, m) ==
    /\ row' = [row EXCEPT ![g][m] = IF @ = Absent THEN 0 ELSE @]
    /\ UNCHANGED <<pins, reacted, muted, gone>>

\* UPDATE of no row changes nothing; an older edit replaces a newer one.
UpdateMessage(g, m, v) ==
    /\ row' = [row EXCEPT ![g][m] = IF @ = Absent THEN @ ELSE v]
    /\ UNCHANGED <<pins, reacted, muted, gone>>

\* The row and what hangs off it.
DeleteMessage(g, m) ==
    /\ row' = [row EXCEPT ![g][m] = Absent]
    /\ pins' = [pins EXCEPT ![g] = @ \ {m}]
    /\ reacted' = [reacted EXCEPT ![g] = {p \in @ : p[1] # m}]
    /\ gone' = IF row[g][m] = Absent THEN gone ELSE [gone EXCEPT ![g] = @ \cup {m}]
    /\ UNCHANGED muted

\* Neither a reaction nor a pin asks whether the message is there.
SetReaction(g, m, u, on) ==
    /\ reacted' = [reacted EXCEPT ![g] = IF on THEN @ \cup {<<m, u>>} ELSE @ \ {<<m, u>>}]
    /\ UNCHANGED <<row, pins, muted, gone>>

SetPin(g, m, on) ==
    /\ pins' = [pins EXCEPT ![g] = IF on THEN @ \cup {m} ELSE @ \ {m}]
    /\ UNCHANGED <<row, reacted, muted, gone>>

SetMute(g, u, on) ==
    /\ muted' = [muted EXCEPT ![g] = IF on THEN @ \cup {u} ELSE @ \ {u}]
    /\ UNCHANGED <<row, pins, reacted, gone>>

\* One relay to every gateway g knows a member on, but those of `except`.
FanOut(links, g, r, except) ==
    [l \in Links |-> IF l[1] = g /\ l[2] \notin except THEN Append(links[l], r) ELSE links[l]]

-----------------------------------------------------------------------------
(* The members' commands, each at the member's own gateway.                *)

Command(g, r) ==
    /\ commands < MaxCommands
    /\ commands' = commands + 1
    /\ link' = FanOut(link, g, r, {})
    /\ UNCHANGED <<seen, queued, fails, refused, swept>>

Send(m) ==
    LET u == Author[m] IN
    /\ m \notin Written
    /\ u \notin muted[Home[u]]
    /\ SaveMessage(Home[u], m)
    /\ Command(Home[u], [kind |-> "message", by |-> u, m |-> m])

\* Only its author edits a message, and not while muted.
Edit(m) ==
    LET u == Author[m]
        v == row[Home[u]][m] + 1 IN
    /\ row[Home[u]][m] # Absent
    /\ v <= MaxEdits
    /\ u \notin muted[Home[u]]
    /\ UpdateMessage(Home[u], m, v)
    /\ Command(Home[u], [kind |-> "edit", by |-> u, m |-> m, v |-> v])

\* Only its author deletes a message; a muted author still may.
Delete(m) ==
    LET u == Author[m] IN
    /\ row[Home[u]][m] # Absent
    /\ DeleteMessage(Home[u], m)
    /\ Command(Home[u], [kind |-> "delete", by |-> u, m |-> m])

\* A member reacts to what their gateway has shown them, also when it has
\* been deleted since.
React(u, m, on) ==
    LET g == Home[u] IN
    /\ row[g][m] # Absent \/ m \in gone[g]
    /\ u \notin muted[g]
    /\ SetReaction(g, m, u, on)
    /\ Command(g, [kind |-> IF on THEN "add" ELSE "remove", by |-> u, m |-> m])

Pin(m, on) ==
    /\ row[Host][m] # Absent \/ m \in gone[Host]
    /\ SetPin(Host, m, on)
    /\ Command(Host, [kind |-> IF on THEN "pin" ELSE "unpin", by |-> Owner, m |-> m])

\* Mutant: nothing keeps the owner from being muted.
MuteAnyone(u, on) ==
    /\ SetMute(Host, u, on)
    /\ Command(Host, [kind |-> IF on THEN "mute" ELSE "unmute", by |-> Owner, who |-> u])

Mute(u, on) ==
    /\ u \in Moderated
    /\ SetMute(Host, u, on)
    /\ Command(Host, [kind |-> IF on THEN "mute" ELSE "unmute", by |-> Owner, who |-> u])

-----------------------------------------------------------------------------
(* A relay at the gateway it is posted to.  `links` is what is left to     *)
(* post without it.                                                        *)

\* A message or a reaction of a member who is muted here is answered 403.
Refuses(g, r) == r.kind \in {"message", "add", "remove"} /\ r.by \in muted[g]

\* A message that came before is answered "duplicate", whatever its nonce.
Known(g, r) == r.kind = "message" /\ r.m \in seen[g]

\* Mutant: the id of a message is recorded once the message is taken.
RecordTaken(g, r) ==
    seen' = IF r.kind = "message" /\ ~Refuses(g, r)
            THEN [seen EXCEPT ![g] = @ \cup {r.m}] ELSE seen

\* The id of a message is recorded before the message is looked at.
RecordId(g, r) ==
    seen' = IF r.kind = "message" THEN [seen EXCEPT ![g] = @ \cup {r.m}] ELSE seen

\* Mutant: an edit stays with the host.
ForwardButEdits(links, g, r) ==
    link' = IF g = Host /\ r.kind # "edit" THEN FanOut(links, g, r, {Home[r.by]}) ELSE links

\* Mutant: the host passes a relay back to where it came from.
ForwardBack(links, g, r) == link' = IF g = Host THEN FanOut(links, g, r, {}) ELSE links

\* The host passes on what it took, but not to the gateway of its author.
Forward(links, g, r) ==
    link' = IF g = Host THEN FanOut(links, g, r, {Home[r.by]}) ELSE links

HandleRoom(g, r) == r.kind = "message" /\ SaveMessage(g, r.m)
HandleEdit(g, r) == r.kind = "edit" /\ UpdateMessage(g, r.m, r.v)
HandleDelete(g, r) == r.kind = "delete" /\ DeleteMessage(g, r.m)
HandleReaction(g, r) == r.kind \in {"add", "remove"} /\ SetReaction(g, r.m, r.by, r.kind = "add")
HandlePin(g, r) == r.kind \in {"pin", "unpin"} /\ SetPin(g, r.m, r.kind = "pin")
HandleMute(g, r) == r.kind \in {"mute", "unmute"} /\ SetMute(g, r.who, r.kind = "mute")

Handle(g, r) ==
    \/ HandleRoom(g, r)
    \/ HandleEdit(g, r)
    \/ HandleDelete(g, r)
    \/ HandleReaction(g, r)
    \/ HandlePin(g, r)
    \/ HandleMute(g, r)

Answered200(g, r, links) ==
    \/ /\ Known(g, r)
       /\ link' = links
       /\ UNCHANGED <<tables, seen, history>>
    \/ /\ ~Known(g, r)
       /\ ~Refuses(g, r)
       /\ RecordId(g, r)
       /\ Handle(g, r)
       /\ Forward(links, g, r)
       /\ UNCHANGED refused

Answered403(g, r, links) ==
    /\ ~Known(g, r)
    /\ Refuses(g, r)
    /\ RecordId(g, r)
    /\ link' = links
    /\ refused' = IF r.kind = "message" /\ g = Host THEN refused \cup {r.m} ELSE refused
    /\ UNCHANGED <<tables, gone>>

-----------------------------------------------------------------------------
(* Posting a relay, and posting a queued one again.                        *)

\* Mutant: a room message is not one of the relays worth a retry.
QueueChanges(l, r) ==
    queued' = IF r.kind = "message" THEN queued ELSE [queued EXCEPT ![l] = Append(@, r)]

Queue(l, r) == queued' = [queued EXCEPT ![l] = Append(@, r)]
Fail == fails < MaxFails /\ fails' = fails + 1

Post(l) ==
    LET r == Head(link[l])
        rest == [link EXCEPT ![l] = Tail(@)] IN
    /\ link[l] # <<>>
    /\ \/ Answered200(l[2], r, rest) /\ UNCHANGED queued
       \/ Answered403(l[2], r, rest) /\ Queue(l, r)
    /\ UNCHANGED <<commands, fails, swept>>

\* The POST does not reach the peer, or its answer does not come back.
PostFails(l) ==
    LET r == Head(link[l])
        rest == [link EXCEPT ![l] = Tail(@)] IN
    /\ link[l] # <<>>
    /\ Fail
    /\ Queue(l, r)
    /\ \/ link' = rest /\ UNCHANGED <<tables, seen, history>>
       \/ Answered200(l[2], r, rest)
    /\ UNCHANGED <<commands, swept>>

Unqueue(l, i) == queued' = [queued EXCEPT ![l] = RemoveAt(@, i)]

\* Rows are posted again in any order (each has its own back-off), each time
\* signed afresh with a new nonce.
Retry(l, i) ==
    /\ \/ Answered200(l[2], queued[l][i], link) /\ Unqueue(l, i)
       \/ Answered403(l[2], queued[l][i], link) /\ UNCHANGED queued
    /\ UNCHANGED <<commands, fails, swept>>

\* The answer to a retry does not come back: the row stays.
RetryFails(l, i) ==
    /\ Fail
    /\ Answered200(l[2], queued[l][i], link)
    /\ UNCHANGED <<queued, commands, swept>>

\* A row a day old is removed, whether or not the peer has had the relay.
ExpireStale(l, i) ==
    LET r == queued[l][i] IN
    /\ Unqueue(l, i)
    /\ swept' = IF r.kind = "message" /\ r.m \notin seen[l[2]]
                THEN [swept EXCEPT ![l] = @ \cup {r.m}] ELSE swept
    /\ UNCHANGED <<tables, seen, link, commands, fails, history>>

Next ==
    \/ \E m \in Msgs : Send(m) \/ Edit(m) \/ Delete(m)
    \/ \E m \in Msgs, u \in Users, on \in BOOLEAN : React(u, m, on)
    \/ \E m \in Msgs, on \in BOOLEAN : Pin(m, on)
    \/ \E u \in Users, on \in BOOLEAN : Mute(u, on)
    \/ \E l \in Links : Post(l) \/ PostFails(l)
    \/ \E l \in Links : \E i \in DOMAIN queued[l] :
          Retry(l, i) \/ RetryFails(l, i) \/ ExpireStale(l, i)

Spec == Init /\ [][Next]_vars

-----------------------------------------------------------------------------
Quiet == \A l \in Links : link[l] = <<>> /\ queued[l] = <<>>
Live(g) == {m \in Msgs : row[g][m] # Absent}

\* A message deleted from a gateway's table does not come back to it, however
\* late or often its relay and those of its edits are posted again.
DeletedStaysDeleted == \A g \in Gateways : gone[g] \cap Live(g) = {}

\* What the host refused because its author was muted reaches no one else:
\* not when the row is retried after the mute, nor on a third gateway.
RefusedStaysOut ==
    \A m \in refused : \A g \in Gateways \ {Home[Author[m]]} : row[g][m] = Absent

\* The links on which a message comes from its author's gateway to g.
Route(m, g) == {<<Home[Author[m]], Host>>, <<Host, g>>} \cap Links

\* Once nothing is left to post, a message that its author has not deleted is
\* on every gateway, also when POSTs were lost, answered to no one or passed
\* each other; what alone keeps it from one is that its row, on the way there,
\* became a day old before the peer had it.
EveryMessageArrives ==
    Quiet => \A m \in Msgs, g \in Gateways :
        /\ row[Home[Author[m]]][m] # Absent /\ Author[m] \notin Moderated
        /\ \A l \in Route(m, g) : m \notin swept[l]
        => row[g][m] # Absent

\* While every POST is taken at the first try, the gateways end up with the
\* same texts, pins and reactions.  Left out: the messages and reactions of a
\* member who may be muted (their own gateway keeps what the host refuses),
\* and pins and reactions of messages that are gone.
HistoriesMeet ==
    (Quiet /\ fails = 0) => \A g \in Gateways :
        /\ \A m \in Msgs :
              /\ Author[m] \notin Moderated => row[g][m] = row[Home[Author[m]]][m]
              /\ g # Home[Author[m]] => row[g][m] = row[Host][m]
        /\ pins[g] \cap Live(g) \cap Live(Host) = pins[Host] \cap Live(g) \cap Live(Host)
        /\ \A m \in Live(g) \cap Live(Host), u \in Users \ Moderated :
              (<<m, u>> \in reacted[g]) = (<<m, u>> \in reacted[Host])
=============================================================================
