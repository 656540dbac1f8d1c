--------------------------- MODULE RelayReceiver ---------------------------
(***************************************************************************)
(* The gateway that receives relayed direct messages (_handle_relay_post)  *)
(* and hands them to its users' sockets, live or when they next register.  *)
(*                                                                         *)
(* The handler runs without yielding from its first check to the point     *)
(* where it awaits the first socket send, and, when nobody is connected,   *)
(* to its answer: those stretches are single actions.  The seen ids, the   *)
(* seen nonces and the message history are in SQLite and survive a kill;   *)
(* sockets, handlers and the offline queue are in memory and do not.       *)
(***************************************************************************)
EXTENDS RelayWire, SequencesExt

CONSTANTS
    Users,          \* the dids a relay can be addressed to
    GatewayDid,     \* this gateway's own did: no socket registers as it
    Dest,           \* the did each message is addressed to
    Socks,          \* client sockets
    Owner,          \* the did each socket registers as
    QueueCap,       \* queued messages of one recipient (100 in the code)
    RecipientCap,   \* recipients with queued messages (500)
    TotalCap,       \* queued messages over all recipients (5000)
    MayBlock,       \* bound: the users who ever block the sender
    MaxKills,       \* bound: times the process dies
    MaxRevokes      \* bound: times the owner removes the sender

ASSUME ReceiverAssumption ==
    /\ Dest \in [Msgs -> Users]
    /\ Owner \in [Socks -> Users]
    /\ QueueCap \in Nat \ {0}
    /\ RecipientCap \in Nat
    /\ TotalCap \in Nat
    /\ MayBlock \subseteq Users
    /\ MaxKills \in Nat
    /\ MaxRevokes \in Nat

VARIABLES
    seenIds,        \* relay_seen_ids and _seen_relay_ids
    seenNonces,     \* relay_seen_nonces and _seen_relay_nonces
    connected,      \* registered sockets
    handling,       \* handlers awaiting a send to live sockets
    relayQueue,     \* _relay_queue: what each recipient gets on registering
    draining,       \* what a register handler has still to send to its socket
    history,        \* the messages table, in insertion order
    emitted,        \* how often each message was pushed to its recipient
    blocked,        \* users who block the sender
    dropped,        \* messages accepted in silence because of a block
    revoked,        \* the owner has removed the sender (_revoked_dids)
    revokes,        \* how often that happened
    kills           \* how often the process died

receiverVars == <<seenIds, seenNonces, connected, handling, relayQueue,
                  draining, history, emitted, blocked, dropped, revoked,
                  revokes, kills>>

\* A handler that has recorded the request and awaits its sends: the sockets
\* not known to be gone, and whether one of them has taken the message.
Handler == [req : Request, targets : SUBSET Socks, sent : BOOLEAN]

ReceiverTypeOK ==
    /\ seenIds \subseteq Msgs
    /\ seenNonces \subseteq Nonces
    /\ connected \subseteq Socks
    /\ handling \subseteq Handler
    /\ relayQueue \in [Users -> Seq(Msgs)]
    /\ draining \in [Socks -> Seq(Msgs)]
    /\ history \in Seq(Msgs)
    /\ emitted \in [Msgs -> Nat]
    /\ blocked \subseteq Users
    /\ dropped \subseteq Msgs
    /\ revoked \in BOOLEAN
    /\ revokes \in 0..MaxRevokes
    /\ kills \in 0..MaxKills

ReceiverInit ==
    /\ seenIds = {}
    /\ seenNonces = {}
    /\ connected = {}
    /\ handling = {}
    /\ relayQueue = [u \in Users |-> <<>>]
    /\ draining = [s \in Socks |-> <<>>]
    /\ history = <<>>
    /\ emitted = [m \in Msgs |-> 0]
    /\ blocked = {}
    /\ dropped = {}
    /\ revoked = FALSE
    /\ revokes = 0
    /\ kills = 0

-----------------------------------------------------------------------------
\* The sockets a relay to u goes to: those registered as u or, for the
\* gateway's own did when there are none, every client of the gateway.
SocketsFor(u) ==
    LET own == {s \in connected : Owner[s] = u}
    IN  IF own = {} /\ u = GatewayDid THEN connected ELSE own

QueuedRecipients == {u \in Users : relayQueue[u] # <<>>}

TotalQueued == FoldFunction(LAMBDA q, n : Len(q) + n, 0, relayQueue)

HasRoom(u) ==
    /\ u \in QueuedRecipients \/ Cardinality(QueuedRecipients) < RecipientCap
    /\ TotalQueued < TotalCap

\* Append m to a recipient's queue; a full queue loses its oldest entry.
Push(q, m) ==
    Append(IF Len(q) >= QueueCap THEN Tail(q) ELSE q, m)

\* save_message is INSERT OR IGNORE on the message id.
Saved(h, m) == IF m \in ToSet(h) THEN h ELSE Append(h, m)

\* Slip: only the nonce tells a relay that was seen.
FreshByNonce(r) ==
    /\ r.nonce \notin seenNonces
    /\ seenIds' = seenIds \cup {r.id}
    /\ seenNonces' = seenNonces \cup {r.nonce}

\* Neither the message id nor the nonce has been seen; both are recorded now.
Fresh(r) ==
    /\ r.id \notin seenIds
    /\ r.nonce \notin seenNonces
    /\ seenIds' = seenIds \cup {r.id}
    /\ seenNonces' = seenNonces \cup {r.nonce}

-----------------------------------------------------------------------------
(* The outcomes of POST /relay, in the order the handler decides them.     *)

\* Over the per-address rate limit (429): nothing is recorded.
RateLimit(r) ==
    /\ r \in requests
    /\ Answer(r, FALSE)
    /\ UNCHANGED receiverVars

\* The message id was seen: answered "duplicate", a success for the sender.
AnswerDuplicate(r) ==
    /\ r \in requests
    /\ r.id \in seenIds
    /\ Answer(r, TRUE)
    /\ UNCHANGED receiverVars

\* The nonce was seen: answered "duplicate" as well, with the id recorded.
AnswerReplay(r) ==
    /\ r \in requests
    /\ r.id \notin seenIds
    /\ r.nonce \in seenNonces
    /\ seenIds' = seenIds \cup {r.id}
    /\ Answer(r, TRUE)
    /\ UNCHANGED <<seenNonces, connected, handling, relayQueue, draining,
                   history, emitted, blocked, dropped, revoked, revokes, kills>>

\* The sender was removed as a contact: refused with 403.
RefuseRevoked(r) ==
    /\ r \in requests
    /\ Fresh(r)
    /\ revoked
    /\ Answer(r, FALSE)
    /\ UNCHANGED <<connected, handling, relayQueue, draining, history,
                   emitted, blocked, dropped, revoked, revokes, kills>>

\* Slip: the block is looked at before the id is recorded.
DropUnrecorded(r) ==
    /\ r \in requests
    /\ r.id \notin seenIds
    /\ ~revoked
    /\ Dest[r.id] \in blocked
    /\ dropped' = dropped \cup {r.id}
    /\ Answer(r, TRUE)
    /\ UNCHANGED <<seenIds, seenNonces, connected, handling, relayQueue,
                   draining, history, emitted, blocked, revoked, revokes, kills>>

\* The recipient blocks the sender: accepted in silence, delivered nowhere.
DropBlocked(r) ==
    /\ r \in requests
    /\ Fresh(r)
    /\ ~revoked
    /\ Dest[r.id] \in blocked
    /\ dropped' = dropped \cup {r.id}
    /\ Answer(r, TRUE)
    /\ UNCHANGED <<connected, handling, relayQueue, draining, history,
                   emitted, blocked, revoked, revokes, kills>>

\* The recipient has sockets: the handler awaits its sends to them.
StartLive(r) ==
    /\ r \in requests
    /\ Fresh(r)
    /\ ~revoked
    /\ Dest[r.id] \notin blocked
    /\ SocketsFor(Dest[r.id]) # {}
    /\ handling' = handling \cup
         {[req |-> r, targets |-> SocketsFor(Dest[r.id]), sent |-> FALSE]}
    /\ Accept(r)
    /\ UNCHANGED <<connected, relayQueue, draining, history, emitted, blocked,
                   dropped, revoked, revokes, kills>>

\* Nobody is connected and there is room: queued, saved, answered 202.
StoreOffline(r) ==
    /\ r \in requests
    /\ Fresh(r)
    /\ ~revoked
    /\ Dest[r.id] \notin blocked
    /\ SocketsFor(Dest[r.id]) = {}
    /\ HasRoom(Dest[r.id])
    /\ relayQueue' = [relayQueue EXCEPT ![Dest[r.id]] = Push(@, r.id)]
    /\ history' = Saved(history, r.id)
    /\ Answer(r, TRUE)
    /\ UNCHANGED <<connected, handling, draining, emitted, blocked, dropped,
                   revoked, revokes, kills>>

\* Nobody is connected and the queue is full: refused with 507.  The id is
\* forgotten again, the nonce is not.
RefuseFull(r) ==
    /\ r \in requests
    /\ r.id \notin seenIds
    /\ r.nonce \notin seenNonces
    /\ ~revoked
    /\ Dest[r.id] \notin blocked
    /\ SocketsFor(Dest[r.id]) = {}
    /\ ~HasRoom(Dest[r.id])
    /\ seenNonces' = seenNonces \cup {r.nonce}
    /\ Answer(r, FALSE)
    /\ UNCHANGED <<seenIds, connected, handling, relayQueue, draining, history,
                   emitted, blocked, dropped, revoked, revokes, kills>>

-----------------------------------------------------------------------------
(* The handler's live delivery, after StartLive.                           *)

Reply2(h, ok) ==
    /\ handling' = handling \ {h}
    /\ replies' = replies \cup {[id |-> h.req.id, try |-> h.req.try, ok |-> ok]}
    /\ UNCHANGED requests

\* A send to one of the sockets succeeds.
LiveSend(h) ==
    /\ h \in handling
    /\ ~h.sent
    /\ h.targets # {}
    /\ handling' = (handling \ {h}) \cup {[h EXCEPT !.sent = TRUE]}
    /\ emitted' = [emitted EXCEPT ![h.req.id] = @ + 1]
    /\ UNCHANGED <<requests, replies, seenIds, seenNonces, connected,
                   relayQueue, draining, history, blocked, dropped, revoked,
                   revokes, kills>>

\* Every socket was tried: the message is saved and the sender gets its 200.
LiveSave(h) ==
    /\ h \in handling
    /\ h.sent
    /\ history' = Saved(history, h.req.id)
    /\ Reply2(h, TRUE)
    /\ UNCHANGED <<seenIds, seenNonces, connected, relayQueue, draining,
                   emitted, blocked, dropped, revoked, revokes, kills>>

\* Every send failed: the handler falls through to the offline queue, with
\* whatever has happened to the recipient's sockets meanwhile.
LiveFailStore(h) ==
    /\ h \in handling
    /\ ~h.sent
    /\ h.targets = {}
    /\ HasRoom(Dest[h.req.id])
    /\ relayQueue' = [relayQueue EXCEPT ![Dest[h.req.id]] = Push(@, h.req.id)]
    /\ history' = Saved(history, h.req.id)
    /\ Reply2(h, TRUE)
    /\ UNCHANGED <<seenIds, seenNonces, connected, draining, emitted, blocked,
                   dropped, revoked, revokes, kills>>

LiveFailFull(h) ==
    /\ h \in handling
    /\ ~h.sent
    /\ h.targets = {}
    /\ ~HasRoom(Dest[h.req.id])
    /\ seenIds' = seenIds \ {h.req.id}
    /\ Reply2(h, FALSE)
    /\ UNCHANGED <<seenNonces, connected, relayQueue, draining, history,
                   emitted, blocked, dropped, revoked, revokes, kills>>

-----------------------------------------------------------------------------
(* Sockets.                                                                *)

\* Slip: a socket registers and the queue is left alone.
RegisterOnly(s) ==
    /\ s \notin connected
    /\ draining[s] = <<>>
    /\ connected' = connected \cup {s}
    /\ UNCHANGED <<requests, replies, seenIds, seenNonces, handling, relayQueue,
                   draining, history, emitted, blocked, dropped, revoked,
                   revokes, kills>>

\* Slip: the queue is read and not taken.
RegisterReading(s) ==
    /\ s \notin connected
    /\ draining[s] = <<>>
    /\ connected' = connected \cup {s}
    /\ draining' = [draining EXCEPT ![s] = relayQueue[Owner[s]]]
    /\ UNCHANGED <<requests, replies, seenIds, seenNonces, handling, relayQueue,
                   history, emitted, blocked, dropped, revoked, revokes, kills>>

\* A socket registers: it takes its identity's whole queue and sends it on,
\* one await per message.
Register(s) ==
    /\ s \notin connected
    /\ draining[s] = <<>>
    /\ connected' = connected \cup {s}
    /\ draining' = [draining EXCEPT ![s] = relayQueue[Owner[s]]]
    /\ relayQueue' = [relayQueue EXCEPT ![Owner[s]] = <<>>]
    /\ UNCHANGED <<requests, replies, seenIds, seenNonces, handling, history,
                   emitted, blocked, dropped, revoked, revokes, kills>>

DrainOne(s) ==
    /\ draining[s] # <<>>
    /\ s \in connected
    /\ emitted' = [emitted EXCEPT ![Head(draining[s])] = @ + 1]
    /\ draining' = [draining EXCEPT ![s] = Tail(@)]
    /\ UNCHANGED <<requests, replies, seenIds, seenNonces, connected, handling,
                   relayQueue, history, blocked, dropped, revoked, revokes,
                   kills>>

\* Slips: what is left goes behind what was queued since, or goes back as one
\* entry.
DrainFailBehind(s) ==
    /\ draining[s] # <<>>
    /\ s \notin connected
    /\ relayQueue' = [relayQueue EXCEPT ![Owner[s]] = @ \o draining[s]]
    /\ draining' = [draining EXCEPT ![s] = <<>>]
    /\ UNCHANGED <<requests, replies, seenIds, seenNonces, connected, handling,
                   history, emitted, blocked, dropped, revoked, revokes, kills>>

DrainFailNested(s) ==
    /\ draining[s] # <<>>
    /\ s \notin connected
    /\ relayQueue' = [relayQueue EXCEPT ![Owner[s]] = Append(@, draining[s])]
    /\ draining' = [draining EXCEPT ![s] = <<>>]
    /\ UNCHANGED <<requests, replies, seenIds, seenNonces, connected, handling,
                   history, emitted, blocked, dropped, revoked, revokes, kills>>

\* A send of the drain raises: what is left goes back in front of anything
\* queued since.
DrainFail(s) ==
    /\ draining[s] # <<>>
    /\ s \notin connected
    /\ relayQueue' = [relayQueue EXCEPT ![Owner[s]] = draining[s] \o @]
    /\ draining' = [draining EXCEPT ![s] = <<>>]
    /\ UNCHANGED <<requests, replies, seenIds, seenNonces, connected, handling,
                   history, emitted, blocked, dropped, revoked, revokes, kills>>

\* A socket goes away: sends to it fail from now on.
Disconnect(s) ==
    /\ s \in connected
    /\ connected' = connected \ {s}
    /\ handling' = {[h EXCEPT !.targets = @ \ {s}] : h \in handling}
    /\ UNCHANGED <<requests, replies, seenIds, seenNonces, relayQueue,
                   draining, history, emitted, blocked, dropped, revoked,
                   revokes, kills>>

-----------------------------------------------------------------------------
(* The recipient's owner, and the process.                                 *)

\* A user blocks or unblocks the sender.
ToggleBlock(u) ==
    /\ blocked' = IF u \in blocked THEN blocked \ {u} ELSE blocked \cup {u}
    /\ UNCHANGED <<requests, replies, seenIds, seenNonces, connected, handling,
                   relayQueue, draining, history, emitted, dropped, revoked,
                   revokes, kills>>

\* The owner removes the sender from the contacts.
RevokeSender ==
    /\ ~revoked
    /\ revokes < MaxRevokes
    /\ revoked' = TRUE
    /\ revokes' = revokes + 1
    /\ UNCHANGED <<requests, replies, seenIds, seenNonces, connected, handling,
                   relayQueue, draining, history, emitted, blocked, dropped,
                   kills>>

\* The owner and the sender are contacts again: the revocation is lifted.
ReAddSender ==
    /\ revoked
    /\ revoked' = FALSE
    /\ UNCHANGED <<requests, replies, seenIds, seenNonces, connected, handling,
                   relayQueue, draining, history, emitted, blocked, dropped,
                   revokes, kills>>

\* What a kill takes away.
LoseMemory ==
    /\ kills < MaxKills
    /\ kills' = kills + 1
    /\ connected' = {}
    /\ handling' = {}
    /\ relayQueue' = [u \in Users |-> <<>>]
    /\ draining' = [s \in Socks |-> <<>>]

\* Slip: the seen ids are in memory only.
KillForgets ==
    /\ LoseMemory
    /\ seenIds' = {}
    /\ UNCHANGED <<requests, replies, seenNonces, history, emitted, blocked,
                   dropped, revoked, revokes>>

\* The process dies and is started again.
Kill ==
    /\ LoseMemory
    /\ UNCHANGED <<requests, replies, seenIds, seenNonces, history, emitted,
                   blocked, dropped, revoked, revokes>>

\* The process dies inside a handler: the id and the nonce are committed, the
\* message is not.
KillAfterRecord(r) ==
    /\ r \in requests
    /\ Fresh(r)
    /\ LoseMemory
    /\ Accept(r)
    /\ UNCHANGED <<history, emitted, blocked, dropped, revoked, revokes>>

-----------------------------------------------------------------------------
HandleRelay ==
    \E r \in requests :
        \/ RateLimit(r)
        \/ AnswerDuplicate(r)
        \/ AnswerReplay(r)
        \/ RefuseRevoked(r)
        \/ DropBlocked(r)
        \/ StartLive(r)
        \/ StoreOffline(r)
        \/ RefuseFull(r)
        \/ KillAfterRecord(r)

LiveDelivery ==
    \E h \in handling :
        LiveSend(h) \/ LiveSave(h) \/ LiveFailStore(h) \/ LiveFailFull(h)

Sockets ==
    \E s \in Socks :
        Register(s) \/ DrainOne(s) \/ DrainFail(s) \/ Disconnect(s)

OwnerActs ==
    RevokeSender \/ ReAddSender \/ \E u \in MayBlock : ToggleBlock(u)

ReceiverNext ==
    HandleRelay \/ LiveDelivery \/ Sockets \/ OwnerActs \/ Kill

-----------------------------------------------------------------------------
(* The receiver by itself, sent any relay at any time: first sends, retries *)
(* and replays alike.  Handlers take one request at a time, so there need   *)
(* never be two on the wire.                                                *)

PeerPosts(r) ==
    /\ requests = {}
    /\ requests' = {r}
    /\ replies' = {}
    /\ UNCHANGED receiverVars

ReceiverOpenNext == ReceiverNext \/ \E r \in Request : PeerPosts(r)

ReceiverOpenInit == WireInit /\ ReceiverInit

receiverOpenVars == <<wireVars, receiverVars>>

ReceiverSpec == ReceiverOpenInit /\ [][ReceiverOpenNext]_receiverOpenVars

\* Clients come and go: a client that is away comes back, no connection lasts
\* for ever, one that keeps coming back stays long enough for a send, and a
\* handler that is awaiting a send gets on with it.
ClientsComeAndGo ==
    /\ \A s \in Socks :
        /\ WF_receiverOpenVars(Register(s))
        /\ WF_receiverOpenVars(Disconnect(s))
        /\ SF_receiverOpenVars(DrainOne(s))
        /\ WF_receiverOpenVars(DrainFail(s))
    /\ WF_receiverOpenVars(LiveDelivery)

FairReceiverSpec == ReceiverSpec /\ ClientsComeAndGo

-----------------------------------------------------------------------------
(* Properties.                                                             *)

\* The wire and the receiver's variables keep to their types.
ReceiverOpenTypeOK == WireTypeOK /\ ReceiverTypeOK

\* A message is pushed to its recipient at most once, live or from the queue,
\* however often it is relayed and whatever fails on the way: what the dedup of
\* message ids in _handle_relay_post is for.
AtMostOnce == \A m \in Msgs : emitted[m] <= 1

\* The messages waiting in an offline queue or in a drain of one.
Queued ==
    {m \in Msgs : \/ \E u \in Users : m \in ToSet(relayQueue[u])
                  \/ \E s \in Socks : m \in ToSet(draining[s])}

Distinct(q) == \A i, j \in DOMAIN q : q[i] = q[j] => i = j

\* No message is in two places of the queues, or twice in one.
QueuesDisjoint ==
    /\ \A u \in Users : Distinct(relayQueue[u])
    /\ \A s \in Socks : Distinct(draining[s])
    /\ \A u, v \in Users :
          u # v => ToSet(relayQueue[u]) \cap ToSet(relayQueue[v]) = {}
    /\ \A s, t \in Socks :
          s # t => ToSet(draining[s]) \cap ToSet(draining[t]) = {}
    /\ \A u \in Users, s \in Socks :
          ToSet(relayQueue[u]) \cap ToSet(draining[s]) = {}

\* A message is in one handler at most, and then in no queue and seen; it is
\* not pushed before the handler's first successful send.
HandledOnce ==
    /\ \A h, k \in handling : h.req.id = k.req.id => h = k
    /\ \A h \in handling :
          /\ h.req.id \in seenIds
          /\ h.req.id \notin Queued
          /\ ~h.sent => emitted[h.req.id] = 0

\* A message that is queued or was pushed is seen, and never both.
SeenIfAnywhere ==
    \A m \in Msgs :
        /\ m \in Queued => m \in seenIds /\ emitted[m] = 0
        /\ emitted[m] # 0 => m \in seenIds

\* Why AtMostOnce holds: a message that is not yet pushed is in one place at
\* most, in one handler, once in one queue or once in one drain, and its id is
\* seen as long as it is anywhere or was pushed.
OneCopy ==
    /\ QueuesDisjoint
    /\ HandledOnce
    /\ SeenIfAnywhere
    /\ AtMostOnce

\* A message dropped because its recipient blocks the sender stays dropped: no
\* retry brings it back after an unblock.
DroppedStaysDropped ==
    \A m \in dropped : emitted[m] = 0 /\ m \notin ToSet(history)

Before(m, n) == \E i, j \in DOMAIN history :
                    i < j /\ history[i] = m /\ history[j] = n

\* A recipient's queue, what is being drained before what is queued, is in the
\* order in which the messages were taken: a drain that fails half way puts the
\* rest back in front of anything queued since.
QueueInOrder ==
    \A s \in Socks :
        LET q == draining[s] \o relayQueue[Owner[s]]
        IN  \A i, j \in DOMAIN q : i < j => Before(q[i], q[j])

\* A queued message leaves the queue in the end, by being sent to the recipient
\* who comes back: "queue + store for when they reconnect".
QueuedIsDrained ==
    \A m \in {n \in Msgs : \E s \in Socks : Owner[s] = Dest[n]} :
        m \in Queued ~> m \notin Queued
=============================================================================
