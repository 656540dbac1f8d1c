------------------------ MODULE RelayReceiver_proofs ------------------------
(***************************************************************************)
(* Proofs about RelayReceiver, for any set of messages, recipients and     *)
(* sockets and any bounds: the variables keep their types, a message is    *)
(* pushed to its recipient at most once, what was dropped stays dropped,   *)
(* and a recipient's queue is in the order in which messages were taken.   *)
(***************************************************************************)
EXTENDS RelayReceiver, TLAPS

-----------------------------------------------------------------------------
(* Sequences without repetition.                                           *)

\* Taking the head of a sequence without repetition leaves one without the head.
LEMMA TailDistinct ==
    ASSUME NEW S, NEW q \in Seq(S), q # <<>>, Distinct(q)
    PROVE  /\ Head(q) \in ToSet(q)
           /\ Tail(q) \in Seq(S)
           /\ Distinct(Tail(q))
           /\ ToSet(Tail(q)) \subseteq ToSet(q)
           /\ Head(q) \notin ToSet(Tail(q))
<1>1. /\ Tail(q) \in Seq(S)
      /\ Len(Tail(q)) = Len(q) - 1
      /\ \A i \in 1..Len(Tail(q)) : Tail(q)[i] = q[i + 1]
      /\ Head(q) = q[1]
      /\ Len(q) >= 1
  OBVIOUS
<1>2. DOMAIN q = 1..Len(q) /\ DOMAIN Tail(q) = 1..Len(Tail(q))
  BY <1>1
<1>3. Head(q) \in ToSet(q)
  BY <1>1, <1>2 DEF ToSet
<1>4. Distinct(Tail(q))
  BY <1>1, <1>2 DEF Distinct
<1>5. ToSet(Tail(q)) \subseteq ToSet(q)
  BY <1>1, <1>2 DEF ToSet
<1>6. Head(q) \notin ToSet(Tail(q))
  BY <1>1, <1>2 DEF ToSet, Distinct
<1> QED
  BY <1>1, <1>3, <1>4, <1>5, <1>6

\* Appending something new to a sequence without repetition.
LEMMA AppendDistinct ==
    ASSUME NEW S, NEW q \in Seq(S), NEW m \in S, Distinct(q), m \notin ToSet(q)
    PROVE  /\ Append(q, m) \in Seq(S)
           /\ Distinct(Append(q, m))
           /\ ToSet(Append(q, m)) \subseteq ToSet(q) \cup {m}
<1>1. /\ Append(q, m) \in Seq(S)
      /\ Len(Append(q, m)) = Len(q) + 1
      /\ \A i \in 1..Len(q) : Append(q, m)[i] = q[i]
      /\ Append(q, m)[Len(q) + 1] = m
      /\ DOMAIN q = 1..Len(q)
      /\ DOMAIN Append(q, m) = 1..(Len(q) + 1)
  OBVIOUS
<1>2. \A i \in 1..(Len(q) + 1) : i \in 1..Len(q) \/ i = Len(q) + 1
  BY <1>1
<1>3. Distinct(Append(q, m))
  BY <1>1, <1>2 DEF Distinct, ToSet
<1>4. ToSet(Append(q, m)) \subseteq ToSet(q) \cup {m}
  BY <1>1, <1>2 DEF ToSet
<1> QED
  BY <1>1, <1>3, <1>4

\* Putting one sequence without repetition in front of another they share
\* nothing with.
LEMMA ConcatDistinct ==
    ASSUME NEW S, NEW p \in Seq(S), NEW q \in Seq(S),
           Distinct(p), Distinct(q), ToSet(p) \cap ToSet(q) = {}
    PROVE  /\ p \o q \in Seq(S)
           /\ Distinct(p \o q)
           /\ ToSet(p \o q) \subseteq ToSet(p) \cup ToSet(q)
<1>1. /\ p \o q \in Seq(S)
      /\ Len(p \o q) = Len(p) + Len(q)
      /\ DOMAIN (p \o q) = 1..(Len(p) + Len(q))
      /\ DOMAIN p = 1..Len(p)
      /\ DOMAIN q = 1..Len(q)
      /\ Len(p) \in Nat /\ Len(q) \in Nat
      /\ \A i \in 1..Len(p) : (p \o q)[i] = p[i]
      /\ \A i \in 1..(Len(p) + Len(q)) :
           i > Len(p) => (p \o q)[i] = q[i - Len(p)]
  OBVIOUS
<1>2. \A i \in 1..(Len(p) + Len(q)) :
        \/ i \in 1..Len(p)
        \/ i > Len(p) /\ i - Len(p) \in 1..Len(q)
  BY <1>1
<1>3. ToSet(p \o q) \subseteq ToSet(p) \cup ToSet(q)
  BY <1>1, <1>2 DEF ToSet
<1>4. Distinct(p \o q)
  <2> SUFFICES ASSUME NEW i \in DOMAIN (p \o q), NEW j \in DOMAIN (p \o q),
                      (p \o q)[i] = (p \o q)[j]
               PROVE  i = j
    BY DEF Distinct
  <2>1. CASE i \in 1..Len(p) /\ j \in 1..Len(p)
    BY <1>1, <2>1 DEF Distinct
  <2>2. CASE i > Len(p) /\ j > Len(p)
    <3>1. i - Len(p) \in DOMAIN q /\ j - Len(p) \in DOMAIN q
      BY <1>1, <1>2, <2>2
    <3>2. q[i - Len(p)] = q[j - Len(p)]
      BY <1>1, <2>2
    <3>3. i - Len(p) = j - Len(p)
      BY <3>1, <3>2 DEF Distinct
    <3> QED
      BY <1>1, <3>3
  <2>3. CASE i \in 1..Len(p) /\ j > Len(p)
    <3>1. p[i] \in ToSet(p) /\ q[j - Len(p)] \in ToSet(q)
      BY <1>1, <1>2, <2>3 DEF ToSet
    <3> QED
      BY <1>1, <2>3, <3>1
  <2>4. CASE i > Len(p) /\ j \in 1..Len(p)
    <3>1. p[j] \in ToSet(p) /\ q[i - Len(p)] \in ToSet(q)
      BY <1>1, <1>2, <2>4 DEF ToSet
    <3> QED
      BY <1>1, <2>4, <3>1
  <2> QED
    BY <1>1, <1>2, <2>1, <2>2, <2>3, <2>4
<1> QED
  BY <1>1, <1>3, <1>4

\* What Push does to a recipient's queue.
LEMMA PushDistinct ==
    ASSUME ReceiverAssumption, NEW q \in Seq(Msgs), NEW m \in Msgs,
           Distinct(q), m \notin ToSet(q)
    PROVE  /\ Push(q, m) \in Seq(Msgs)
           /\ Distinct(Push(q, m))
           /\ ToSet(Push(q, m)) \subseteq ToSet(q) \cup {m}
<1>1. CASE Len(q) >= QueueCap
  <2>1. q # <<>>
    BY <1>1 DEF ReceiverAssumption
  <2>2. /\ Tail(q) \in Seq(Msgs)
        /\ Distinct(Tail(q))
        /\ ToSet(Tail(q)) \subseteq ToSet(q)
    BY <2>1, TailDistinct
  <2> QED
    BY <1>1, <2>2, AppendDistinct DEF Push
<1>2. CASE ~(Len(q) >= QueueCap)
  BY <1>2, AppendDistinct DEF Push
<1> QED
  BY <1>1, <1>2

-----------------------------------------------------------------------------
(* The type invariant.                                                     *)

\* What the parts of a request and of a handler are.
LEMMA RequestParts ==
    ASSUME ReceiverAssumption, NEW r \in Request
    PROVE  /\ r.id \in Msgs /\ r.nonce \in Nonces /\ r.try \in Tries
           /\ Dest[r.id] \in Users
BY DEF Request, ReceiverAssumption

LEMMA HandlerParts ==
    ASSUME NEW h \in Handler
    PROVE  /\ h.req \in Request
           /\ h.targets \in SUBSET Socks
           /\ h.sent \in BOOLEAN
BY DEF Handler

\* A handler one of whose sends succeeded, or one of whose sockets is gone.
LEMMA HandlerSent ==
    ASSUME NEW h \in Handler
    PROVE  /\ [h EXCEPT !.sent = TRUE] \in Handler
           /\ [h EXCEPT !.sent = TRUE].req = h.req
           /\ [h EXCEPT !.sent = TRUE].sent
BY DEF Handler

LEMMA HandlerLess ==
    ASSUME NEW h \in Handler, NEW s
    PROVE  /\ [h EXCEPT !.targets = @ \ {s}] \in Handler
           /\ [h EXCEPT !.targets = @ \ {s}].req = h.req
           /\ [h EXCEPT !.targets = @ \ {s}].sent = h.sent
BY DEF Handler

\* An answer is a reply to a request.
LEMMA AnswerType ==
    ASSUME WireTypeOK, NEW r \in Request, NEW ok \in BOOLEAN, Answer(r, ok)
    PROVE  WireTypeOK'
<1>1. [id |-> r.id, try |-> r.try, ok |-> ok] \in Reply
  BY DEF Request, Reply
<1> QED
  BY <1>1 DEF WireTypeOK, Answer

\* The sockets a relay goes to are sockets.
LEMMA SocketsForType ==
    ASSUME ReceiverTypeOK, NEW u \in Users
    PROVE  SocketsFor(u) \subseteq Socks
BY DEF SocketsFor, ReceiverTypeOK

\* Pushing onto a queue of messages gives a queue of messages.
LEMMA PushType ==
    ASSUME ReceiverAssumption, NEW q \in Seq(Msgs), NEW m \in Msgs
    PROVE  Push(q, m) \in Seq(Msgs)
BY DEF Push, ReceiverAssumption

LEMMA SavedType ==
    ASSUME NEW h \in Seq(Msgs), NEW m \in Msgs
    PROVE  Saved(h, m) \in Seq(Msgs)
BY DEF Saved

LEMMA LoseMemoryType ==
    ASSUME ReceiverAssumption, ReceiverTypeOK, LoseMemory
    PROVE  /\ connected' = {} /\ handling' = {}
           /\ relayQueue' \in [Users -> Seq(Msgs)]
           /\ draining' \in [Socks -> Seq(Msgs)]
           /\ kills' \in 0..MaxKills
<1>1. <<>> \in Seq(Msgs)
  OBVIOUS
<1>2. kills' \in 0..MaxKills
  BY DEF LoseMemory, ReceiverTypeOK, ReceiverAssumption
<1> QED
  BY <1>1, <1>2 DEF LoseMemory

LEMMA TypeInit == ReceiverAssumption /\ ReceiverOpenInit => ReceiverOpenTypeOK
<1> SUFFICES ASSUME ReceiverAssumption, ReceiverOpenInit
             PROVE  ReceiverOpenTypeOK
  OBVIOUS
<1>1. WireTypeOK
  BY DEF ReceiverOpenInit, WireInit, WireTypeOK
<1>2. <<>> \in Seq(Msgs)
  OBVIOUS
<1>3. /\ relayQueue \in [Users -> Seq(Msgs)]
      /\ draining \in [Socks -> Seq(Msgs)]
      /\ history \in Seq(Msgs)
  BY <1>2 DEF ReceiverOpenInit, ReceiverInit
<1>4. emitted \in [Msgs -> Nat]
  BY DEF ReceiverOpenInit, ReceiverInit
<1>5. revokes \in 0..MaxRevokes /\ kills \in 0..MaxKills
  BY DEF ReceiverOpenInit, ReceiverInit, ReceiverAssumption
<1>6. ReceiverTypeOK
  BY <1>3, <1>4, <1>5 DEF ReceiverOpenInit, ReceiverInit, ReceiverTypeOK
<1> QED
  BY <1>1, <1>6 DEF ReceiverOpenTypeOK

LEMMA TypeStep ==
    ASSUME ReceiverAssumption, ReceiverOpenTypeOK,
           [ReceiverOpenNext]_receiverOpenVars
    PROVE  ReceiverOpenTypeOK'
<1>0. WireTypeOK /\ ReceiverTypeOK
  BY DEF ReceiverOpenTypeOK
<1> USE DEF ReceiverTypeOK, receiverVars
<1> DEFINE OK == WireTypeOK' /\ ReceiverTypeOK'
<1> SUFFICES OK
  BY DEF ReceiverOpenTypeOK
<1>1. ASSUME NEW r \in requests,
             \/ RateLimit(r) \/ AnswerDuplicate(r) \/ AnswerReplay(r)
             \/ RefuseRevoked(r) \/ DropBlocked(r) \/ RefuseFull(r)
      PROVE  OK
  <2>1. r \in Request
    BY <1>0 DEF WireTypeOK
  <2>2. WireTypeOK'
    BY <1>0, <1>1, <2>1, AnswerType
    DEF RateLimit, AnswerDuplicate, AnswerReplay, RefuseRevoked, DropBlocked,
        RefuseFull
  <2>3. r.id \in Msgs /\ r.nonce \in Nonces
    BY <2>1, RequestParts
  <2>4. ReceiverTypeOK'
    BY <1>0, <1>1, <2>3
    DEF RateLimit, AnswerDuplicate, AnswerReplay, RefuseRevoked, DropBlocked,
        RefuseFull, Fresh
  <2> QED
    BY <2>2, <2>4
<1>2. ASSUME NEW r \in requests, StartLive(r)
      PROVE  OK
  <2>1. r \in Request /\ r.id \in Msgs /\ r.nonce \in Nonces /\ Dest[r.id] \in Users
    BY <1>0, RequestParts DEF WireTypeOK
  <2>2. [req |-> r, targets |-> SocketsFor(Dest[r.id]), sent |-> FALSE] \in Handler
    BY <1>0, <2>1, SocketsForType DEF Handler
  <2>3. handling' \subseteq Handler
    BY <1>0, <1>2, <2>2 DEF StartLive
  <2>4. WireTypeOK'
    BY <1>0, <1>2 DEF StartLive, Accept, WireTypeOK
  <2> QED
    BY <1>0, <1>2, <2>1, <2>3, <2>4 DEF StartLive, Fresh
<1>3. ASSUME NEW r \in requests, StoreOffline(r)
      PROVE  OK
  <2>1. r \in Request /\ r.id \in Msgs /\ r.nonce \in Nonces /\ Dest[r.id] \in Users
    BY <1>0, RequestParts DEF WireTypeOK
  <2>2. relayQueue' \in [Users -> Seq(Msgs)]
    BY <1>0, <1>3, <2>1, PushType DEF StoreOffline
  <2>3. history' \in Seq(Msgs)
    BY <1>0, <1>3, <2>1, SavedType DEF StoreOffline
  <2>4. WireTypeOK'
    BY <1>0, <1>3, <2>1, AnswerType DEF StoreOffline
  <2> QED
    BY <1>0, <1>3, <2>1, <2>2, <2>3, <2>4 DEF StoreOffline, Fresh
<1>4. ASSUME NEW r \in requests, KillAfterRecord(r)
      PROVE  OK
  <2>1. r.id \in Msgs /\ r.nonce \in Nonces
    BY <1>0, RequestParts DEF WireTypeOK
  <2>2. LoseMemory
    BY <1>4 DEF KillAfterRecord
  <2>3. WireTypeOK'
    BY <1>0, <1>4 DEF KillAfterRecord, Accept, WireTypeOK
  <2> QED
    BY <1>0, <1>4, <2>1, <2>2, <2>3, LoseMemoryType DEF KillAfterRecord, Fresh
<1>5. ASSUME NEW h \in handling,
             LiveSend(h) \/ LiveSave(h) \/ LiveFailStore(h) \/ LiveFailFull(h)
      PROVE  OK
  <2>1. h \in Handler /\ h.req \in Request
    BY <1>0, HandlerParts
  <2>2. h.req.id \in Msgs /\ h.req.try \in Tries /\ Dest[h.req.id] \in Users
    BY <2>1, RequestParts
  <2>3. ASSUME NEW ok \in BOOLEAN, Reply2(h, ok)
        PROVE  WireTypeOK' /\ handling' \subseteq Handler
    <3>1. [id |-> h.req.id, try |-> h.req.try, ok |-> ok] \in Reply
      BY <2>2 DEF Reply
    <3> QED
      BY <1>0, <2>3, <3>1 DEF Reply2, WireTypeOK
  <2>4. CASE LiveSend(h)
    <3>1. handling' \subseteq Handler
      BY <1>0, <2>1, <2>4, HandlerSent DEF LiveSend
    <3>2. emitted[h.req.id] + 1 \in Nat
      BY <1>0, <2>2
    <3>3. emitted' \in [Msgs -> Nat]
      BY <1>0, <2>2, <2>4, <3>2 DEF LiveSend
    <3> QED
      BY <1>0, <2>4, <3>1, <3>3 DEF LiveSend, WireTypeOK
  <2>5. CASE LiveSave(h)
    BY <1>0, <2>2, <2>3, <2>5, SavedType DEF LiveSave
  <2>6. CASE LiveFailStore(h)
    <3>1. relayQueue' \in [Users -> Seq(Msgs)]
      BY <1>0, <2>2, <2>6, PushType DEF LiveFailStore
    <3> QED
      BY <1>0, <2>2, <2>3, <2>6, <3>1, SavedType DEF LiveFailStore
  <2>7. CASE LiveFailFull(h)
    BY <1>0, <2>3, <2>7 DEF LiveFailFull
  <2> QED
    BY <1>5, <2>4, <2>5, <2>6, <2>7
<1>6. ASSUME NEW s \in Socks, Register(s)
      PROVE  OK
  <2>1. Owner[s] \in Users /\ <<>> \in Seq(Msgs)
    BY DEF ReceiverAssumption
  <2> QED
    BY <1>0, <1>6, <2>1 DEF Register, WireTypeOK
<1>7. ASSUME NEW s \in Socks, DrainOne(s)
      PROVE  OK
  <2>1. Head(draining[s]) \in Msgs /\ Tail(draining[s]) \in Seq(Msgs)
    BY <1>0, <1>7 DEF DrainOne
  <2>2. emitted[Head(draining[s])] + 1 \in Nat
    BY <1>0, <2>1
  <2>3. emitted' \in [Msgs -> Nat]
    BY <1>0, <1>7, <2>1, <2>2 DEF DrainOne
  <2>4. draining' \in [Socks -> Seq(Msgs)]
    BY <1>0, <1>7, <2>1 DEF DrainOne
  <2> QED
    BY <1>0, <1>7, <2>3, <2>4 DEF DrainOne, WireTypeOK
<1>8. ASSUME NEW s \in Socks, DrainFail(s)
      PROVE  OK
  <2>1. Owner[s] \in Users /\ <<>> \in Seq(Msgs)
    BY DEF ReceiverAssumption
  <2>2. draining[s] \o relayQueue[Owner[s]] \in Seq(Msgs)
    BY <1>0, <2>1
  <2> QED
    BY <1>0, <1>8, <2>1, <2>2 DEF DrainFail, WireTypeOK
<1>9. ASSUME NEW s \in Socks, Disconnect(s)
      PROVE  OK
  <2>1. \A h \in handling : [h EXCEPT !.targets = @ \ {s}] \in Handler
    BY <1>0, HandlerLess
  <2>2. handling' \subseteq Handler
    BY <1>9, <2>1, Zenon DEF Disconnect
  <2> QED
    BY <1>0, <1>9, <2>2 DEF Disconnect, WireTypeOK
<1>10. CASE OwnerActs
  <2>1. CASE RevokeSender
    <3>1. revokes + 1 \in 0..MaxRevokes
      BY <1>0, <2>1 DEF RevokeSender, ReceiverAssumption
    <3> QED
      BY <1>0, <2>1, <3>1 DEF RevokeSender, WireTypeOK
  <2>2. CASE ReAddSender
    BY <1>0, <2>2 DEF ReAddSender, WireTypeOK
  <2>3. ASSUME NEW u \in MayBlock, ToggleBlock(u)
        PROVE  OK
    <3>1. u \in Users
      BY DEF ReceiverAssumption
    <3> QED
      BY <1>0, <2>3, <3>1 DEF ToggleBlock, WireTypeOK
  <2> QED
    BY <1>10, <2>1, <2>2, <2>3 DEF OwnerActs
<1>11. CASE Kill
  <2>1. LoseMemory
    BY <1>11 DEF Kill
  <2> QED
    BY <1>0, <1>11, <2>1, LoseMemoryType DEF Kill, WireTypeOK
<1>12. ASSUME NEW r \in Request, PeerPosts(r)
       PROVE  OK
  BY <1>0, <1>12 DEF PeerPosts, WireTypeOK
<1>13. CASE UNCHANGED receiverOpenVars
  BY <1>0, <1>13 DEF receiverOpenVars, wireVars, WireTypeOK
<1> QED
  BY <1>1, <1>2, <1>3, <1>4, <1>5, <1>6, <1>7, <1>8, <1>9, <1>10, <1>11,
     <1>12, <1>13
  DEF ReceiverOpenNext, ReceiverNext, HandleRelay, LiveDelivery, Sockets

\* Every variable of the receiver and of the wire keeps its type.
THEOREM ReceiverTypes == ReceiverSpec => []ReceiverOpenTypeOK
<1>1. ReceiverOpenInit => ReceiverOpenTypeOK
  BY ReceiverAssumption, TypeInit
<1>2. ReceiverOpenTypeOK /\ [ReceiverOpenNext]_receiverOpenVars
        => ReceiverOpenTypeOK'
  BY ReceiverAssumption, TypeStep
<1> QED
  BY <1>1, <1>2, PTL DEF ReceiverSpec
-----------------------------------------------------------------------------
(* The queues: what each action does to them.                              *)

\* Actions that leave the queues alone.
LEMMA QueuesSame ==
    ASSUME QueuesDisjoint, relayQueue' = relayQueue, draining' = draining
    PROVE  QueuesDisjoint' /\ Queued' = Queued
BY DEF QueuesDisjoint, Queued, Distinct

\* A message that is in no queue is pushed onto one.
LEMMA QueuesPush ==
    ASSUME ReceiverAssumption, ReceiverTypeOK, QueuesDisjoint,
           NEW u \in Users, NEW m \in Msgs, m \notin Queued,
           relayQueue' = [relayQueue EXCEPT ![u] = Push(@, m)],
           draining' = draining
    PROVE  QueuesDisjoint' /\ Queued' \subseteq Queued \cup {m}
<1> DEFINE q == relayQueue[u]
<1>1. q \in Seq(Msgs) /\ Distinct(q) /\ m \notin ToSet(q)
  BY DEF ReceiverTypeOK, QueuesDisjoint, Queued
<1>2. Distinct(Push(q, m)) /\ ToSet(Push(q, m)) \subseteq ToSet(q) \cup {m}
  BY <1>1, PushDistinct
<1>3. /\ relayQueue'[u] = Push(q, m)
      /\ \A v \in Users : v # u => relayQueue'[v] = relayQueue[v]
  BY DEF ReceiverTypeOK
<1>4. /\ \A v \in Users : v # u => m \notin ToSet(relayQueue[v])
      /\ \A s \in Socks : m \notin ToSet(draining[s])
  BY DEF Queued
<1>5. \A v \in Users : Distinct(relayQueue'[v])
  BY <1>2, <1>3 DEF QueuesDisjoint
<1>6. \A v, w \in Users :
        v # w => ToSet(relayQueue'[v]) \cap ToSet(relayQueue'[w]) = {}
  <2> SUFFICES ASSUME NEW v \in Users, NEW w \in Users, v # w
               PROVE  ToSet(relayQueue'[v]) \cap ToSet(relayQueue'[w]) = {}
    OBVIOUS
  <2>1. ToSet(relayQueue[v]) \cap ToSet(relayQueue[w]) = {}
    BY DEF QueuesDisjoint
  <2>2. CASE v = u
    BY <1>2, <1>3, <1>4, <2>1, <2>2
  <2>3. CASE w = u
    BY <1>2, <1>3, <1>4, <2>1, <2>3
  <2>4. CASE v # u /\ w # u
    BY <1>3, <2>1, <2>4
  <2> QED
    BY <2>2, <2>3, <2>4
<1>7. \A v \in Users, s \in Socks :
        ToSet(relayQueue'[v]) \cap ToSet(draining[s]) = {}
  <2> SUFFICES ASSUME NEW v \in Users, NEW s \in Socks
               PROVE  ToSet(relayQueue'[v]) \cap ToSet(draining[s]) = {}
    OBVIOUS
  <2>1. ToSet(relayQueue[v]) \cap ToSet(draining[s]) = {}
    BY DEF QueuesDisjoint
  <2> QED
    BY <1>2, <1>3, <1>4, <2>1
<1>8. QueuesDisjoint'
  BY <1>5, <1>6, <1>7 DEF QueuesDisjoint
<1>9. \A v \in Users : ToSet(relayQueue'[v]) \subseteq ToSet(relayQueue[v]) \cup {m}
  BY <1>2, <1>3
<1> QED
  BY <1>8, <1>9 DEF Queued

\* A queue becomes the drain of a socket that has none.
LEMMA QueuesRegister ==
    ASSUME ReceiverAssumption, ReceiverTypeOK, QueuesDisjoint,
           NEW s \in Socks, Register(s)
    PROVE  QueuesDisjoint' /\ Queued' \subseteq Queued
<1> DEFINE u == Owner[s]
<1>1. u \in Users
  BY DEF ReceiverAssumption
<1>2. /\ draining'[s] = relayQueue[u]
      /\ \A t \in Socks : t # s => draining'[t] = draining[t]
      /\ relayQueue'[u] = <<>>
      /\ \A v \in Users : v # u => relayQueue'[v] = relayQueue[v]
  BY <1>1 DEF Register, ReceiverTypeOK
<1>3. ToSet(<<>>) = {} /\ Distinct(<<>>)
  BY DEF ToSet, Distinct
<1>4. \A v \in Users : Distinct(relayQueue'[v])
  BY <1>2, <1>3 DEF QueuesDisjoint
<1>5. \A t \in Socks : Distinct(draining'[t])
  BY <1>1, <1>2 DEF QueuesDisjoint
<1>6. \A v, w \in Users :
        v # w => ToSet(relayQueue'[v]) \cap ToSet(relayQueue'[w]) = {}
  BY <1>2, <1>3 DEF QueuesDisjoint
<1>7. \A t, v \in Socks :
        t # v => ToSet(draining'[t]) \cap ToSet(draining'[v]) = {}
  BY <1>1, <1>2 DEF QueuesDisjoint
<1>8. \A v \in Users, t \in Socks :
        ToSet(relayQueue'[v]) \cap ToSet(draining'[t]) = {}
  BY <1>1, <1>2, <1>3 DEF QueuesDisjoint
<1>9. QueuesDisjoint'
  BY <1>4, <1>5, <1>6, <1>7, <1>8 DEF QueuesDisjoint
<1> QED
  BY <1>1, <1>2, <1>3, <1>9 DEF Queued

\* The head of a drain leaves it.
LEMMA QueuesDrainOne ==
    ASSUME ReceiverAssumption, ReceiverTypeOK, QueuesDisjoint,
           NEW s \in Socks, DrainOne(s)
    PROVE  /\ QueuesDisjoint'
           /\ Queued' \subseteq Queued
           /\ Head(draining[s]) \in Queued
           /\ Head(draining[s]) \notin Queued'
<1> DEFINE q == draining[s]
           m == Head(q)
<1>1. q \in Seq(Msgs) /\ q # <<>> /\ Distinct(q)
  BY DEF ReceiverTypeOK, QueuesDisjoint, DrainOne
<1>2. /\ m \in ToSet(q) /\ m \in Msgs
      /\ Distinct(Tail(q))
      /\ ToSet(Tail(q)) \subseteq ToSet(q)
      /\ m \notin ToSet(Tail(q))
  BY <1>1, TailDistinct
<1>3. /\ draining'[s] = Tail(q)
      /\ \A t \in Socks : t # s => draining'[t] = draining[t]
      /\ relayQueue' = relayQueue
  BY DEF DrainOne, ReceiverTypeOK
<1>4. \A t \in Socks : /\ Distinct(draining'[t])
                       /\ ToSet(draining'[t]) \subseteq ToSet(draining[t])
  BY <1>2, <1>3 DEF QueuesDisjoint
<1>5. QueuesDisjoint'
  BY <1>3, <1>4 DEF QueuesDisjoint
<1>6. Queued' \subseteq Queued
  BY <1>3, <1>4 DEF Queued
<1>7. m \in Queued
  BY <1>2 DEF Queued
<1>8. \A u \in Users : m \notin ToSet(relayQueue[u])
  BY <1>2 DEF QueuesDisjoint
<1>9. \A t \in Socks : m \notin ToSet(draining'[t])
  BY <1>2, <1>3 DEF QueuesDisjoint
<1>10. m \notin Queued'
  BY <1>3, <1>8, <1>9 DEF Queued
<1> QED
  BY <1>5, <1>6, <1>7, <1>10

\* A drain goes back in front of its queue.
LEMMA QueuesDrainFail ==
    ASSUME ReceiverAssumption, ReceiverTypeOK, QueuesDisjoint,
           NEW s \in Socks, DrainFail(s)
    PROVE  QueuesDisjoint' /\ Queued' \subseteq Queued
<1> DEFINE u == Owner[s]
           q == draining[s] \o relayQueue[u]
<1>1. u \in Users
  BY DEF ReceiverAssumption
<1>2. /\ relayQueue'[u] = q
      /\ \A v \in Users : v # u => relayQueue'[v] = relayQueue[v]
      /\ draining'[s] = <<>>
      /\ \A t \in Socks : t # s => draining'[t] = draining[t]
  BY <1>1 DEF DrainFail, ReceiverTypeOK
<1>3. /\ draining[s] \in Seq(Msgs) /\ relayQueue[u] \in Seq(Msgs)
      /\ Distinct(draining[s]) /\ Distinct(relayQueue[u])
      /\ ToSet(draining[s]) \cap ToSet(relayQueue[u]) = {}
  BY <1>1 DEF ReceiverTypeOK, QueuesDisjoint
<1>4. /\ Distinct(q)
      /\ ToSet(q) \subseteq ToSet(draining[s]) \cup ToSet(relayQueue[u])
  BY <1>3, ConcatDistinct
<1>5. ToSet(<<>>) = {} /\ Distinct(<<>>)
  BY DEF ToSet, Distinct
<1>6. \A v \in Users : Distinct(relayQueue'[v])
  BY <1>2, <1>4 DEF QueuesDisjoint
<1>7. \A t \in Socks : Distinct(draining'[t])
  BY <1>2, <1>5 DEF QueuesDisjoint
<1>8. \A v, w \in Users :
        v # w => ToSet(relayQueue'[v]) \cap ToSet(relayQueue'[w]) = {}
  <2> SUFFICES ASSUME NEW v \in Users, NEW w \in Users, v # w
               PROVE  ToSet(relayQueue'[v]) \cap ToSet(relayQueue'[w]) = {}
    OBVIOUS
  <2>1. /\ ToSet(relayQueue[v]) \cap ToSet(relayQueue[w]) = {}
        /\ ToSet(relayQueue[v]) \cap ToSet(draining[s]) = {}
        /\ ToSet(relayQueue[w]) \cap ToSet(draining[s]) = {}
    BY DEF QueuesDisjoint
  <2>2. CASE v = u
    BY <1>2, <1>4, <2>1, <2>2
  <2>3. CASE w = u
    BY <1>2, <1>4, <2>1, <2>3
  <2>4. CASE v # u /\ w # u
    BY <1>2, <2>1, <2>4
  <2> QED
    BY <2>2, <2>3, <2>4
<1>9. \A t, v \in Socks :
        t # v => ToSet(draining'[t]) \cap ToSet(draining'[v]) = {}
  BY <1>2, <1>5 DEF QueuesDisjoint
<1>10. \A v \in Users, t \in Socks :
         ToSet(relayQueue'[v]) \cap ToSet(draining'[t]) = {}
  <2> SUFFICES ASSUME NEW v \in Users, NEW t \in Socks
               PROVE  ToSet(relayQueue'[v]) \cap ToSet(draining'[t]) = {}
    OBVIOUS
  <2>1. CASE t = s
    BY <1>2, <1>5, <2>1
  <2>2. CASE t # s
    <3>1. /\ ToSet(relayQueue[v]) \cap ToSet(draining[t]) = {}
          /\ ToSet(draining[s]) \cap ToSet(draining[t]) = {}
      BY <2>2 DEF QueuesDisjoint
    <3> QED
      BY <1>2, <1>4, <2>2, <3>1
  <2> QED
    BY <2>1, <2>2
<1>11. QueuesDisjoint'
  BY <1>6, <1>7, <1>8, <1>9, <1>10 DEF QueuesDisjoint
<1> QED
  BY <1>1, <1>2, <1>4, <1>5, <1>11 DEF Queued

\* A kill empties every queue.
LEMMA QueuesLost ==
    ASSUME LoseMemory
    PROVE  QueuesDisjoint' /\ Queued' = {}
<1>1. ToSet(<<>>) = {} /\ Distinct(<<>>)
  BY DEF ToSet, Distinct
<1>2. /\ \A u \in Users : relayQueue'[u] = <<>>
      /\ \A s \in Socks : draining'[s] = <<>>
  BY DEF LoseMemory
<1> QED
  BY <1>1, <1>2 DEF QueuesDisjoint, Queued

-----------------------------------------------------------------------------
(* OneCopy is inductive.                                                   *)

LEMMA OneCopyInit == ReceiverAssumption /\ ReceiverOpenInit => OneCopy
<1> SUFFICES ASSUME ReceiverAssumption, ReceiverOpenInit
             PROVE  OneCopy
  OBVIOUS
<1> USE DEF ReceiverOpenInit, ReceiverInit
<1>1. ToSet(<<>>) = {} /\ Distinct(<<>>)
  BY DEF ToSet, Distinct
<1>2. QueuesDisjoint /\ Queued = {}
  BY <1>1 DEF QueuesDisjoint, Queued
<1>3. HandledOnce
  BY DEF HandledOnce
<1>4. SeenIfAnywhere /\ AtMostOnce
  BY <1>2 DEF SeenIfAnywhere, AtMostOnce
<1> QED
  BY <1>2, <1>3, <1>4 DEF OneCopy

\* Actions that touch neither the queues nor the handlers nor the pushes, and
\* only add to the seen ids.
LEMMA OneCopySame ==
    ASSUME OneCopy, seenIds \subseteq seenIds',
           UNCHANGED <<handling, relayQueue, draining, emitted>>
    PROVE  OneCopy'
<1>1. QueuesDisjoint' /\ Queued' = Queued
  BY QueuesSame DEF OneCopy
<1> QED
  BY <1>1 DEF OneCopy, HandledOnce, SeenIfAnywhere, AtMostOnce

\* Actions that only empty things in memory.
LEMMA OneCopyLost ==
    ASSUME OneCopy, LoseMemory, seenIds \subseteq seenIds', emitted' = emitted
    PROVE  OneCopy'
<1>1. QueuesDisjoint' /\ Queued' = {}
  BY QueuesLost
<1>2. handling' = {}
  BY DEF LoseMemory
<1> QED
  BY <1>1, <1>2 DEF OneCopy, HandledOnce, SeenIfAnywhere, AtMostOnce

\* A message that is not seen is nowhere and was never pushed.
LEMMA UnseenIsNowhere ==
    ASSUME OneCopy, NEW m \in Msgs, m \notin seenIds
    PROVE  /\ m \notin Queued
           /\ emitted[m] = 0
           /\ \A h \in handling : h.req.id # m
BY DEF OneCopy, HandledOnce, SeenIfAnywhere

LEMMA OneCopyHandle ==
    ASSUME ReceiverAssumption, ReceiverOpenTypeOK, OneCopy, HandleRelay
    PROVE  OneCopy'
<1>0. WireTypeOK /\ ReceiverTypeOK
  BY DEF ReceiverOpenTypeOK
<1> PICK r \in requests :
        \/ RateLimit(r) \/ AnswerDuplicate(r) \/ AnswerReplay(r)
        \/ RefuseRevoked(r) \/ DropBlocked(r) \/ StartLive(r)
        \/ StoreOffline(r) \/ RefuseFull(r) \/ KillAfterRecord(r)
  BY DEF HandleRelay
<1>1. r \in Request /\ r.id \in Msgs /\ Dest[r.id] \in Users
  BY <1>0, RequestParts DEF WireTypeOK
<1>2. CASE \/ RateLimit(r) \/ AnswerDuplicate(r) \/ AnswerReplay(r)
           \/ RefuseRevoked(r) \/ DropBlocked(r) \/ RefuseFull(r)
  <2>1. /\ seenIds \subseteq seenIds'
        /\ UNCHANGED <<handling, relayQueue, draining, emitted>>
    BY <1>2 DEF RateLimit, AnswerDuplicate, AnswerReplay, RefuseRevoked,
                DropBlocked, RefuseFull, Fresh, receiverVars
  <2> QED
    BY <2>1, OneCopySame
<1>3. CASE StartLive(r)
  <2> DEFINE h == [req |-> r, targets |-> SocketsFor(Dest[r.id]), sent |-> FALSE]
  <2>1. QueuesDisjoint' /\ Queued' = Queued
    BY <1>3, QueuesSame DEF StartLive, OneCopy
  <2>2. /\ r.id \notin Queued
        /\ emitted[r.id] = 0
        /\ \A k \in handling : k.req.id # r.id
    BY <1>1, <1>3, UnseenIsNowhere DEF StartLive, Fresh
  <2>3. h.req = r /\ ~h.sent
    OBVIOUS
  <2>4. /\ handling' = handling \cup {h}
        /\ seenIds' = seenIds \cup {r.id}
        /\ emitted' = emitted
    BY <1>3 DEF StartLive, Fresh
  <2> HIDE DEF h
  <2>5. HandledOnce'
    BY <2>1, <2>2, <2>3, <2>4 DEF OneCopy, HandledOnce
  <2>6. SeenIfAnywhere' /\ AtMostOnce'
    BY <2>1, <2>4 DEF OneCopy, SeenIfAnywhere, AtMostOnce
  <2> QED
    BY <2>1, <2>5, <2>6 DEF OneCopy
<1>4. CASE StoreOffline(r)
  <2>1. /\ r.id \notin Queued
        /\ emitted[r.id] = 0
        /\ \A k \in handling : k.req.id # r.id
    BY <1>1, <1>4, UnseenIsNowhere DEF StoreOffline, Fresh
  <2>2. QueuesDisjoint' /\ Queued' \subseteq Queued \cup {r.id}
    BY <1>0, <1>1, <1>4, <2>1, QueuesPush DEF StoreOffline, OneCopy
  <2>3. seenIds' = seenIds \cup {r.id} /\ UNCHANGED <<handling, emitted>>
    BY <1>4 DEF StoreOffline, Fresh
  <2>4. HandledOnce'
    BY <2>1, <2>2, <2>3 DEF OneCopy, HandledOnce
  <2>5. SeenIfAnywhere' /\ AtMostOnce'
    BY <2>1, <2>2, <2>3 DEF OneCopy, SeenIfAnywhere, AtMostOnce
  <2> QED
    BY <2>2, <2>4, <2>5 DEF OneCopy
<1>5. CASE KillAfterRecord(r)
  BY <1>5, OneCopyLost DEF KillAfterRecord, Fresh
<1> QED
  BY <1>2, <1>3, <1>4, <1>5

LEMMA OneCopyLive ==
    ASSUME ReceiverAssumption, ReceiverOpenTypeOK, OneCopy, LiveDelivery
    PROVE  OneCopy'
<1>0. WireTypeOK /\ ReceiverTypeOK
  BY DEF ReceiverOpenTypeOK
<1> PICK h \in handling :
        LiveSend(h) \/ LiveSave(h) \/ LiveFailStore(h) \/ LiveFailFull(h)
  BY DEF LiveDelivery
<1>1. h \in Handler /\ h.req \in Request /\ h.req.id \in Msgs
      /\ Dest[h.req.id] \in Users
  BY <1>0, HandlerParts, RequestParts DEF ReceiverTypeOK
<1>2. /\ h.req.id \in seenIds /\ h.req.id \notin Queued
      /\ ~h.sent => emitted[h.req.id] = 0
      /\ \A k \in handling : k # h => k.req.id # h.req.id
  BY DEF OneCopy, HandledOnce
<1>3. CASE LiveSend(h)
  <2> DEFINE g == [h EXCEPT !.sent = TRUE]
  <2>1. g.req = h.req /\ g.sent
    BY <1>1, HandlerSent
  <2>2. QueuesDisjoint' /\ Queued' = Queued
    BY <1>3, QueuesSame DEF LiveSend, OneCopy
  <2>3. handling' = (handling \ {h}) \cup {g} /\ seenIds' = seenIds
    BY <1>3 DEF LiveSend
  <2>4. /\ emitted'[h.req.id] = 1
        /\ \A m \in Msgs : m # h.req.id => emitted'[m] = emitted[m]
    BY <1>0, <1>1, <1>2, <1>3 DEF LiveSend, ReceiverTypeOK
  <2> HIDE DEF g
  <2>5. \A k \in handling : k.req.id \in Msgs
    BY <1>0, HandlerParts, RequestParts DEF ReceiverTypeOK
  <2>6. HandledOnce'
    BY <1>2, <2>1, <2>2, <2>3, <2>4, <2>5 DEF OneCopy, HandledOnce
  <2>7. SeenIfAnywhere'
    BY <1>2, <2>2, <2>3, <2>4 DEF OneCopy, SeenIfAnywhere
  <2>8. AtMostOnce'
    BY <2>4 DEF OneCopy, AtMostOnce
  <2> QED
    BY <2>2, <2>6, <2>7, <2>8 DEF OneCopy
<1>4. CASE LiveSave(h)
  <2>1. QueuesDisjoint' /\ Queued' = Queued
    BY <1>4, QueuesSame DEF LiveSave, OneCopy
  <2>2. handling' \subseteq handling /\ UNCHANGED <<seenIds, emitted>>
    BY <1>4 DEF LiveSave, Reply2
  <2> QED
    BY <2>1, <2>2 DEF OneCopy, HandledOnce, SeenIfAnywhere, AtMostOnce
<1>5. CASE LiveFailStore(h)
  <2>1. QueuesDisjoint' /\ Queued' \subseteq Queued \cup {h.req.id}
    BY <1>0, <1>1, <1>2, <1>5, QueuesPush DEF LiveFailStore, OneCopy
  <2>2. handling' = handling \ {h} /\ UNCHANGED <<seenIds, emitted>>
    BY <1>5 DEF LiveFailStore, Reply2
  <2>3. ~h.sent
    BY <1>5 DEF LiveFailStore
  <2>4. HandledOnce'
    BY <1>2, <2>1, <2>2 DEF OneCopy, HandledOnce
  <2>5. SeenIfAnywhere' /\ AtMostOnce'
    BY <1>2, <2>1, <2>2, <2>3 DEF OneCopy, SeenIfAnywhere, AtMostOnce
  <2> QED
    BY <2>1, <2>4, <2>5 DEF OneCopy
<1>6. CASE LiveFailFull(h)
  <2>1. QueuesDisjoint' /\ Queued' = Queued
    BY <1>6, QueuesSame DEF LiveFailFull, OneCopy
  <2>2. /\ handling' = handling \ {h}
        /\ seenIds' = seenIds \ {h.req.id}
        /\ emitted' = emitted
        /\ ~h.sent
    BY <1>6 DEF LiveFailFull, Reply2
  <2>3. HandledOnce'
    BY <1>2, <2>1, <2>2 DEF OneCopy, HandledOnce
  <2>4. SeenIfAnywhere' /\ AtMostOnce'
    BY <1>2, <2>1, <2>2 DEF OneCopy, SeenIfAnywhere, AtMostOnce
  <2> QED
    BY <2>1, <2>3, <2>4 DEF OneCopy
<1> QED
  BY <1>3, <1>4, <1>5, <1>6

LEMMA OneCopySockets ==
    ASSUME ReceiverAssumption, ReceiverOpenTypeOK, OneCopy, Sockets
    PROVE  OneCopy'
<1>0. ReceiverTypeOK
  BY DEF ReceiverOpenTypeOK
<1> PICK s \in Socks : Register(s) \/ DrainOne(s) \/ DrainFail(s) \/ Disconnect(s)
  BY DEF Sockets
<1>1. ASSUME QueuesDisjoint', Queued' \subseteq Queued,
             UNCHANGED <<handling, emitted, seenIds>>
      PROVE  OneCopy'
  BY <1>1 DEF OneCopy, HandledOnce, SeenIfAnywhere, AtMostOnce
<1>2. CASE Register(s)
  <2>1. UNCHANGED <<handling, emitted, seenIds>>
    BY <1>2 DEF Register
  <2> QED
    BY <1>0, <1>1, <1>2, <2>1, QueuesRegister DEF OneCopy
<1>3. CASE DrainOne(s)
  <2> DEFINE m == Head(draining[s])
  <2>1. QueuesDisjoint' /\ Queued' \subseteq Queued /\ m \in Queued /\ m \notin Queued'
    BY <1>0, <1>3, QueuesDrainOne DEF OneCopy
  <2>2. m \in Msgs
    BY <2>1 DEF Queued
  <2>3. UNCHANGED <<handling, seenIds>>
    BY <1>3 DEF DrainOne
  <2>4. m \in seenIds /\ emitted[m] = 0
    BY <2>1, <2>2 DEF OneCopy, SeenIfAnywhere
  <2>5. /\ emitted'[m] = 1
        /\ \A n \in Msgs : n # m => emitted'[n] = emitted[n]
    BY <1>0, <1>3, <2>2, <2>4 DEF DrainOne, ReceiverTypeOK
  <2> HIDE DEF m
  <2>6. \A h \in handling : h.req.id \in Msgs /\ h.req.id # m
    BY <1>0, <2>1, HandlerParts, RequestParts
    DEF ReceiverTypeOK, OneCopy, HandledOnce
  <2>7. HandledOnce'
    BY <2>1, <2>3, <2>5, <2>6 DEF OneCopy, HandledOnce
  <2>8. SeenIfAnywhere'
    BY <2>1, <2>3, <2>4, <2>5 DEF OneCopy, SeenIfAnywhere
  <2>9. AtMostOnce'
    BY <2>5 DEF OneCopy, AtMostOnce
  <2> QED
    BY <2>1, <2>7, <2>8, <2>9 DEF OneCopy
<1>4. CASE DrainFail(s)
  <2>1. UNCHANGED <<handling, emitted, seenIds>>
    BY <1>4 DEF DrainFail
  <2> QED
    BY <1>0, <1>1, <1>4, <2>1, QueuesDrainFail DEF OneCopy
<1>5. CASE Disconnect(s)
  <2>1. QueuesDisjoint' /\ Queued' = Queued
    BY <1>5, QueuesSame DEF Disconnect, OneCopy
  <2>2. UNCHANGED <<emitted, seenIds>>
    BY <1>5 DEF Disconnect
  <2> DEFINE Less(h) == [h EXCEPT !.targets = @ \ {s}]
  <2>3. handling' = {Less(h) : h \in handling}
    BY <1>5 DEF Disconnect
  <2>4. \A h \in handling : Less(h).req = h.req /\ Less(h).sent = h.sent
    BY <1>0, HandlerLess DEF ReceiverTypeOK
  <2> HIDE DEF Less
  <2>5. HandledOnce'
    <3>1. ASSUME NEW k \in handling', NEW l \in handling', k.req.id = l.req.id
          PROVE  k = l
      <4>1. PICK h \in handling : k = Less(h)
        BY <2>3
      <4>2. PICK g \in handling : l = Less(g)
        BY <2>3
      <4>3. h = g
        BY <2>4, <3>1, <4>1, <4>2 DEF OneCopy, HandledOnce
      <4> QED
        BY <4>1, <4>2, <4>3
    <3>2. ASSUME NEW k \in handling'
          PROVE  /\ k.req.id \in seenIds
                 /\ k.req.id \notin Queued
                 /\ ~k.sent => emitted[k.req.id] = 0
      BY <2>3, <2>4 DEF OneCopy, HandledOnce
    <3> QED
      BY <2>1, <2>2, <3>1, <3>2 DEF HandledOnce
  <2> QED
    BY <2>1, <2>2, <2>5 DEF OneCopy, SeenIfAnywhere, AtMostOnce
<1> QED
  BY <1>2, <1>3, <1>4, <1>5

LEMMA OneCopyStep ==
    ASSUME ReceiverAssumption, ReceiverOpenTypeOK, OneCopy,
           [ReceiverOpenNext]_receiverOpenVars
    PROVE  OneCopy'
<1>1. CASE HandleRelay
  BY <1>1, OneCopyHandle
<1>2. CASE LiveDelivery
  BY <1>2, OneCopyLive
<1>3. CASE Sockets
  BY <1>3, OneCopySockets
<1>4. CASE OwnerActs
  BY <1>4, OneCopySame DEF OwnerActs, RevokeSender, ReAddSender, ToggleBlock
<1>5. CASE Kill
  BY <1>5, OneCopyLost DEF Kill
<1>6. CASE \E r \in Request : PeerPosts(r)
  BY <1>6, OneCopySame DEF PeerPosts, receiverVars
<1>7. CASE UNCHANGED receiverOpenVars
  BY <1>7, OneCopySame DEF receiverOpenVars, receiverVars
<1> QED
  BY <1>1, <1>2, <1>3, <1>4, <1>5, <1>6, <1>7
  DEF ReceiverOpenNext, ReceiverNext

\* A message that is not yet pushed is in one place at most, and seen.
THEOREM ReceiverOneCopy == ReceiverSpec => []OneCopy
<1>1. ReceiverOpenInit => OneCopy
  BY ReceiverAssumption, OneCopyInit
<1>2. ReceiverOpenTypeOK /\ OneCopy /\ [ReceiverOpenNext]_receiverOpenVars
        => OneCopy'
  BY ReceiverAssumption, OneCopyStep
<1> QED
  BY <1>1, <1>2, ReceiverTypes, PTL DEF ReceiverSpec

\* A message is pushed to its recipient at most once, live or from the offline
\* queue, for any number of relays, recipients, sockets and kills.
THEOREM ReceiverAtMostOnce == ReceiverSpec => []AtMostOnce
<1>1. OneCopy => AtMostOnce
  BY DEF OneCopy
<1> QED
  BY <1>1, ReceiverOneCopy, PTL

-----------------------------------------------------------------------------
(* The history: what was taken, in the order in which it was taken.        *)

\* What is queued was saved, what was saved is seen, and what a handler holds
\* is not saved yet.
HistoryOK ==
    /\ ToSet(history) \subseteq seenIds
    /\ Queued \subseteq ToSet(history)
    /\ \A h \in handling : h.req.id \notin ToSet(history)

\* A dropped message is seen, so that no retry gets past Fresh, and no handler
\* that was started earlier holds it.
DroppedOK ==
    \A m \in dropped :
        /\ m \in seenIds /\ m \notin ToSet(history) /\ emitted[m] = 0
        /\ \A h \in handling : h.req.id # m

\* m was taken before n, by the history h.
Ahead(h, m, n) == \E i, j \in DOMAIN h : i < j /\ h[i] = m /\ h[j] = n

\* The sequence q is in the order of the history h.
InOrder(h, q) == \A i, j \in DOMAIN q : i < j => Ahead(h, q[i], q[j])

\* INSERT OR IGNORE adds the message behind all others, or nothing.
LEMMA SavedParts ==
    ASSUME NEW S, NEW h \in Seq(S), NEW m \in S
    PROVE  /\ ToSet(Saved(h, m)) = ToSet(h) \cup {m}
           /\ \A x, y \in S : Ahead(h, x, y) => Ahead(Saved(h, m), x, y)
           /\ m \notin ToSet(h) =>
                \A x \in ToSet(h) : Ahead(Saved(h, m), x, m)
<1>1. CASE m \in ToSet(h)
  BY <1>1 DEF Saved
<1>2. CASE m \notin ToSet(h)
  <2>1. Saved(h, m) = Append(h, m)
    BY <1>2 DEF Saved
  <2> DEFINE a == Append(h, m)
  <2>2. /\ DOMAIN h = 1..Len(h) /\ DOMAIN a = 1..(Len(h) + 1) /\ Len(h) \in Nat
        /\ \A i \in 1..Len(h) : a[i] = h[i]
        /\ a[Len(h) + 1] = m
    OBVIOUS
  <2> HIDE DEF a
  <2>3. \A i \in 1..Len(h) : i \in 1..(Len(h) + 1) /\ i < Len(h) + 1
    BY <2>2
  <2>4. Len(h) + 1 \in 1..(Len(h) + 1)
    BY <2>2
  <2>5. ToSet(a) = ToSet(h) \cup {m}
    <3>1. \A i \in 1..(Len(h) + 1) : i \in 1..Len(h) \/ i = Len(h) + 1
      BY <2>2
    <3> QED
      BY <2>2, <2>3, <2>4, <3>1 DEF ToSet
  <2>6. ASSUME NEW x \in S, NEW y \in S, Ahead(h, x, y)
        PROVE  Ahead(a, x, y)
    <3>1. PICK i \in DOMAIN h, j \in DOMAIN h : i < j /\ h[i] = x /\ h[j] = y
      BY <2>6 DEF Ahead
    <3>2. /\ i \in DOMAIN a /\ j \in DOMAIN a
          /\ a[i] = x /\ a[j] = y
      BY <2>2, <2>3, <3>1
    <3> QED
      BY <3>1, <3>2 DEF Ahead
  <2>7. ASSUME NEW x \in ToSet(h)
        PROVE  Ahead(a, x, m)
    <3>1. PICK i \in DOMAIN h : h[i] = x
      BY DEF ToSet
    <3>2. /\ i \in DOMAIN a /\ Len(h) + 1 \in DOMAIN a /\ i < Len(h) + 1
          /\ a[i] = x /\ a[Len(h) + 1] = m
      BY <2>2, <2>3, <2>4, <3>1
    <3> QED
      BY <3>2 DEF Ahead
  <2> QED
    BY <2>1, <2>5, <2>6, <2>7 DEF a
<1> QED
  BY <1>1, <1>2

\* A sequence in front of another is in order if each is and the first is
\* older than the second.
LEMMA ConcatInOrder ==
    ASSUME NEW S, NEW p \in Seq(S), NEW q \in Seq(S), NEW h
    PROVE  InOrder(h, p \o q) <=>
             /\ InOrder(h, p) /\ InOrder(h, q)
             /\ \A x \in ToSet(p), y \in ToSet(q) : Ahead(h, x, y)
<1> DEFINE c == p \o q
           n == Len(p)
           k == Len(q)
<1>1. /\ n \in Nat /\ k \in Nat
      /\ DOMAIN c = 1..(n + k) /\ DOMAIN p = 1..n /\ DOMAIN q = 1..k
      /\ \A i \in 1..n : c[i] = p[i]
      /\ \A i \in 1..(n + k) : i > n => c[i] = q[i - n]
  OBVIOUS
<1> HIDE DEF c, n, k
<1>2. /\ \A i \in 1..n : i \in 1..(n + k)
      /\ \A j \in 1..k : j + n \in 1..(n + k) /\ j + n > n /\ c[j + n] = q[j]
  <2>1. \A j \in 1..k : j + n \in 1..(n + k) /\ j + n > n /\ (j + n) - n = j
    BY <1>1
  <2> QED
    BY <1>1, <2>1
<1>3. \A i \in 1..(n + k) : i \in 1..n \/ (i > n /\ i - n \in 1..k)
  BY <1>1
<1>4. ASSUME InOrder(h, c)
      PROVE  /\ InOrder(h, p) /\ InOrder(h, q)
             /\ \A x \in ToSet(p), y \in ToSet(q) : Ahead(h, x, y)
  <2>1. InOrder(h, p)
    BY <1>1, <1>2, <1>4 DEF InOrder
  <2>2. ASSUME NEW i \in 1..k, NEW j \in 1..k, i < j
        PROVE  Ahead(h, q[i], q[j])
    <3>1. i + n < j + n
      BY <1>1, <2>2
    <3> QED
      BY <1>1, <1>2, <1>4, <3>1 DEF InOrder
  <2>3. ASSUME NEW x \in ToSet(p), NEW y \in ToSet(q)
        PROVE  Ahead(h, x, y)
    <3>1. PICK i \in 1..n : p[i] = x
      BY <1>1 DEF ToSet
    <3>2. PICK j \in 1..k : q[j] = y
      BY <1>1 DEF ToSet
    <3>3. i < j + n
      BY <1>1
    <3> QED
      BY <1>1, <1>2, <1>4, <3>1, <3>2, <3>3 DEF InOrder
  <2> QED
    BY <1>1, <2>1, <2>2, <2>3 DEF InOrder
<1>5. ASSUME InOrder(h, p), InOrder(h, q),
             \A x \in ToSet(p), y \in ToSet(q) : Ahead(h, x, y)
      PROVE  InOrder(h, c)
  <2> SUFFICES ASSUME NEW i \in 1..(n + k), NEW j \in 1..(n + k), i < j
               PROVE  Ahead(h, c[i], c[j])
    BY <1>1 DEF InOrder
  <2>1. CASE i \in 1..n /\ j \in 1..n
    BY <1>1, <1>5, <2>1 DEF InOrder
  <2>2. CASE i \in 1..n /\ j > n
    <3>1. c[i] = p[i] /\ j - n \in 1..k /\ c[j] = q[j - n]
      BY <1>1, <1>3, <2>2
    <3>2. p[i] \in ToSet(p) /\ q[j - n] \in ToSet(q)
      BY <1>1, <2>2, <3>1 DEF ToSet
    <3> QED
      BY <1>5, <3>1, <3>2
  <2>3. CASE i > n
    <3>1. i - n \in 1..k /\ j - n \in 1..k /\ i - n < j - n
      BY <1>1, <2>3
    <3>2. c[i] = q[i - n] /\ c[j] = q[j - n]
      BY <1>1, <2>3
    <3>3. Ahead(h, q[i - n], q[j - n])
      BY <1>1, <1>5, <3>1 DEF InOrder
    <3> QED
      BY <3>2, <3>3
  <2> QED
    BY <1>1, <1>3, <2>1, <2>2, <2>3
<1> QED
  BY <1>4, <1>5 DEF c

\* Without its head a sequence is still in order.
LEMMA TailInOrder ==
    ASSUME NEW S, NEW q \in Seq(S), q # <<>>, NEW h, InOrder(h, q)
    PROVE  InOrder(h, Tail(q))
<1>1. /\ DOMAIN q = 1..Len(q) /\ DOMAIN Tail(q) = 1..(Len(q) - 1)
      /\ Len(q) \in Nat /\ Len(q) >= 1
      /\ \A i \in 1..(Len(q) - 1) : Tail(q)[i] = q[i + 1]
  OBVIOUS
<1>2. \A i, j \in 1..(Len(q) - 1) :
        /\ i + 1 \in 1..Len(q) /\ j + 1 \in 1..Len(q)
        /\ i < j => i + 1 < j + 1
  BY <1>1
<1> QED
  BY <1>1, <1>2 DEF InOrder

\* With something newer behind it a sequence is still in order.
LEMMA AppendInOrder ==
    ASSUME NEW S, NEW q \in Seq(S), NEW m \in S, NEW h, InOrder(h, q),
           \A x \in ToSet(q) : Ahead(h, x, m)
    PROVE  InOrder(h, Append(q, m))
<1> DEFINE a == Append(q, m)
<1>1. /\ Len(q) \in Nat /\ DOMAIN q = 1..Len(q) /\ DOMAIN a = 1..(Len(q) + 1)
      /\ \A i \in 1..Len(q) : a[i] = q[i]
      /\ a[Len(q) + 1] = m
  OBVIOUS
<1> HIDE DEF a
<1> SUFFICES ASSUME NEW i \in 1..(Len(q) + 1), NEW j \in 1..(Len(q) + 1), i < j
             PROVE  Ahead(h, a[i], a[j])
  BY <1>1 DEF InOrder, a
<1>2. i \in 1..Len(q)
  BY <1>1
<1>3. CASE j \in 1..Len(q)
  BY <1>1, <1>2, <1>3 DEF InOrder
<1>4. CASE j = Len(q) + 1
  <2>1. q[i] \in ToSet(q)
    BY <1>1, <1>2 DEF ToSet
  <2> QED
    BY <1>1, <1>2, <1>4, <2>1
<1> QED
  BY <1>1, <1>3, <1>4

\* Pushing onto a full or a not yet full queue something newer than all of it.
LEMMA PushInOrder ==
    ASSUME ReceiverAssumption, NEW q \in Seq(Msgs), Distinct(q), NEW m \in Msgs,
           NEW h, InOrder(h, q), \A x \in ToSet(q) : Ahead(h, x, m)
    PROVE  InOrder(h, Push(q, m))
<1>1. CASE Len(q) >= QueueCap
  <2>1. q # <<>>
    BY <1>1 DEF ReceiverAssumption
  <2>2. /\ Tail(q) \in Seq(Msgs)
        /\ ToSet(Tail(q)) \subseteq ToSet(q)
        /\ InOrder(h, Tail(q))
    BY <2>1, TailDistinct, TailInOrder
  <2> QED
    BY <1>1, <2>2, AppendInOrder DEF Push
<1>2. CASE ~(Len(q) >= QueueCap)
  BY <1>2, AppendInOrder DEF Push
<1> QED
  BY <1>1, <1>2

-----------------------------------------------------------------------------
(* What was dropped stays dropped.                                         *)

LEMMA FiledInit ==
    ReceiverAssumption /\ ReceiverOpenInit => HistoryOK /\ DroppedOK
<1> SUFFICES ASSUME ReceiverAssumption, ReceiverOpenInit
             PROVE  HistoryOK /\ DroppedOK
  OBVIOUS
<1>1. ToSet(<<>>) = {}
  BY DEF ToSet
<1> QED
  BY <1>1 DEF ReceiverOpenInit, ReceiverInit, HistoryOK, DroppedOK, Queued

\* Actions that add nothing to history and queues, and no more than seen ids
\* otherwise.
LEMMA FiledSame ==
    ASSUME HistoryOK, DroppedOK, Queued' \subseteq Queued, seenIds \subseteq seenIds',
           handling' \subseteq handling,
           UNCHANGED <<history, dropped, emitted>>
    PROVE  HistoryOK' /\ DroppedOK'
BY DEF HistoryOK, DroppedOK

LEMMA FiledHandle ==
    ASSUME ReceiverAssumption, ReceiverOpenTypeOK, OneCopy, HistoryOK, DroppedOK,
           HandleRelay
    PROVE  HistoryOK' /\ DroppedOK'
<1>0. WireTypeOK /\ ReceiverTypeOK
  BY DEF ReceiverOpenTypeOK
<1> PICK r \in requests :
        \/ RateLimit(r) \/ AnswerDuplicate(r) \/ AnswerReplay(r)
        \/ RefuseRevoked(r) \/ DropBlocked(r) \/ StartLive(r)
        \/ StoreOffline(r) \/ RefuseFull(r) \/ KillAfterRecord(r)
  BY DEF HandleRelay
<1>1. r \in Request /\ r.id \in Msgs /\ Dest[r.id] \in Users
  BY <1>0, RequestParts DEF WireTypeOK
<1>2. ASSUME Fresh(r)
      PROVE  /\ r.id \notin Queued /\ r.id \notin ToSet(history)
             /\ r.id \notin dropped /\ emitted[r.id] = 0
             /\ \A h \in handling : h.req.id # r.id
             /\ seenIds' = seenIds \cup {r.id}
  BY <1>1, <1>2, UnseenIsNowhere DEF Fresh, HistoryOK, DroppedOK
<1>3. CASE \/ RateLimit(r) \/ AnswerDuplicate(r) \/ AnswerReplay(r)
           \/ RefuseRevoked(r) \/ RefuseFull(r)
  <2>1. /\ seenIds \subseteq seenIds'
        /\ UNCHANGED <<handling, relayQueue, draining, emitted, history, dropped>>
    BY <1>3 DEF RateLimit, AnswerDuplicate, AnswerReplay, RefuseRevoked,
                RefuseFull, Fresh, receiverVars
  <2> QED
    BY <2>1, QueuesSame, FiledSame DEF OneCopy
<1>4. CASE DropBlocked(r)
  <2>1. /\ Fresh(r) /\ dropped' = dropped \cup {r.id}
        /\ UNCHANGED <<handling, relayQueue, draining, emitted, history>>
    BY <1>4 DEF DropBlocked
  <2>2. Queued' = Queued
    BY <2>1, QueuesSame DEF OneCopy
  <2>3. HistoryOK'
    BY <1>2, <2>1, <2>2 DEF HistoryOK
  <2>4. DroppedOK'
    BY <1>2, <2>1 DEF DroppedOK
  <2> QED
    BY <2>3, <2>4
<1>5. CASE StartLive(r)
  <2> DEFINE h == [req |-> r, targets |-> SocketsFor(Dest[r.id]), sent |-> FALSE]
  <2>1. /\ Fresh(r) /\ handling' = handling \cup {h} /\ h.req = r
        /\ UNCHANGED <<relayQueue, draining, emitted, history, dropped>>
    BY <1>5 DEF StartLive
  <2> HIDE DEF h
  <2>2. Queued' = Queued
    BY <2>1, QueuesSame DEF OneCopy
  <2>3. HistoryOK'
    BY <1>2, <2>1, <2>2 DEF HistoryOK
  <2>4. DroppedOK'
    BY <1>2, <2>1 DEF DroppedOK
  <2> QED
    BY <2>3, <2>4
<1>6. CASE StoreOffline(r)
  <2>1. /\ Fresh(r) /\ history' = Saved(history, r.id)
        /\ relayQueue' = [relayQueue EXCEPT ![Dest[r.id]] = Push(@, r.id)]
        /\ UNCHANGED <<draining, handling, emitted, dropped>>
    BY <1>6 DEF StoreOffline
  <2>2. Queued' \subseteq Queued \cup {r.id}
    BY <1>0, <1>1, <1>2, <2>1, QueuesPush DEF OneCopy
  <2>3. ToSet(history') = ToSet(history) \cup {r.id}
    BY <1>0, <1>1, <2>1, SavedParts DEF ReceiverTypeOK
  <2>4. HistoryOK'
    BY <1>2, <2>1, <2>2, <2>3 DEF HistoryOK
  <2>5. DroppedOK'
    BY <1>2, <2>1, <2>3 DEF DroppedOK
  <2> QED
    BY <2>4, <2>5
<1>7. CASE KillAfterRecord(r)
  <2>1. /\ Fresh(r) /\ LoseMemory /\ UNCHANGED <<history, emitted, dropped>>
    BY <1>7 DEF KillAfterRecord
  <2>2. Queued' = {} /\ handling' = {}
    BY <2>1, QueuesLost DEF LoseMemory
  <2> QED
    BY <1>2, <2>1, <2>2, FiledSame
<1> QED
  BY <1>3, <1>4, <1>5, <1>6, <1>7

LEMMA FiledLive ==
    ASSUME ReceiverAssumption, ReceiverOpenTypeOK, OneCopy, HistoryOK, DroppedOK,
           LiveDelivery
    PROVE  HistoryOK' /\ DroppedOK'
<1>0. WireTypeOK /\ ReceiverTypeOK
  BY DEF ReceiverOpenTypeOK
<1> PICK h \in handling :
        LiveSend(h) \/ LiveSave(h) \/ LiveFailStore(h) \/ LiveFailFull(h)
  BY DEF LiveDelivery
<1> DEFINE m == h.req.id
<1>1. h \in Handler /\ m \in Msgs /\ Dest[m] \in Users
  BY <1>0, HandlerParts, RequestParts DEF ReceiverTypeOK
<1>2. /\ m \in seenIds /\ m \notin Queued /\ m \notin ToSet(history) /\ m \notin dropped
      /\ \A k \in handling : k # h => k.req.id # m
  BY DEF OneCopy, HandledOnce, HistoryOK, DroppedOK
<1>3. ASSUME history' = Saved(history, m)
      PROVE  ToSet(history') = ToSet(history) \cup {m}
  BY <1>0, <1>1, <1>3, SavedParts DEF ReceiverTypeOK
<1>4. CASE LiveSend(h)
  <2> DEFINE g == [h EXCEPT !.sent = TRUE]
  <2>1. g.req = h.req
    BY <1>1, HandlerSent
  <2>2. /\ handling' = (handling \ {h}) \cup {g}
        /\ emitted' = [emitted EXCEPT ![m] = @ + 1]
        /\ UNCHANGED <<relayQueue, draining, history, dropped, seenIds>>
    BY <1>4 DEF LiveSend
  <2> HIDE DEF g
  <2>3. Queued' = Queued
    BY <2>2, QueuesSame DEF OneCopy
  <2>4. HistoryOK'
    BY <1>2, <2>1, <2>2, <2>3 DEF HistoryOK
  <2>5. \A x \in dropped : emitted'[x] = 0
    BY <1>0, <1>2, <2>2 DEF DroppedOK, ReceiverTypeOK
  <2>6. DroppedOK'
    BY <1>2, <2>1, <2>2, <2>5 DEF DroppedOK
  <2> QED
    BY <2>4, <2>6
<1>5. CASE LiveSave(h)
  <2>1. /\ handling' = handling \ {h} /\ history' = Saved(history, m)
        /\ UNCHANGED <<relayQueue, draining, emitted, dropped, seenIds>>
    BY <1>5 DEF LiveSave, Reply2
  <2>2. Queued' = Queued
    BY <2>1, QueuesSame DEF OneCopy
  <2>3. HistoryOK'
    BY <1>2, <1>3, <2>1, <2>2 DEF HistoryOK
  <2>4. DroppedOK'
    BY <1>2, <1>3, <2>1 DEF DroppedOK
  <2> QED
    BY <2>3, <2>4
<1>6. CASE LiveFailStore(h)
  <2>1. /\ handling' = handling \ {h} /\ history' = Saved(history, m)
        /\ relayQueue' = [relayQueue EXCEPT ![Dest[m]] = Push(@, m)]
        /\ UNCHANGED <<draining, emitted, dropped, seenIds>>
    BY <1>6 DEF LiveFailStore, Reply2
  <2>2. Queued' \subseteq Queued \cup {m}
    BY <1>0, <1>1, <1>2, <2>1, QueuesPush DEF OneCopy
  <2>3. HistoryOK'
    BY <1>2, <1>3, <2>1, <2>2 DEF HistoryOK
  <2>4. DroppedOK'
    BY <1>2, <1>3, <2>1 DEF DroppedOK
  <2> QED
    BY <2>3, <2>4
<1>7. CASE LiveFailFull(h)
  <2>1. /\ handling' = handling \ {h} /\ seenIds' = seenIds \ {m}
        /\ UNCHANGED <<relayQueue, draining, emitted, dropped, history>>
    BY <1>7 DEF LiveFailFull, Reply2
  <2>2. Queued' = Queued
    BY <2>1, QueuesSame DEF OneCopy
  <2>3. HistoryOK'
    BY <1>2, <2>1, <2>2 DEF HistoryOK
  <2>4. DroppedOK'
    BY <1>2, <2>1 DEF DroppedOK
  <2> QED
    BY <2>3, <2>4
<1> QED
  BY <1>4, <1>5, <1>6, <1>7

LEMMA FiledSockets ==
    ASSUME ReceiverAssumption, ReceiverOpenTypeOK, OneCopy, HistoryOK, DroppedOK,
           Sockets
    PROVE  HistoryOK' /\ DroppedOK'
<1>0. ReceiverTypeOK
  BY DEF ReceiverOpenTypeOK
<1> PICK s \in Socks : Register(s) \/ DrainOne(s) \/ DrainFail(s) \/ Disconnect(s)
  BY DEF Sockets
<1>1. CASE Register(s) \/ DrainFail(s)
  <2>1. Queued' \subseteq Queued
    BY <1>0, <1>1, QueuesRegister, QueuesDrainFail DEF OneCopy
  <2> QED
    BY <1>1, <2>1, FiledSame DEF Register, DrainFail
<1>2. CASE DrainOne(s)
  <2> DEFINE m == Head(draining[s])
  <2>1. /\ Queued' \subseteq Queued /\ m \in Queued
        /\ emitted' = [emitted EXCEPT ![m] = @ + 1]
        /\ UNCHANGED <<handling, seenIds, history, dropped>>
    BY <1>0, <1>2, QueuesDrainOne DEF OneCopy, DrainOne
  <2> HIDE DEF m
  <2>2. m \in ToSet(history) /\ m \notin dropped
    BY <2>1 DEF HistoryOK, DroppedOK
  <2>3. \A x \in dropped : emitted'[x] = 0
    BY <1>0, <2>1, <2>2 DEF DroppedOK, ReceiverTypeOK
  <2> QED
    BY <2>1, <2>3 DEF HistoryOK, DroppedOK
<1>3. CASE Disconnect(s)
  <2> DEFINE Less(h) == [h EXCEPT !.targets = @ \ {s}]
  <2>1. /\ handling' = {Less(h) : h \in handling}
        /\ UNCHANGED <<relayQueue, draining, seenIds, history, dropped, emitted>>
    BY <1>3 DEF Disconnect
  <2>2. \A h \in handling : Less(h).req = h.req
    BY <1>0, HandlerLess DEF ReceiverTypeOK
  <2> HIDE DEF Less
  <2>3. \A k \in handling' : \E h \in handling : k.req = h.req
    BY <2>1, <2>2
  <2>4. Queued' = Queued
    BY <2>1, QueuesSame DEF OneCopy
  <2> QED
    BY <2>1, <2>3, <2>4 DEF HistoryOK, DroppedOK
<1> QED
  BY <1>1, <1>2, <1>3

LEMMA FiledStep ==
    ASSUME ReceiverAssumption, ReceiverOpenTypeOK, OneCopy, HistoryOK, DroppedOK,
           [ReceiverOpenNext]_receiverOpenVars
    PROVE  HistoryOK' /\ DroppedOK'
<1>1. ASSUME UNCHANGED <<seenIds, handling, relayQueue, draining, history, dropped, emitted>>
      PROVE  HistoryOK' /\ DroppedOK'
  BY <1>1, QueuesSame, FiledSame DEF OneCopy
<1>2. CASE HandleRelay \/ LiveDelivery \/ Sockets
  BY <1>2, FiledHandle, FiledLive, FiledSockets
<1>3. CASE OwnerActs
  BY <1>1, <1>3 DEF OwnerActs, RevokeSender, ReAddSender, ToggleBlock
<1>4. CASE Kill
  <2>1. Queued' = {} /\ handling' = {}
    BY <1>4, QueuesLost DEF Kill, LoseMemory
  <2> QED
    BY <1>4, <2>1, FiledSame DEF Kill
<1>5. CASE \/ \E r \in Request : PeerPosts(r)
           \/ UNCHANGED receiverOpenVars
  BY <1>1, <1>5 DEF PeerPosts, receiverOpenVars, receiverVars
<1> QED
  BY <1>2, <1>3, <1>4, <1>5 DEF ReceiverOpenNext, ReceiverNext

\* The history and the dropped messages, at any time.
LEMMA ReceiverFiles == ReceiverSpec => [](HistoryOK /\ DroppedOK)
<1>1. ReceiverOpenInit => HistoryOK /\ DroppedOK
  BY ReceiverAssumption, FiledInit
<1>2. ReceiverOpenTypeOK /\ OneCopy /\ HistoryOK /\ DroppedOK
        /\ [ReceiverOpenNext]_receiverOpenVars
        => (HistoryOK /\ DroppedOK)'
  BY ReceiverAssumption, FiledStep
<1> QED
  BY <1>1, <1>2, ReceiverTypes, ReceiverOneCopy, PTL DEF ReceiverSpec

\* A message accepted in silence because of a block is never pushed or shown,
\* whatever is retried after the block is lifted: _handle_relay_post records
\* its id before it looks at the block.
THEOREM ReceiverDropsForGood == ReceiverSpec => []DroppedStaysDropped
<1>1. DroppedOK => DroppedStaysDropped
  BY DEF DroppedOK, DroppedStaysDropped
<1> QED
  BY <1>1, ReceiverFiles, PTL

-----------------------------------------------------------------------------
(* The order of a recipient's queue.                                       *)

\* No other socket registers as the recipient that s registers as.
Sole(s) == \A t \in Socks : Owner[t] = Owner[s] => t = s

\* QueueInOrder for the recipients who have one connection.
SoleInOrder ==
    \A s \in Socks : Sole(s) => InOrder(history, draining[s] \o relayQueue[Owner[s]])

\* What a recipient's socket drains and what is queued behind it.
LEMMA SolePartsInOrder ==
    ASSUME ReceiverAssumption, ReceiverTypeOK, NEW s \in Socks
    PROVE  /\ draining[s] \in Seq(Msgs) /\ relayQueue[Owner[s]] \in Seq(Msgs)
           /\ InOrder(history, draining[s] \o relayQueue[Owner[s]]) <=>
                /\ InOrder(history, draining[s]) /\ InOrder(history, relayQueue[Owner[s]])
                /\ \A x \in ToSet(draining[s]), y \in ToSet(relayQueue[Owner[s]]) :
                     Ahead(history, x, y)
<1>1. draining[s] \in Seq(Msgs) /\ relayQueue[Owner[s]] \in Seq(Msgs)
  BY DEF ReceiverAssumption, ReceiverTypeOK
<1> QED
  BY <1>1, ConcatInOrder

\* Saving a message leaves the order of the others as it is.
LEMMA SavedInOrder ==
    ASSUME NEW h \in Seq(Msgs), NEW m \in Msgs, NEW q \in Seq(Msgs), InOrder(h, q)
    PROVE  InOrder(Saved(h, m), q)
<1>1. \A i \in DOMAIN q : q[i] \in Msgs
  OBVIOUS
<1> QED
  BY <1>1, SavedParts DEF InOrder

\* Nothing is queued, drained or saved.
LEMMA OrderSame ==
    ASSUME SoleInOrder, UNCHANGED <<history, relayQueue, draining>>
    PROVE  SoleInOrder'
BY DEF SoleInOrder

\* A message that was not saved before is queued behind the others.
LEMMA OrderPush ==
    ASSUME ReceiverAssumption, ReceiverTypeOK, OneCopy, HistoryOK, SoleInOrder,
           NEW u \in Users, NEW m \in Msgs, m \notin ToSet(history),
           history' = Saved(history, m),
           relayQueue' = [relayQueue EXCEPT ![u] = Push(@, m)],
           draining' = draining
    PROVE  SoleInOrder'
<1> DEFINE h == Saved(history, m)
<1>1. \A x \in ToSet(history) : Ahead(h, x, m)
  BY SavedParts DEF ReceiverTypeOK
<1> SUFFICES ASSUME NEW s \in Socks, Sole(s)
             PROVE  InOrder(h, draining[s] \o relayQueue'[Owner[s]])
  BY DEF SoleInOrder
<1> DEFINE d == draining[s]
           q == relayQueue[Owner[s]]
           p == relayQueue'[Owner[s]]
<1>2. /\ d \in Seq(Msgs) /\ q \in Seq(Msgs) /\ Owner[s] \in Users
      /\ ToSet(d) \subseteq Queued /\ ToSet(q) \subseteq Queued
      /\ Distinct(q) /\ m \notin ToSet(q)
  <2>1. d \in Seq(Msgs) /\ q \in Seq(Msgs) /\ Owner[s] \in Users
    BY DEF ReceiverAssumption, ReceiverTypeOK
  <2>2. ToSet(d) \subseteq Msgs /\ ToSet(q) \subseteq Msgs
    BY <2>1 DEF ToSet
  <2>3. ToSet(d) \subseteq Queued /\ ToSet(q) \subseteq Queued
    BY <2>1, <2>2 DEF Queued
  <2> QED
    BY <2>1, <2>3 DEF OneCopy, QueuesDisjoint, HistoryOK
<1>3. \A x \in ToSet(d) \cup ToSet(q) : x \in ToSet(history) /\ x \in Msgs
  BY <1>2 DEF HistoryOK, Queued
<1>4. InOrder(history, d \o q)
  BY DEF SoleInOrder
<1>5. InOrder(h, d \o q)
  <2>1. d \o q \in Seq(Msgs)
    BY <1>2
  <2> QED
    BY <1>4, <2>1, SavedInOrder DEF ReceiverTypeOK
<1> HIDE DEF h, d, q
<1>6. /\ InOrder(h, d) /\ InOrder(h, q)
      /\ \A x \in ToSet(d), y \in ToSet(q) : Ahead(h, x, y)
  BY <1>2, <1>5, ConcatInOrder
<1>7. p = q \/ p = Push(q, m)
  BY <1>2 DEF ReceiverTypeOK, q
<1>8. CASE p = q
  BY <1>5, <1>8 DEF d, p
<1>9. CASE p = Push(q, m)
  <2>1. /\ p \in Seq(Msgs) /\ InOrder(h, p) /\ ToSet(p) \subseteq ToSet(q) \cup {m}
    BY <1>1, <1>2, <1>3, <1>6, <1>9, PushInOrder, PushDistinct
  <2> HIDE DEF p
  <2>2. \A x \in ToSet(d), y \in ToSet(p) : Ahead(h, x, y)
    BY <1>1, <1>3, <1>6, <2>1
  <2>3. InOrder(h, d \o p)
    BY <1>2, <1>6, <2>1, <2>2, ConcatInOrder
  <2> QED
    BY <2>3 DEF d, p
<1> QED
  BY <1>7, <1>8, <1>9

\* A message is saved that is queued nowhere.
LEMMA OrderSave ==
    ASSUME ReceiverAssumption, ReceiverTypeOK, SoleInOrder, NEW m \in Msgs,
           history' = Saved(history, m), UNCHANGED <<relayQueue, draining>>
    PROVE  SoleInOrder'
<1> SUFFICES ASSUME NEW s \in Socks, Sole(s)
             PROVE  InOrder(Saved(history, m), draining[s] \o relayQueue[Owner[s]])
  BY DEF SoleInOrder
<1>1. draining[s] \o relayQueue[Owner[s]] \in Seq(Msgs)
  BY DEF ReceiverAssumption, ReceiverTypeOK
<1> QED
  BY <1>1, SavedInOrder DEF SoleInOrder, ReceiverTypeOK

LEMMA OrderSockets ==
    ASSUME ReceiverAssumption, ReceiverTypeOK, SoleInOrder, Sockets
    PROVE  SoleInOrder'
<1> PICK t \in Socks : Register(t) \/ DrainOne(t) \/ DrainFail(t) \/ Disconnect(t)
  BY DEF Sockets
<1>1. CASE Disconnect(t)
  BY <1>1, OrderSame DEF Disconnect
<1>2. history' = history
  BY DEF Register, DrainOne, DrainFail, Disconnect
<1> SUFFICES ASSUME Register(t) \/ DrainOne(t) \/ DrainFail(t), NEW s \in Socks, Sole(s)
             PROVE  InOrder(history, draining'[s] \o relayQueue'[Owner[s]])
  BY <1>1, <1>2 DEF SoleInOrder
<1> DEFINE d == draining[s]
           q == relayQueue[Owner[s]]
<1>3. /\ d \in Seq(Msgs) /\ q \in Seq(Msgs) /\ Owner[s] \in Users /\ Owner[t] \in Users
      /\ <<>> \in Seq(Msgs)
  BY DEF ReceiverAssumption, ReceiverTypeOK
<1>4. InOrder(history, d \o q)
  BY DEF SoleInOrder
<1>5. CASE t # s
  <2>1. Owner[t] # Owner[s]
    BY <1>5 DEF Sole
  <2>2. draining'[s] = draining[s] /\ relayQueue'[Owner[s]] = relayQueue[Owner[s]]
    BY <1>3, <1>5, <2>1 DEF Register, DrainOne, DrainFail, ReceiverTypeOK
  <2> QED
    BY <1>4, <2>2
<1>6. CASE t = s
  <2>1. CASE Register(s)
    <3>1. d = <<>> /\ draining'[s] = q /\ relayQueue'[Owner[s]] = <<>>
      BY <1>3, <2>1 DEF Register, ReceiverTypeOK
    <3>2. d \o q = q /\ q \o <<>> = q
      BY <1>3, <3>1
    <3> QED
      BY <1>4, <3>1, <3>2
  <2>2. CASE DrainOne(s)
    <3>1. d # <<>> /\ draining'[s] = Tail(d) /\ relayQueue'[Owner[s]] = q
      BY <1>3, <2>2 DEF DrainOne, ReceiverTypeOK
    <3>2. Tail(d) \in Seq(Msgs) /\ ToSet(Tail(d)) \subseteq ToSet(d)
      <4>1. /\ Tail(d) \in Seq(Msgs) /\ DOMAIN d = 1..Len(d)
            /\ DOMAIN Tail(d) = 1..(Len(d) - 1) /\ Len(d) \in Nat
            /\ \A i \in 1..(Len(d) - 1) : Tail(d)[i] = d[i + 1] /\ i + 1 \in 1..Len(d)
        BY <1>3, <3>1
      <4> QED
        BY <4>1 DEF ToSet
    <3> HIDE DEF d, q
    <3>3. /\ InOrder(history, d) /\ InOrder(history, q)
          /\ \A x \in ToSet(d), y \in ToSet(q) : Ahead(history, x, y)
      BY <1>3, <1>4, ConcatInOrder
    <3>4. InOrder(history, Tail(d))
      BY <1>3, <3>1, <3>3, TailInOrder
    <3>5. InOrder(history, Tail(d) \o q)
      BY <1>3, <3>2, <3>3, <3>4, ConcatInOrder
    <3> QED
      BY <3>1, <3>5
  <2>3. CASE DrainFail(s)
    <3>1. draining'[s] = <<>> /\ relayQueue'[Owner[s]] = d \o q
      BY <1>3, <2>3 DEF DrainFail, ReceiverTypeOK
    <3>2. <<>> \o (d \o q) = d \o q
      BY <1>3
    <3> QED
      BY <1>4, <3>1, <3>2
  <2> QED
    BY <1>6, <2>1, <2>2, <2>3
<1> QED
  BY <1>5, <1>6

LEMMA OrderStep ==
    ASSUME ReceiverAssumption, ReceiverOpenTypeOK, OneCopy, HistoryOK, SoleInOrder,
           [ReceiverOpenNext]_receiverOpenVars
    PROVE  SoleInOrder'
<1>0. WireTypeOK /\ ReceiverTypeOK
  BY DEF ReceiverOpenTypeOK
<1>1. ASSUME NEW r \in requests, StoreOffline(r)  PROVE SoleInOrder'
  <2>1. r.id \in Msgs /\ Dest[r.id] \in Users
    BY <1>0, RequestParts DEF WireTypeOK
  <2>2. r.id \notin ToSet(history)
    BY <1>1 DEF StoreOffline, Fresh, HistoryOK
  <2> QED
    BY <1>0, <1>1, <2>1, <2>2, OrderPush DEF StoreOffline
<1>2. ASSUME LoseMemory  PROVE SoleInOrder'
  <2>1. <<>> \o <<>> = <<>> /\ DOMAIN <<>> = {}
    OBVIOUS
  <2>2. \A s \in Socks : draining'[s] \o relayQueue'[Owner[s]] = <<>>
    BY <1>2, <2>1 DEF LoseMemory, ReceiverAssumption
  <2> QED
    BY <2>1, <2>2 DEF SoleInOrder, InOrder
<1>3. CASE HandleRelay
  <2> PICK r \in requests :
        \/ RateLimit(r) \/ AnswerDuplicate(r) \/ AnswerReplay(r)
        \/ RefuseRevoked(r) \/ DropBlocked(r) \/ StartLive(r)
        \/ StoreOffline(r) \/ RefuseFull(r) \/ KillAfterRecord(r)
    BY <1>3 DEF HandleRelay
  <2>1. CASE \/ RateLimit(r) \/ AnswerDuplicate(r) \/ AnswerReplay(r)
             \/ RefuseRevoked(r) \/ DropBlocked(r) \/ StartLive(r) \/ RefuseFull(r)
    BY <2>1, OrderSame
    DEF RateLimit, AnswerDuplicate, AnswerReplay, RefuseRevoked, DropBlocked,
        StartLive, RefuseFull, receiverVars
  <2>2. CASE StoreOffline(r) \/ KillAfterRecord(r)
    BY <1>1, <1>2, <2>2 DEF KillAfterRecord
  <2> QED
    BY <2>1, <2>2
<1>4. CASE LiveDelivery
  <2> PICK h \in handling :
        LiveSend(h) \/ LiveSave(h) \/ LiveFailStore(h) \/ LiveFailFull(h)
    BY <1>4 DEF LiveDelivery
  <2>1. h.req.id \in Msgs /\ Dest[h.req.id] \in Users
    BY <1>0, HandlerParts, RequestParts DEF ReceiverTypeOK
  <2>2. h.req.id \notin ToSet(history)
    BY DEF HistoryOK
  <2>3. CASE LiveSend(h) \/ LiveFailFull(h)
    BY <2>3, OrderSame DEF LiveSend, LiveFailFull, Reply2
  <2>4. CASE LiveSave(h)
    BY <1>0, <2>1, <2>4, OrderSave DEF LiveSave
  <2>5. CASE LiveFailStore(h)
    BY <1>0, <2>1, <2>2, <2>5, OrderPush DEF LiveFailStore
  <2> QED
    BY <2>3, <2>4, <2>5
<1>5. CASE Sockets
  BY <1>0, <1>5, OrderSockets
<1>6. CASE OwnerActs
  BY <1>6, OrderSame DEF OwnerActs, RevokeSender, ReAddSender, ToggleBlock
<1>7. CASE Kill
  BY <1>2, <1>7 DEF Kill
<1>8. CASE \/ \E r \in Request : PeerPosts(r)
           \/ UNCHANGED receiverOpenVars
  BY <1>8, OrderSame DEF PeerPosts, receiverOpenVars, receiverVars
<1> QED
  BY <1>3, <1>4, <1>5, <1>6, <1>7, <1>8 DEF ReceiverOpenNext, ReceiverNext

\* What a recipient with one connection still gets is in the order in which it
\* was taken: the drain before the queue, although a drain that fails puts back
\* what is left while relays queue more.
THEOREM ReceiverKeepsOrder == ReceiverSpec => []SoleInOrder
<1>1. ReceiverOpenInit => SoleInOrder
  <2> SUFFICES ASSUME ReceiverOpenInit  PROVE SoleInOrder
    OBVIOUS
  <2>1. <<>> \o <<>> = <<>> /\ DOMAIN <<>> = {}
    OBVIOUS
  <2>2. \A s \in Socks : draining[s] \o relayQueue[Owner[s]] = <<>>
    BY <2>1, ReceiverAssumption DEF ReceiverOpenInit, ReceiverInit, ReceiverAssumption
  <2> QED
    BY <2>1, <2>2 DEF SoleInOrder, InOrder
<1>2. ReceiverOpenTypeOK /\ OneCopy /\ HistoryOK /\ SoleInOrder
        /\ [ReceiverOpenNext]_receiverOpenVars
        => SoleInOrder'
  BY ReceiverAssumption, OrderStep
<1> QED
  BY <1>1, <1>2, ReceiverTypes, ReceiverOneCopy, ReceiverFiles, PTL DEF ReceiverSpec

\* QueueInOrder, when every recipient has one connection.  (With two, a drain
\* that fails puts back what is older than what the other has already sent.)
THEOREM ReceiverQueueInOrder ==
    ASSUME \A s \in Socks : Sole(s)
    PROVE  ReceiverSpec => []QueueInOrder
<1>1. SoleInOrder => QueueInOrder
  BY DEF SoleInOrder, QueueInOrder, InOrder, Ahead, Before
<1> QED
  BY <1>1, ReceiverKeepsOrder, PTL
=============================================================================
