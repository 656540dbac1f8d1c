------------------------ MODULE RatchetSession_proofs ------------------------
(***************************************************************************)
(* Proofs about RatchetSession: for people who write as much as they like, *)
(* with any number of reloads, lost and late PUTs and messages in any      *)
(* order, a load finds the session saved last (LoadsNewest), no two        *)
(* messages share a key (NoKeyIsReused), none opens twice                  *)
(* (NothingOpensTwice) and a copy of a session opens nothing its owner has *)
(* sent or opened, once the pair the first chain was made with is gone     *)
(* (SpentKeysAreGone), as long as no session was lost.  If, besides, the   *)
(* two did not both begin, every message that was not given up opens       *)
(* whenever it comes (EveryMessageOpens).                                  *)
(*                                                                         *)
(* The chains of the two people are told apart by who began and by their   *)
(* length: every ratchet step appends one key agreement to the root, and   *)
(* the two take turns.  A chain of one person is told from the others of   *)
(* the same person by the ratchet key in its last agreement.  What a       *)
(* session can still read is ahead of all it has read: the keys it keeps   *)
(* are of other numbers, its chain is at a later one, and the chains to    *)
(* come are longer.  Of the two one is ahead, on a chain the other has not *)
(* read, or they are level; so a message the reader has no chain for is on *)
(* the one chain it can make from its root.  All chains of a conversation  *)
(* start with the same agreement, so from the public root nobody without   *)
(* the pair of that agreement makes any of them.                           *)
(***************************************************************************)
EXTENDS RatchetSession, Picking_proofs

Pairs == Parties \X Nat

\* A chain p may send on: p began it and it has an odd number of agreements, or
\* the other began it and it has an even number.
Mine(p, c) ==
    /\ c \in Seq(SUBSET Pairs)
    /\ Len(c) >= 1
    /\ \E i \in Nat \ {0} :
          \/ c[1] = {<<p, i>>, Identity(Peer(p))} /\ Len(c) % 2 = 1
          \/ c[1] = {<<Peer(p), i>>, Identity(p)} /\ Len(c) % 2 = 0

\* A chain p made with its ratchet key pub.
MadeWith(p, c, pub) ==
    /\ Mine(p, c)
    /\ pub \in {p} \X (Nat \ {0})
    /\ \E k \in {Peer(p)} \X Nat : c[Len(c)] = {pub, k}

Fields == {"ver", "rootKey", "myRatchetPub", "theirRatchetPub", "pendingDhRatchet",
           "sendChain", "sendMsgNum", "sendPrevLen", "recvChain", "recvMsgNum", "skippedKeys"}

IsState(p, s) ==
    /\ Fields \subseteq DOMAIN s
    /\ MadeWith(p, s.sendChain, s.myRatchetPub)
    /\ s.theirRatchetPub \in {Peer(p)} \X Nat
    /\ s.sendMsgNum \in Nat /\ s.sendPrevLen \in Nat
    /\ Len(s.sendChain) <= Len(s.rootKey)
    /\ s.pendingDhRatchet \in BOOLEAN
    /\ Mine(IF s.pendingDhRatchet THEN Peer(p) ELSE p, s.rootKey)

IsSaved(p, s) == IsState(p, s) /\ s.ver \in Nat \ {0}

-----------------------------------------------------------------------------
(* The two people, and their chains.                                       *)

LEMMA TwoPeople ==
  ASSUME NEW p \in Parties
  PROVE  /\ Peer(p) \in Parties /\ Peer(p) # p /\ Peer(Peer(p)) = p
         /\ \A x \in Parties : x = p \/ x = Peer(p)
<1>1. PICK a, b \in Parties : a # b /\ Parties = {a, b}
  BY RatchetAssumption
<1>2. \A x \in Parties : \E y \in Parties : y # x
  BY <1>1
<1>3. \A x \in Parties : Peer(x) \in Parties /\ Peer(x) # x
  BY <1>2 DEF Peer
<1> QED BY <1>1, <1>3

\* No chain is both people's.
LEMMA ApartByTurn ==
  ASSUME NEW p \in Parties, NEW c, Mine(p, c)
  PROVE  ~Mine(Peer(p), c)
<1> DEFINE q == Peer(p)
<1>1. q # p /\ Peer(q) = p
  BY TwoPeople
<1>2. SUFFICES ASSUME Mine(q, c) PROVE FALSE
  OBVIOUS
<1>3. PICK i \in Nat \ {0} : \/ c[1] = {<<p, i>>, <<q, 0>>} /\ Len(c) % 2 = 1
                             \/ c[1] = {<<q, i>>, <<p, 0>>} /\ Len(c) % 2 = 0
  BY DEF Mine, Identity
<1>4. PICK j \in Nat \ {0} : \/ c[1] = {<<q, j>>, <<p, 0>>} /\ Len(c) % 2 = 1
                             \/ c[1] = {<<p, j>>, <<q, 0>>} /\ Len(c) % 2 = 0
  BY <1>1, <1>2 DEF Mine, Identity
<1> HIDE DEF q
<1>5. {<<p, i>>, <<q, 0>>} # {<<q, j>>, <<p, 0>>}
  BY <1>1
<1>6. {<<q, i>>, <<p, 0>>} # {<<p, j>>, <<q, 0>>}
  BY <1>1
<1> QED BY <1>3, <1>4, <1>5, <1>6

\* One agreement more and it is the other's turn.
LEMMA TakeTurns ==
  ASSUME NEW p \in Parties, NEW c, Mine(p, c), NEW d \in SUBSET Pairs
  PROVE  /\ Mine(Peer(p), Append(c, d))
         /\ Append(c, d)[Len(Append(c, d))] = d
<1> DEFINE a == Append(c, d)
<1>1. c \in Seq(SUBSET Pairs) /\ Len(c) \in Nat /\ Len(c) >= 1
  BY DEF Mine
<1>2. a \in Seq(SUBSET Pairs) /\ Len(a) = Len(c) + 1 /\ a[1] = c[1] /\ a[Len(a)] = d
  BY <1>1
<1>3. PICK i \in Nat \ {0} : \/ c[1] = {<<p, i>>, Identity(Peer(p))} /\ Len(c) % 2 = 1
                             \/ c[1] = {<<Peer(p), i>>, Identity(p)} /\ Len(c) % 2 = 0
  BY DEF Mine
<1>4. Peer(Peer(p)) = p
  BY TwoPeople
<1>5. (Len(c) % 2 = 1 => Len(a) % 2 = 0) /\ (Len(c) % 2 = 0 => Len(a) % 2 = 1)
  BY <1>1, <1>2
<1>6. \/ a[1] = {<<Peer(p), i>>, Identity(Peer(Peer(p)))} /\ Len(a) % 2 = 1
      \/ a[1] = {<<Peer(Peer(p)), i>>, Identity(Peer(p))} /\ Len(a) % 2 = 0
  BY <1>2, <1>3, <1>4, <1>5
<1>7. Len(a) >= 1
  BY <1>1, <1>2
<1> HIDE DEF a
<1>8. Mine(Peer(p), a)
  BY <1>2, <1>6, <1>7 DEF Mine
<1> QED BY <1>2, <1>8 DEF a

\* A chain names the ratchet key it was made with.
LEMMA ChainNamesKey ==
  ASSUME NEW p \in Parties, NEW c, NEW a, NEW b, MadeWith(p, c, a), MadeWith(p, c, b)
  PROVE  a = b
<1>1. Peer(p) # p
  BY TwoPeople
<1>2. PICK k \in {Peer(p)} \X Nat, l \in {Peer(p)} \X Nat : {a, k} = {b, l}
  BY DEF MadeWith
<1>3. a \in {p} \X (Nat \ {0}) /\ b \in {p} \X (Nat \ {0})
  BY DEF MadeWith
<1>4. a # l /\ b # k
  BY <1>1, <1>3
<1> QED BY <1>2, <1>4

-----------------------------------------------------------------------------
(* The functions of the ratchet.                                           *)

\* What two sessions have in common if only the receiving side differs.
SameSender(s, t) ==
    /\ t.rootKey = s.rootKey /\ t.sendChain = s.sendChain
    /\ t.sendMsgNum = s.sendMsgNum /\ t.sendPrevLen = s.sendPrevLen
    /\ t.myRatchetPub = s.myRatchetPub
    /\ t.theirRatchetPub = s.theirRatchetPub
    /\ t.pendingDhRatchet = s.pendingDhRatchet /\ t.ver = s.ver

LEMMA SkipToKeeps ==
  ASSUME NEW s, NEW stop, Fields \subseteq DOMAIN s
  PROVE  /\ Fields \subseteq DOMAIN SkipTo(s, stop)
         /\ SameSender(s, SkipTo(s, stop))
<1> DEFINE kept == s.skippedKeys \o [i \in 1..(stop - s.recvMsgNum) |->
                      Skipped(s.theirRatchetPub, s.recvMsgNum + i - 1, s.recvChain)]
<1>1. CASE s.recvMsgNum >= stop
  BY <1>1 DEF SkipTo, SameSender
<1>2. CASE ~(s.recvMsgNum >= stop)
  <2>1. SkipTo(s, stop) = [s EXCEPT !.recvMsgNum = stop, !.skippedKeys = kept]
    BY <1>2, Zenon DEF SkipTo, Fields
  <2> HIDE DEF kept
  <2> QED BY <2>1 DEF SameSender, Fields
<1> QED BY <1>1, <1>2

LEMMA RetireKeeps ==
  ASSUME NEW s, NEW pn, Fields \subseteq DOMAIN s
  PROVE  /\ Fields \subseteq DOMAIN Retire(s, pn)
         /\ SameSender(s, Retire(s, pn))
<1> DEFINE young == Picked(s.skippedKeys,
                           {k \in ToSet(s.skippedKeys) : k.pub = s.theirRatchetPub})
           kept == [s EXCEPT !.skippedKeys = young]
           stop == Least(pn, s.recvMsgNum + MaxSkip)
<1>1. Retire(s, pn) = IF s.recvChain = NoChain THEN kept ELSE SkipTo(kept, stop)
  BY Zenon DEF Retire, Fields
<1> HIDE DEF young
<1>2. Fields \subseteq DOMAIN kept /\ SameSender(s, kept)
  BY DEF SameSender, Fields
<1> HIDE DEF kept, stop
<1>3. Fields \subseteq DOMAIN SkipTo(kept, stop) /\ SameSender(kept, SkipTo(kept, stop))
  BY <1>2, SkipToKeeps
<1>4. SameSender(s, SkipTo(kept, stop))
  BY <1>2, <1>3 DEF SameSender
<1> QED BY <1>1, <1>2, <1>3, <1>4

\* A message under a new ratchet key moves the root on and leaves the sending
\* chain for the next text to move.
Received(s, t, pub) ==
    /\ Fields \subseteq DOMAIN t
    /\ t.rootKey = Append(s.rootKey, {pub, s.myRatchetPub}) /\ t.recvChain = t.rootKey
    /\ t.sendChain = s.sendChain /\ t.sendMsgNum = s.sendMsgNum /\ t.sendPrevLen = s.sendPrevLen
    /\ t.myRatchetPub = s.myRatchetPub /\ t.theirRatchetPub = pub
    /\ t.pendingDhRatchet \in BOOLEAN /\ t.pendingDhRatchet /\ t.ver = s.ver

LEMMA DhReceives ==
  ASSUME NEW s, NEW pub, NEW pn, Fields \subseteq DOMAIN s
  PROVE  Received(s, DhRatchetReceive(s, pub, pn), pub)
<1> DEFINE r == Retire(s, pn)
           root == Append(s.rootKey, {pub, s.myRatchetPub})
           t == [r EXCEPT !.rootKey = root, !.recvChain = root, !.recvMsgNum = 0,
                          !.theirRatchetPub = pub, !.pendingDhRatchet = TRUE]
<1>1. DhRatchetReceive(s, pub, pn) = t
  BY Zenon DEF DhRatchetReceive, KdfRk, Dh
<1>2. Fields \subseteq DOMAIN r /\ SameSender(s, r)
  BY RetireKeeps
<1> HIDE DEF r, root
<1>3. /\ Fields \subseteq DOMAIN t
      /\ t.rootKey = root /\ t.recvChain = root
      /\ t.sendChain = r.sendChain /\ t.sendMsgNum = r.sendMsgNum
      /\ t.sendPrevLen = r.sendPrevLen
      /\ t.myRatchetPub = r.myRatchetPub /\ t.theirRatchetPub = pub
      /\ t.pendingDhRatchet \in BOOLEAN /\ t.pendingDhRatchet /\ t.ver = r.ver
  BY <1>2 DEF Fields
<1> HIDE DEF t
<1>4. Received(s, t, pub)
  BY <1>2, <1>3 DEF SameSender, Received, root
<1> QED BY <1>1, <1>4

Stepped(s, t, fresh) ==
    /\ Fields \subseteq DOMAIN t
    /\ t.rootKey = Append(s.rootKey, {fresh, s.theirRatchetPub})
    /\ t.sendChain = t.rootKey /\ t.sendMsgNum = 0 /\ t.sendPrevLen = s.sendMsgNum
    /\ t.myRatchetPub = fresh /\ t.theirRatchetPub = s.theirRatchetPub
    /\ t.pendingDhRatchet \in BOOLEAN /\ ~t.pendingDhRatchet /\ t.ver = s.ver

LEMMA DhSends ==
  ASSUME NEW s, NEW fresh, Fields \subseteq DOMAIN s
  PROVE  Stepped(s, DhRatchetSend(s, fresh), fresh)
<1> DEFINE root == Append(s.rootKey, {fresh, s.theirRatchetPub})
           n == s.sendMsgNum
           t == [s EXCEPT !.sendPrevLen = n, !.sendChain = root, !.sendMsgNum = 0,
                          !.rootKey = root, !.myRatchetPub = fresh, !.pendingDhRatchet = FALSE]
<1>1. DhRatchetSend(s, fresh) = t
  BY Zenon DEF DhRatchetSend, KdfRk, Dh
<1> HIDE DEF root, n
<1>2. /\ Fields \subseteq DOMAIN t
      /\ t.rootKey = root /\ t.sendChain = root /\ t.sendMsgNum = 0 /\ t.sendPrevLen = n
      /\ t.myRatchetPub = fresh /\ t.theirRatchetPub = s.theirRatchetPub
      /\ t.pendingDhRatchet \in BOOLEAN /\ ~t.pendingDhRatchet /\ t.ver = s.ver
  BY DEF Fields
<1> HIDE DEF t
<1>3. Stepped(s, t, fresh)
  BY <1>2 DEF Stepped, root, n
<1> QED BY <1>1, <1>3

\* An agreement more does not make a root shorter.
LEMMA LongerRoot ==
  ASSUME NEW root \in Seq(SUBSET Pairs), NEW d \in SUBSET Pairs
  PROVE  Len(root) <= Len(Append(root, d)) /\ Len(root) \in Nat
<1> QED BY AppendProperties, LenProperties

\* The session a text is encrypted with is one of p's: a new key starts at
\* number 0, otherwise nothing has changed.
LEMMA SendStateFits ==
  ASSUME NEW p \in Parties, NEW s, s = Nothing \/ IsState(p, s), NEW i \in Nat \ {0}
  PROVE  LET t == SendState(p, s, <<p, i>>) IN
         /\ IsState(p, t)
         /\ t.ver = s.ver
         /\ s # Nothing => Len(s.rootKey) <= Len(t.rootKey)
         /\ \/ t = s /\ s # Nothing
            \/ t.myRatchetPub = <<p, i>> /\ t.sendMsgNum = 0
<1> DEFINE q == Peer(p)
           fresh == <<p, i>>
<1>1. q \in Parties /\ q # p
  BY TwoPeople
<1>2. CASE s = Nothing
  <2> DEFINE d == {fresh, <<q, 0>>}
             root == Append(<<>>, d)
             t == [ver |-> 0, rootKey |-> root, myRatchetPub |-> fresh,
                   theirRatchetPub |-> <<q, 0>>, pendingDhRatchet |-> FALSE,
                   sendChain |-> root, sendMsgNum |-> 0, sendPrevLen |-> 0,
                   recvChain |-> NoChain, recvMsgNum |-> 0, skippedKeys |-> <<>>]
  <2>1. SendState(p, s, fresh) = t
    BY <1>2 DEF SendState, InitSenderState, KdfRk, Dh, ZeroRoot, Identity
  <2>2. d \in SUBSET Pairs
    BY <1>1 DEF Pairs
  <2>3. root \in Seq(SUBSET Pairs) /\ Len(root) = 1 /\ root[1] = d
    BY <2>2
  <2>4. Mine(p, root)
    BY <2>3 DEF Mine, Identity
  <2>5. MadeWith(p, root, fresh)
    BY <2>3, <2>4 DEF MadeWith
  <2>6. Len(root) <= Len(root)
    BY <2>3
  <2> HIDE DEF root, d
  <2>7. IsState(p, t) /\ t.ver = s.ver /\ t.myRatchetPub = fresh /\ t.sendMsgNum = 0
    BY <1>2, <2>4, <2>5, <2>6 DEF IsState, Fields, Nothing
  <2> HIDE DEF t
  <2> QED BY <1>2, <2>1, <2>7
<1>3. CASE s # Nothing /\ s.pendingDhRatchet
  <2> DEFINE t == DhRatchetSend(s, fresh)
             d == {fresh, s.theirRatchetPub}
  <2>1. IsState(p, s) /\ Fields \subseteq DOMAIN s
    BY <1>3 DEF IsState
  <2>2. Stepped(s, t, fresh)
    BY <2>1, DhSends
  <2>3. Mine(q, s.rootKey) /\ s.theirRatchetPub \in {q} \X Nat
    BY <1>3, <2>1 DEF IsState
  <2>4. d \in SUBSET Pairs
    BY <1>1, <2>3 DEF Pairs
  <2>5. Mine(p, Append(s.rootKey, d)) /\ Append(s.rootKey, d)[Len(Append(s.rootKey, d))] = d
    BY <1>1, <2>3, <2>4, TakeTurns, TwoPeople
  <2>6. MadeWith(p, Append(s.rootKey, d), fresh)
    BY <2>3, <2>5 DEF MadeWith
  <2> HIDE DEF t, d
  <2>7. IsState(p, t)
    <3>1. MadeWith(p, t.sendChain, t.myRatchetPub)
      BY <2>2, <2>6 DEF Stepped, d
    <3>2. Mine(p, t.rootKey) /\ ~t.pendingDhRatchet
      BY <2>2, <2>5 DEF Stepped, d
    <3>3. Mine(IF t.pendingDhRatchet THEN q ELSE p, t.rootKey)
      BY <3>2
    <3>4. Fields \subseteq DOMAIN t /\ t.theirRatchetPub \in {q} \X Nat
          /\ t.sendMsgNum \in Nat /\ t.sendPrevLen \in Nat
      BY <2>1, <2>2, <2>3 DEF Stepped, IsState
    <3>5. Len(t.sendChain) <= Len(t.rootKey)
      <4>1. t.rootKey \in Seq(SUBSET Pairs)
        BY <3>2 DEF Mine
      <4>2. Len(t.rootKey) \in Nat
        BY <4>1, LenProperties
      <4> QED BY <2>2, <4>2 DEF Stepped
    <3>6. t.pendingDhRatchet \in BOOLEAN
      BY <2>2 DEF Stepped
    <3> QED BY <3>1, <3>3, <3>4, <3>6, <3>5 DEF IsState
  <2>8. SendState(p, s, fresh) = t
    BY <1>3 DEF SendState, t
  <2>9. t.ver = s.ver /\ t.myRatchetPub = fresh /\ t.sendMsgNum = 0
    BY <2>2 DEF Stepped
  <2>10. Len(s.rootKey) <= Len(t.rootKey)
    BY <2>2, <2>4, LongerRoot DEF Stepped, d, Mine, IsState
  <2> QED BY <2>7, <2>8, <2>9, <2>10
<1>4. CASE s # Nothing /\ ~s.pendingDhRatchet
  <2>1. Len(s.rootKey) \in Nat
    BY <1>4, LenProperties DEF IsState, Mine
  <2> QED BY <1>4, <2>1 DEF SendState
<1> QED BY <1>2, <1>3, <1>4

\* A session that opened a message of the other person is one of p's, and is at
\* the same place of its own chain as before, unless the message began it.
LEMMA OpenedFits ==
  ASSUME NEW p \in Parties, NEW s, s = Nothing \/ IsState(p, s), NEW i \in Nat \ {0},
         NEW m, Mine(Peer(p), m.chain), m.pub \in {Peer(p)} \X (Nat \ {0}),
         Decrypted(p, s, m, <<p, i>>).opens
  PROVE  LET t == Decrypted(p, s, m, <<p, i>>).state IN
         /\ IsState(p, t)
         /\ t.ver = s.ver
         /\ s # Nothing => Len(s.rootKey) <= Len(t.rootKey)
         /\ IF s = Nothing THEN t.myRatchetPub = <<p, i>> /\ t.sendMsgNum = 0
            ELSE t.myRatchetPub = s.myRatchetPub /\ t.sendMsgNum = s.sendMsgNum
<1> DEFINE q == Peer(p)
           fresh == <<p, i>>
           dec == Decrypted(p, s, m, fresh)
           r == ReadState(p, s, m, fresh)
           u == SkipTo(r, m.n)
           cut == CapSkippedKeys(u.skippedKeys)
           num == u.recvMsgNum + 1
           t == [u EXCEPT !.recvMsgNum = num, !.skippedKeys = cut]
<1>1. q \in Parties /\ q # p /\ Peer(q) = p
  BY TwoPeople
<1>2. CASE s # Nothing /\ Kept(s, m) # {}
  <2> DEFINE j == CHOOSE j \in Kept(s, m) : TRUE
             rest == RemoveAt(s.skippedKeys, j)
             v == [s EXCEPT !.skippedKeys = rest]
  <2>1. dec.state = v
    BY <1>2 DEF Decrypted, UseKept
  <2>2. IsState(p, s) /\ Fields \subseteq DOMAIN s
    BY <1>2 DEF IsState
  <2> HIDE DEF rest
  <2>3. Fields \subseteq DOMAIN v /\ SameSender(s, v)
    BY <2>2 DEF Fields, SameSender
  <2> HIDE DEF v, dec
  <2>4. IsState(p, v)
    BY <2>2, <2>3 DEF IsState, SameSender
  <2>5. Len(s.rootKey) \in Nat
    BY <2>2, LenProperties DEF IsState, Mine
  <2> QED BY <1>2, <2>1, <2>3, <2>4, <2>5 DEF SameSender, dec
<1>3. CASE ~(s # Nothing /\ Kept(s, m) # {})
  <2>1. dec.state = t /\ r.recvChain = m.chain
    BY <1>3, Zenon DEF Decrypted
  <2>2. /\ IsState(p, r) /\ r.ver = s.ver
        /\ s # Nothing => Len(s.rootKey) <= Len(r.rootKey)
        /\ IF s = Nothing THEN r.myRatchetPub = fresh /\ r.sendMsgNum = 0
           ELSE r.myRatchetPub = s.myRatchetPub /\ r.sendMsgNum = s.sendMsgNum
    <3>1. CASE s = Nothing
      <4> DEFINE d == {m.pub, <<p, 0>>}
                 e == {m.pub, fresh}
                 root == Append(<<>>, d)
                 next == Append(root, e)
                 w == [ver |-> 0, rootKey |-> next, myRatchetPub |-> fresh,
                       theirRatchetPub |-> m.pub, pendingDhRatchet |-> FALSE,
                       sendChain |-> next, sendMsgNum |-> 0, sendPrevLen |-> 0,
                       recvChain |-> root, recvMsgNum |-> 0, skippedKeys |-> <<>>]
      <4>1. r = w
        BY <3>1 DEF ReadState, InitReceiverState, KdfRk, Dh, ZeroRoot, Identity
      <4>2. d \in SUBSET Pairs /\ e \in SUBSET Pairs
        BY <1>1 DEF Pairs
      <4>3. PICK k \in Nat \ {0} : m.pub = <<q, k>>
        OBVIOUS
      <4>4. root \in Seq(SUBSET Pairs) /\ Len(root) = 1 /\ root[1] = {<<q, k>>, <<p, 0>>}
        BY <4>2, <4>3
      <4>5. Mine(q, root)
        BY <1>1, <4>4 DEF Mine, Identity
      <4>6. Mine(p, next) /\ next[Len(next)] = e
        BY <1>1, <4>2, <4>5, TakeTurns
      <4>7. Len(next) <= Len(next)
        BY <4>6, LenProperties DEF Mine
      <4> HIDE DEF next
      <4>8. MadeWith(p, next, fresh)
        BY <4>3, <4>6 DEF MadeWith
      <4> HIDE DEF root
      <4>9. IsState(p, w) /\ w.ver = s.ver /\ w.myRatchetPub = fresh /\ w.sendMsgNum = 0
        BY <3>1, <4>6, <4>8, <4>7 DEF IsState, Fields, Nothing
      <4> HIDE DEF w
      <4> QED BY <3>1, <4>1, <4>9
    <3>2. CASE s # Nothing /\ m.pub = s.theirRatchetPub
      <4>1. Len(s.rootKey) \in Nat
        BY <3>2, LenProperties DEF IsState, Mine
      <4> QED BY <3>2, <4>1 DEF ReadState
    <3>3. CASE s # Nothing /\ m.pub # s.theirRatchetPub
      <4>1. r = DhRatchetReceive(s, m.pub, m.pn)
        BY <3>3 DEF ReadState
      <4>2. IsState(p, s) /\ Fields \subseteq DOMAIN s
        BY <3>3 DEF IsState
      <4>3. Received(s, DhRatchetReceive(s, m.pub, m.pn), m.pub)
        BY <4>2, DhReceives
      <4> HIDE DEF r
      <4>4. Received(s, r, m.pub)
        BY <4>1, <4>3
      <4>5. Len(s.rootKey) <= Len(r.rootKey) /\ Len(s.sendChain) <= Len(r.sendChain)
            /\ Len(s.rootKey) \in Nat /\ Len(s.sendChain) \in Nat /\ Len(r.rootKey) \in Nat
        <5>1. m.pub \in Pairs /\ s.myRatchetPub \in Pairs
          BY <1>1, <4>2 DEF Pairs, IsState, MadeWith
        <5>2. s.rootKey \in Seq(SUBSET Pairs) /\ s.sendChain \in Seq(SUBSET Pairs)
          BY <4>2 DEF IsState, MadeWith, Mine
        <5>3. {m.pub, s.myRatchetPub} \in SUBSET Pairs
          BY <5>1
        <5>4. Len(s.rootKey) <= Len(r.rootKey) /\ Len(s.rootKey) \in Nat
          BY <4>4, <5>2, <5>3, LongerRoot DEF Received
        <5>5. r.rootKey \in Seq(SUBSET Pairs)
          BY <2>1, <4>4 DEF Received, Mine
        <5> QED BY <4>4, <5>2, <5>4, <5>5, LenProperties DEF Received
      <4>6. Mine(q, r.rootKey) /\ r.pendingDhRatchet
        BY <2>1, <4>4 DEF Received
      <4>7. IsState(p, r)
        <5>1. MadeWith(p, r.sendChain, r.myRatchetPub)
              /\ r.sendMsgNum \in Nat /\ r.sendPrevLen \in Nat
          BY <4>2, <4>4 DEF IsState, Received
        <5>2. Mine(IF r.pendingDhRatchet THEN q ELSE p, r.rootKey)
          BY <4>6
        <5>3. r.pendingDhRatchet \in BOOLEAN /\ Fields \subseteq DOMAIN r
          BY <4>4 DEF Received
        <5>4. r.theirRatchetPub \in {q} \X Nat
          BY <4>4 DEF Received
        <5>5. Len(r.sendChain) <= Len(r.rootKey)
          BY <4>2, <4>4, <4>5 DEF IsState, Received
        <5> QED BY <5>1, <5>2, <5>3, <5>4, <5>5 DEF IsState
      <4>8. r.ver = s.ver /\ r.myRatchetPub = s.myRatchetPub /\ r.sendMsgNum = s.sendMsgNum
        BY <4>4 DEF Received
      <4> QED BY <3>3, <4>7, <4>8, <4>5
    <3> QED BY <3>1, <3>2, <3>3
  <2> HIDE DEF r
  <2>3. Fields \subseteq DOMAIN u /\ SameSender(r, u)
    BY <2>2, SkipToKeeps DEF IsState
  <2> HIDE DEF u, cut, num
  <2>4. Fields \subseteq DOMAIN t /\ SameSender(u, t)
    BY <2>3 DEF Fields, SameSender
  <2> HIDE DEF t, dec
  <2>5. SameSender(r, t)
    BY <2>3, <2>4 DEF SameSender
  <2>6. IsState(p, t)
    BY <2>2, <2>4, <2>5 DEF IsState, SameSender
  <2> QED BY <2>1, <2>2, <2>5, <2>6 DEF SameSender, dec
<1> QED BY <1>2, <1>3

-----------------------------------------------------------------------------
(* The inductive invariant: what holds as long as no session was lost.     *)

Shape ==
    /\ DOMAIN cache = Parties /\ DOMAIN stored = Parties /\ DOMAIN pod = Parties
    /\ DOMAIN puts = Parties /\ DOMAIN late = Parties /\ DOMAIN ops = Parties
    /\ DOMAIN last = Parties /\ keys \in [Parties -> Nat]

\* A copy that is not newer than session l.
Old(c, l) == c = Nothing \/ c = l \/ (c.ver \in Nat /\ c.ver < l.ver)

\* The PUTs of a page.
Short(s, l) ==
    \/ s = <<>>
    \/ \E a : s = <<a>> /\ Old(a, l)
    \/ \E a, b : s = <<a, b>> /\ Old(a, l) /\ Old(b, l)

\* Memory and localStorage have the last session or none, every copy on the
\* pod or on its way to it is that one or an older one.
Held(p) ==
    /\ cache[p] \in {Nothing, last[p]} /\ stored[p] \in {Nothing, last[p]}
    /\ Old(pod[p], last[p])
    /\ \A c \in late[p] : Old(c, last[p])
    /\ Short(puts[p], last[p])

\* The operation that runs has loaded the last session.
Running(p) ==
    \/ ops[p] = <<>>
    \/ \E op : /\ ops[p] = <<op>> /\ op.state = last[p]
               /\ op.kind = "decrypt" => op.m \in sent /\ op.m.from = Peer(p)

Session(p) ==
    last[p] = Nothing \/ (IsSaved(p, last[p]) /\ last[p].myRatchetPub[2] <= keys[p])

\* A message that was sent was numbered on a chain of its sender; the last
\* session of that sender has passed it.
Passed(m) ==
    /\ m.from \in Parties
    /\ MadeWith(m.from, m.chain, m.pub) /\ m.pub[2] <= keys[m.from]
    /\ m.n \in Nat /\ m.pn \in Nat
    /\ last[m.from] # Nothing
    /\ Len(m.chain) <= Len(last[m.from].rootKey)
    /\ m.pub = last[m.from].myRatchetPub => m.n < last[m.from].sendMsgNum

Once == \A m1, m2 \in sent :
            m1.from = m2.from /\ m1.pub = m2.pub /\ m1.n = m2.n => m1 = m2

Good ==
    /\ Shape
    /\ \A p \in Parties : Held(p) /\ Running(p) /\ Session(p)
    /\ \A m \in sent : Passed(m)
    /\ Once

RatchetInv == ~lost => Good

LEMMA RatchetInit == Init => RatchetInv
<1> SUFFICES ASSUME Init PROVE Good
  BY DEF RatchetInv
<1> USE DEF Init
<1>1. Shape
  BY DEF Shape
<1>2. ASSUME NEW p \in Parties PROVE Held(p) /\ Running(p) /\ Session(p)
  BY DEF Held, Running, Session, Old, Short
<1> QED BY <1>1, <1>2 DEF Good, Once

-----------------------------------------------------------------------------
(* Each step keeps it.                                                     *)

\* A chain that was no longer than the root of one session is no longer than
\* that of the next.
LEMMA LongRoots ==
  ASSUME NEW p \in Parties, NEW c, Mine(p, c), NEW s, NEW t, IsState(p, s), IsState(p, t),
         Len(c) <= Len(s.rootKey), Len(s.rootKey) <= Len(t.rootKey)
  PROVE  Len(c) <= Len(t.rootKey)
<1>1. /\ c \in Seq(SUBSET Pairs) /\ s.rootKey \in Seq(SUBSET Pairs)
      /\ t.rootKey \in Seq(SUBSET Pairs)
  BY DEF IsState, Mine
<1>2. Len(c) \in Nat /\ Len(s.rootKey) \in Nat /\ Len(t.rootKey) \in Nat
  BY <1>1, LenProperties
<1> QED BY <1>2

LEMMA OneAndAnother ==
  ASSUME NEW S, NEW a \in S, NEW s \in S
  PROVE  Len(<<a>>) = 1 /\ Append(<<a>>, s) = <<a, s>>
<1>1. <<a>> \in Seq(S)
  OBVIOUS
<1>2. Len(<<a>>) = 1
  BY <1>1
<1>3. Append(<<a>>, s) \in Seq(S) /\ <<a, s>> \in Seq(S)
  BY <1>1
<1>4. Len(Append(<<a>>, s)) = 2 /\ Len(<<a, s>>) = 2
  BY <1>1, <1>2, <1>3
<1>5. Append(<<a>>, s)[1] = a /\ Append(<<a>>, s)[2] = s
  BY <1>1, <1>2
<1> DEFINE x == Append(<<a>>, s)
           y == <<a, s>>
<1>6. \A i \in 1..Len(x) : x[i] = y[i]
  BY <1>4, <1>5
<1> HIDE DEF x, y
<1>7. x = y
  BY <1>3, <1>4, <1>6, SeqEqual DEF x, y
<1> QED BY <1>2, <1>7, Zenon DEF x, y

\* The write queue after one more write.
LEMMA EnqueueFits ==
  ASSUME NEW p \in Parties, NEW l, NEW s, Old(s, l), Short(puts[p], l)
  PROVE  Short(Enqueue(p, s), l)
<1>1. CASE p \notin Podded
  BY <1>1 DEF Enqueue, Short
<1>2. CASE p \in Podded /\ puts[p] = <<>>
  <2>1. Enqueue(p, s) = <<s>>
    BY <1>2 DEF Enqueue
  <2> QED BY <2>1 DEF Short
<1>3. ASSUME p \in Podded, NEW a, puts[p] = <<a>>, Old(a, l) PROVE Short(Enqueue(p, s), l)
  <2>1. Len(<<a>>) = 1 /\ Append(<<a>>, s) = <<a, s>>
    BY OneAndAnother, a \in {a, s}, s \in {a, s}
  <2>2. Enqueue(p, s) = <<a, s>>
    <3>1. Enqueue(p, s) = Append(puts[p], s)
      BY <1>3, <2>1 DEF Enqueue
    <3> QED BY <1>3, <2>1, <3>1, Zenon
  <2> QED BY <1>3, <2>2 DEF Short
<1>4. ASSUME p \in Podded, NEW a, NEW b, puts[p] = <<a, b>>, Old(a, l)
      PROVE  Short(Enqueue(p, s), l)
  <2>1. Enqueue(p, s) = <<a, s>>
    BY <1>4 DEF Enqueue
  <2> QED BY <1>4, <2>1 DEF Short
<1> QED BY <1>1, <1>2, <1>3, <1>4 DEF Short

\* A copy that was not newer than session l is not newer than the next one.
LEMMA OlderStill ==
  ASSUME NEW l, NEW t, l.ver \in Nat, t.ver = l.ver + 1
  PROVE  /\ \A c : Old(c, l) => Old(c, t)
         /\ \A s : Short(s, l) => Short(s, t)
<1>1. ASSUME NEW c, Old(c, l) PROVE Old(c, t)
  BY <1>1 DEF Old
<1>2. ASSUME NEW s, Short(s, l) PROVE Short(s, t)
  BY <1>1, <1>2 DEF Short
<1> QED BY <1>1, <1>2

LEMMA BeginKeeps ==
  ASSUME Good, NEW p \in Parties, NEW op, Begin(p, op), ~lost',
         op.kind = "decrypt" => op.m \in sent /\ op.m.from = Peer(p),
         sent' = sent
  PROVE  Good'
<1>1. PICK remote \in {pod[p], Nothing} :
        /\ LoadRatchetState(p, remote)
        /\ ops' = [ops EXCEPT ![p] = Append(@, [kind |-> op.kind, m |-> op.m,
                                               state |-> Loaded(p, remote)])]
  BY DEF Begin
<1> DEFINE s == Loaded(p, remote)
           run == [kind |-> op.kind, m |-> op.m, state |-> s]
<1>2. s = last[p]
  BY <1>1 DEF LoadRatchetState
<1>3. ops[p] = <<>> /\ UNCHANGED <<stored, pod, late, keys, last>>
  BY DEF Begin, Serialize
<1>4. Shape /\ \A q \in Parties : Held(q) /\ Running(q) /\ Session(q)
  BY DEF Good
<1> HIDE DEF s
<1>5. cache' = [cache EXCEPT ![p] = s]
  BY <1>1 DEF LoadRatchetState, s
<1>6. puts' = puts \/ puts' = [puts EXCEPT ![p] = Enqueue(p, s)]
  BY <1>1 DEF LoadRatchetState, s
<1>7. Old(s, last[p])
  BY <1>2 DEF Old
<1>8. Short(puts[p], last[p]) /\ Short(Enqueue(p, s), last[p])
  BY <1>4, <1>7, EnqueueFits DEF Held
<1>9. ops' = [ops EXCEPT ![p] = <<run>>]
  BY <1>1, <1>3 DEF s
<1>10. Shape'
  BY <1>3, <1>4, <1>5, <1>6, <1>9 DEF Shape
<1>11. ASSUME NEW q \in Parties PROVE Held(q)'
  <2>1. puts'[q] = puts[q] \/ (q = p /\ puts'[q] = Enqueue(p, s))
    BY <1>4, <1>6 DEF Shape
  <2>2. cache'[q] \in {Nothing, last[q]}
    BY <1>2, <1>4, <1>5 DEF Shape, Held
  <2>3. Short(puts'[q], last[q])
    BY <1>4, <1>8, <2>1 DEF Held
  <2> QED BY <1>3, <1>4, <2>2, <2>3 DEF Held
<1>12. ASSUME NEW q \in Parties PROVE Running(q)'
  <2>1. CASE q = p
    <3>1. ops'[p] = <<run>>
      BY <1>4, <1>9 DEF Shape
    <3>2. run.state = last'[p] /\ (run.kind = "decrypt" => run.m \in sent' /\ run.m.from = Peer(p))
      BY <1>2, <1>3
    <3> QED BY <2>1, <3>1, <3>2 DEF Running
  <2>2. CASE q # p
    <3>1. ops'[q] = ops[q]
      BY <1>4, <1>9, <2>2 DEF Shape
    <3> QED BY <1>3, <1>4, <3>1 DEF Running
  <2> QED BY <2>1, <2>2
<1>13. \A q \in Parties : Session(q)'
  BY <1>3, <1>4 DEF Session
<1>14. (\A m \in sent : Passed(m))' /\ Once'
  BY <1>3 DEF Good, Passed, Once
<1> QED BY <1>10, <1>11, <1>12, <1>13, <1>14 DEF Good

\* The pages and copies after session s was saved, a step on from the last one.
LEMMA SaveKeeps ==
  ASSUME Good, NEW p \in Parties, NEW s, IsState(p, s), s.ver = last[p].ver,
         SaveRatchetState(p, s), End(p, 1), ops[p] # <<>>,
         sent \subseteq sent', keys' \in [Parties -> Nat]
  PROVE  /\ Shape'
         /\ \A q \in Parties : Held(q)' /\ Running(q)'
         /\ IsSaved(p, last'[p])
         /\ last'[p].myRatchetPub = s.myRatchetPub
         /\ last'[p].sendMsgNum = s.sendMsgNum
         /\ last'[p].rootKey = s.rootKey
         /\ \A q \in Parties \ {p} : last'[q] = last[q]
<1> DEFINE v == s.ver + 1
           t == [s EXCEPT !.ver = v]
<1>1. /\ cache' = [cache EXCEPT ![p] = t] /\ stored' = [stored EXCEPT ![p] = t]
      /\ puts' = [puts EXCEPT ![p] = Enqueue(p, t)] /\ last' = [last EXCEPT ![p] = t]
      /\ pod' = pod /\ late' = late
  BY DEF SaveRatchetState
<1>2. Shape /\ Held(p) /\ Running(p) /\ Session(p)
  BY DEF Good
<1>3. last[p].ver \in Nat
  BY <1>2 DEF Session, IsSaved, Nothing
<1>4. v \in Nat \ {0} /\ v = last[p].ver + 1
  BY <1>3
<1> HIDE DEF v
<1>5. Fields \subseteq DOMAIN t /\ t.ver = v /\ t.rootKey = s.rootKey /\ t.sendChain = s.sendChain
      /\ t.sendMsgNum = s.sendMsgNum /\ t.sendPrevLen = s.sendPrevLen
      /\ t.myRatchetPub = s.myRatchetPub
      /\ t.theirRatchetPub = s.theirRatchetPub /\ t.pendingDhRatchet = s.pendingDhRatchet
  BY DEF Fields, IsState
<1> HIDE DEF t
<1>6. IsSaved(p, t)
  BY <1>4, <1>5 DEF IsSaved, IsState
<1>7. last'[p] = t /\ \A q \in Parties \ {p} : last'[q] = last[q]
  BY <1>1, <1>2 DEF Shape
<1>8. ops'[p] = <<>> /\ \A q \in Parties \ {p} : ops'[q] = ops[q]
  <2>1. PICK op : ops[p] = <<op>>
    BY <1>2 DEF Running
  <2>2. RemoveAt(ops[p], 1) = <<>>
    BY <2>1 DEF RemoveAt
  <2> QED BY <1>2, <2>2 DEF Shape, End
<1>9. Shape'
  BY <1>1, <1>2 DEF Shape, End
<1>10. ASSUME NEW q \in Parties PROVE Held(q)'
  <2>1. CASE q # p
    <3>1. cache'[q] = cache[q] /\ stored'[q] = stored[q] /\ puts'[q] = puts[q]
      BY <1>1, <1>2, <2>1 DEF Shape
    <3>2. Held(q)
      BY DEF Good
    <3> QED BY <1>1, <1>7, <2>1, <3>1, <3>2 DEF Held
  <2>2. CASE q = p
    <3>1. cache'[p] = t /\ stored'[p] = t /\ puts'[p] = Enqueue(p, t)
      BY <1>1, <1>2 DEF Shape
    <3>2. Old(pod[p], t) /\ (\A c \in late[p] : Old(c, t)) /\ Short(puts[p], t)
      BY <1>2, <1>3, <1>4, <1>5, OlderStill DEF Held
    <3>3. Short(Enqueue(p, t), t)
      BY <3>2, EnqueueFits DEF Old
    <3> QED BY <1>1, <1>7, <2>2, <3>1, <3>2, <3>3 DEF Held
  <2> QED BY <2>1, <2>2
<1>11. ASSUME NEW q \in Parties PROVE Running(q)'
  <2>1. Running(q)
    BY DEF Good
  <2>2. CASE q = p
    BY <1>8, <2>2 DEF Running
  <2>3. CASE q # p
    BY <1>7, <1>8, <2>1, <2>3 DEF Running
  <2> QED BY <2>2, <2>3
<1> QED BY <1>5, <1>6, <1>7, <1>9, <1>10, <1>11

\* A text: the next number of the last session's chain, or the first of a chain
\* made with a new ratchet key.
LEMMA EncryptKeeps ==
  ASSUME Good, NEW p \in Parties, NEW i \in DOMAIN ops[p], RatchetEncrypt(p, i)
  PROVE  Good'
<1>1. Shape /\ Held(p) /\ Running(p) /\ Session(p)
  BY DEF Good
<1>2. PICK op : ops[p] = <<op>> /\ op.state = last[p]
  BY <1>1 DEF Running
<1>3. i = 1 /\ ops[p][i] = op /\ ops[p] # <<>>
  BY <1>2
<1> DEFINE l == last[p]
           k == keys[p] + 1
           fresh == <<p, k>>
           s == SendState(p, l, fresh)
           n == s.sendMsgNum + 1
           w == [s EXCEPT !.sendMsgNum = n]
           m == [from |-> p, text |-> op.m.text, pub |-> s.myRatchetPub,
                 n |-> s.sendMsgNum, pn |-> s.sendPrevLen, chain |-> s.sendChain]
<1>4. /\ sent' = sent \cup {m}
      /\ SaveRatchetState(p, w)
      /\ keys' = IF w.myRatchetPub = fresh \/ s.myRatchetPub = fresh THEN [keys EXCEPT ![p] = k] ELSE keys
      /\ End(p, 1)
  <2>1. w.myRatchetPub = s.myRatchetPub
    OBVIOUS
  <2> HIDE DEF w
  <2> QED BY <1>2, <1>3, <2>1 DEF RatchetEncrypt, Made, w
<1>5. k \in Nat \ {0} /\ keys[p] \in Nat
  BY <1>1 DEF Shape
<1>6. l = Nothing \/ (IsState(p, l) /\ l.myRatchetPub[2] <= keys[p])
  BY <1>1 DEF Session, IsSaved
<1> HIDE DEF l, k
<1>7. /\ IsState(p, s) /\ s.ver = l.ver
      /\ l # Nothing => Len(l.rootKey) <= Len(s.rootKey)
      /\ \/ s = l /\ l # Nothing
         \/ s.myRatchetPub = fresh /\ s.sendMsgNum = 0
  BY <1>5, <1>6, SendStateFits
<1> HIDE DEF s
<1>8. s.sendMsgNum \in Nat /\ n \in Nat /\ Fields \subseteq DOMAIN s
  BY <1>7 DEF IsState
<1> HIDE DEF n
<1>9. Fields \subseteq DOMAIN w /\ w.sendMsgNum = n /\ w.ver = s.ver /\ w.rootKey = s.rootKey
      /\ w.sendChain = s.sendChain /\ w.myRatchetPub = s.myRatchetPub
      /\ w.sendPrevLen = s.sendPrevLen
      /\ w.theirRatchetPub = s.theirRatchetPub /\ w.pendingDhRatchet = s.pendingDhRatchet
  BY <1>8 DEF Fields
<1>10. m.from = p /\ m.pub = s.myRatchetPub /\ m.n = s.sendMsgNum /\ m.chain = s.sendChain
       /\ m.pn = s.sendPrevLen
  OBVIOUS
<1> HIDE DEF w, m
<1>11. IsState(p, w)
  BY <1>7, <1>8, <1>9 DEF IsState
<1>12. keys' \in [Parties -> Nat] /\ \A q \in Parties : keys[q] <= keys'[q]
  BY <1>1, <1>4, <1>5 DEF Shape, k
<1>13. /\ Shape' /\ \A q \in Parties : Held(q)' /\ Running(q)'
       /\ IsSaved(p, last'[p]) /\ last'[p].myRatchetPub = w.myRatchetPub
       /\ last'[p].sendMsgNum = w.sendMsgNum /\ last'[p].rootKey = w.rootKey
       /\ \A q \in Parties \ {p} : last'[q] = last[q]
  BY <1>3, <1>4, <1>7, <1>9, <1>11, <1>12, SaveKeeps DEF l
<1>14. s.myRatchetPub[2] <= keys'[p]
  <2>1. CASE s = l /\ l # Nothing
    <3>1. s.myRatchetPub[2] \in Nat
      BY <1>7 DEF IsState, MadeWith
    <3> QED BY <1>5, <1>6, <1>12, <2>1, <3>1
  <2>2. CASE s.myRatchetPub = fresh
    BY <1>1, <1>4, <1>5, <2>2 DEF Shape
  <2> QED BY <1>7, <2>1, <2>2
<1>15. ASSUME NEW q \in Parties PROVE Session(q)'
  <2>1. CASE q = p
    BY <1>9, <1>13, <1>14, <2>1 DEF Session
  <2>2. CASE q # p
    <3>1. Session(q)
      BY DEF Good
    <3>2. last[q] = Nothing \/ last[q].myRatchetPub[2] \in Nat
      BY <3>1 DEF Session, IsSaved, IsState, MadeWith
    <3>3. keys[q] \in Nat /\ keys'[q] \in Nat
      BY <1>1, <1>12 DEF Shape
    <3> QED BY <1>12, <1>13, <2>2, <3>1, <3>2, <3>3 DEF Session
  <2> QED BY <2>1, <2>2
\* The message that leaves has a number no other of this key has.
<1>16. ASSUME NEW x \in sent, x.from = p, x.pub = m.pub PROVE x.n < m.n
  <2>1. Passed(x)
    BY DEF Good
  <2>2. CASE s = l
    BY <1>10, <1>16, <2>1, <2>2 DEF Passed, l
  <2>3. CASE s.myRatchetPub = fresh
    BY <1>5, <1>10, <1>16, <2>1, <2>3 DEF Passed, k
  <2> QED BY <1>7, <2>2, <2>3
<1>17. last'[p] # Nothing
  BY <1>13 DEF IsSaved, Nothing
<1>18. ASSUME NEW x, x = m PROVE Passed(x)'
  BY <1>7, <1>8, <1>9, <1>10, <1>13, <1>14, <1>17, <1>18 DEF Passed, IsState, n
<1>19. ASSUME NEW x \in sent PROVE Passed(x)'
  <2>1. Passed(x)
    BY DEF Good
  <2>2. x.pub[2] <= keys'[x.from]
    <3>1. x.pub[2] \in Nat /\ x.from \in Parties /\ x.pub[2] <= keys[x.from]
      BY <2>1 DEF Passed, MadeWith
    <3>2. keys[x.from] \in Nat /\ keys'[x.from] \in Nat
      BY <1>1, <1>12, <3>1 DEF Shape
    <3> QED BY <1>12, <3>1, <3>2
  <2>3. CASE x.from # p
    BY <1>13, <2>1, <2>2, <2>3 DEF Passed
  <2>4. CASE x.from = p
    <3>1. x.pub = s.myRatchetPub => x.n < n
      BY <1>8, <1>10, <1>16, <2>1, <2>4 DEF Passed, n
    <3>2. Len(x.chain) <= Len(last'[p].rootKey)
      BY <1>6, <1>7, <1>9, <1>13, <2>1, <2>4, LongRoots DEF Passed, MadeWith, l
    <3> QED BY <1>9, <1>13, <1>17, <2>1, <2>2, <2>4, <3>1, <3>2 DEF Passed
  <2> QED BY <2>3, <2>4
<1>20. Once'
  <2>1. ASSUME NEW x \in sent PROVE ~(x.from = p /\ x.pub = m.pub /\ x.n = m.n)
    BY <1>8, <1>10, <1>16
  <2> QED BY <1>4, <1>10, <2>1 DEF Good, Once
<1> QED BY <1>4, <1>13, <1>15, <1>18, <1>19, <1>20 DEF Good

\* A message that opened leaves the last session where it was in its own chain.
LEMMA DecryptKeeps ==
  ASSUME Good, NEW p \in Parties, NEW i \in DOMAIN ops[p], NEW damaged \in BOOLEAN,
         RatchetDecrypt(p, i, damaged)
  PROVE  Good'
<1>1. Shape /\ Held(p) /\ Running(p) /\ Session(p)
  BY DEF Good
<1>2. PICK op : /\ ops[p] = <<op>> /\ op.state = last[p]
                /\ op.kind = "decrypt" => op.m \in sent /\ op.m.from = Peer(p)
  BY <1>1 DEF Running
<1>3. i = 1 /\ ops[p][i] = op /\ ops[p] # <<>>
  BY <1>2
<1> DEFINE l == last[p]
           k == keys[p] + 1
           fresh == <<p, k>>
           d == Decrypted(p, l, op.m, fresh)
           s == d.state
<1>4. op.kind = "decrypt"
  BY <1>3 DEF RatchetDecrypt
<1>5. CASE damaged \/ ~d.opens
  <2>1. Refused(p, i)
    BY <1>2, <1>3, <1>5 DEF RatchetDecrypt
  <2> HIDE DEF d, s, l, k
  <2>2. ops'[p] = <<>> /\ \A q \in Parties \ {p} : ops'[q] = ops[q]
    <3>1. RemoveAt(ops[p], 1) = <<>>
      BY <1>2 DEF RemoveAt
    <3> QED BY <1>1, <1>3, <2>1, <3>1 DEF Refused, End, Shape
  <2>3. UNCHANGED <<cache, stored, pod, puts, late, keys, sent, last>> /\ DOMAIN ops' = Parties
    BY <1>1, <2>1 DEF Refused, End, Shape, disk, history
  <2>4. ASSUME NEW q \in Parties PROVE Running(q)'
    <3>1. Running(q)
      BY DEF Good
    <3> QED BY <2>2, <2>3, <3>1 DEF Running
  <2>5. Shape'
    BY <1>1, <2>3 DEF Shape
  <2>6. ASSUME NEW q \in Parties PROVE Held(q)' /\ Session(q)'
    BY <2>3 DEF Good, Held, Session
  <2>7. (\A m \in sent : Passed(m))' /\ Once'
    BY <2>3 DEF Good, Passed, Once
  <2>8. \A q \in Parties : (Held(q) /\ Running(q) /\ Session(q))'
    BY <2>4, <2>6
  <2> QED BY <2>5, <2>7, <2>8 DEF Good
<1>6. CASE ~damaged /\ d.opens
  <2>1. /\ SaveRatchetState(p, s) /\ End(p, 1) /\ sent' = sent
        /\ keys' = IF s.myRatchetPub = fresh THEN [keys EXCEPT ![p] = k] ELSE keys
    BY <1>2, <1>3, <1>6 DEF RatchetDecrypt, Made
  <2>2. k \in Nat \ {0} /\ keys[p] \in Nat
    BY <1>1 DEF Shape
  <2>3. l = Nothing \/ (IsState(p, l) /\ l.myRatchetPub[2] <= keys[p])
    BY <1>1 DEF Session, IsSaved
  <2>4. op.m \in sent /\ Mine(Peer(p), op.m.chain) /\ op.m.pub \in {Peer(p)} \X (Nat \ {0})
    BY <1>2, <1>4 DEF Good, Passed, MadeWith
  <2>5. d.opens
    BY <1>6
  <2> HIDE DEF l, k
  <2>6. /\ IsState(p, s) /\ s.ver = l.ver
        /\ l # Nothing => Len(l.rootKey) <= Len(s.rootKey)
        /\ IF l = Nothing THEN s.myRatchetPub = fresh /\ s.sendMsgNum = 0
           ELSE s.myRatchetPub = l.myRatchetPub /\ s.sendMsgNum = l.sendMsgNum
    BY <2>2, <2>3, <2>4, <2>5, OpenedFits
  <2> HIDE DEF d, s
  <2>7. keys' \in [Parties -> Nat] /\ \A q \in Parties : keys[q] <= keys'[q]
    BY <1>1, <2>1, <2>2 DEF Shape, k
  <2>8. /\ Shape' /\ \A q \in Parties : Held(q)' /\ Running(q)'
        /\ IsSaved(p, last'[p]) /\ last'[p].myRatchetPub = s.myRatchetPub
        /\ last'[p].sendMsgNum = s.sendMsgNum /\ last'[p].rootKey = s.rootKey
        /\ \A q \in Parties \ {p} : last'[q] = last[q]
    BY <1>3, <2>1, <2>6, <2>7, SaveKeeps DEF l
  <2>9. s.myRatchetPub[2] <= keys'[p]
    <3>1. CASE l # Nothing
      <4>1. s.myRatchetPub[2] \in Nat
        BY <2>6 DEF IsState, MadeWith
      <4> QED BY <2>2, <2>3, <2>6, <2>7, <3>1, <4>1
    <3>2. CASE l = Nothing
      BY <1>1, <2>1, <2>2, <2>6, <3>2 DEF Shape
    <3> QED BY <3>1, <3>2
  <2>10. ASSUME NEW q \in Parties PROVE Session(q)'
    <3>1. CASE q = p
      BY <2>8, <2>9, <3>1 DEF Session
    <3>2. CASE q # p
      <4>1. Session(q)
        BY DEF Good
      <4>2. last[q] = Nothing \/ last[q].myRatchetPub[2] \in Nat
        BY <4>1 DEF Session, IsSaved, IsState, MadeWith
      <4>3. keys[q] \in Nat /\ keys'[q] \in Nat
        BY <1>1, <2>7 DEF Shape
      <4> QED BY <2>7, <2>8, <3>2, <4>1, <4>2, <4>3 DEF Session
    <3> QED BY <3>1, <3>2
  <2>11. ASSUME NEW x \in sent PROVE Passed(x)'
    <3>1. Passed(x)
      BY DEF Good
    <3>2. x.pub[2] <= keys'[x.from]
      <4>1. x.pub[2] \in Nat /\ x.from \in Parties /\ x.pub[2] <= keys[x.from]
        BY <3>1 DEF Passed, MadeWith
      <4>2. keys[x.from] \in Nat /\ keys'[x.from] \in Nat
        BY <1>1, <2>7, <4>1 DEF Shape
      <4> QED BY <2>7, <4>1, <4>2
    <3>3. CASE x.from # p
      BY <2>8, <3>1, <3>2, <3>3 DEF Passed
    <3>4. CASE x.from = p
      <4>1. l # Nothing /\ (x.pub = l.myRatchetPub => x.n < l.sendMsgNum)
        BY <3>1, <3>4 DEF Passed, l
      <4>2. last'[p] # Nothing
        BY <2>8 DEF IsSaved, Nothing
      <4>3. Len(x.chain) <= Len(last'[p].rootKey)
        BY <2>3, <2>6, <2>8, <3>1, <3>4, <4>1, LongRoots DEF Passed, MadeWith, l
      <4> QED BY <2>6, <2>8, <3>1, <3>2, <3>4, <4>1, <4>2, <4>3 DEF Passed
    <3> QED BY <3>3, <3>4
  <2>12. Once'
    BY <2>1 DEF Good, Once
  <2> QED BY <2>1, <2>8, <2>10, <2>11, <2>12 DEF Good
<1> QED BY <1>5, <1>6

LEMMA OneOrTwo ==
  ASSUME NEW a, NEW b
  PROVE  /\ Head(<<a>>) = a /\ Tail(<<a>>) = <<>>
         /\ Head(<<a, b>>) = a /\ Tail(<<a, b>>) = <<b>>
<1>1. <<a>> \in Seq({a, b}) /\ <<a, b>> \in Seq({a, b})
  OBVIOUS
<1>2. Head(<<a>>) = a /\ Head(<<a, b>>) = a
  BY <1>1
<1>3. Tail(<<a>>) = <<>>
  OBVIOUS
<1>4. Tail(<<a, b>>) = <<b>>
  OBVIOUS
<1> QED BY <1>2, <1>3, <1>4

\* What leaves the write queue is a copy like any other.
LEMMA HeadAndTail ==
  ASSUME NEW s, NEW l, Short(s, l), s # <<>>
  PROVE  Old(Head(s), l) /\ Short(Tail(s), l)
<1>1. ASSUME NEW a, s = <<a>>, Old(a, l) PROVE Old(Head(s), l) /\ Short(Tail(s), l)
  BY <1>1, OneOrTwo DEF Short
<1>2. ASSUME NEW a, NEW b, s = <<a, b>>, Old(a, l), Old(b, l)
      PROVE  Old(Head(s), l) /\ Short(Tail(s), l)
  BY <1>2, OneOrTwo DEF Short
<1> QED BY <1>1, <1>2 DEF Short

LEMMA PutEndsKeeps ==
  ASSUME Good, NEW p \in Parties, NEW landed \in BOOLEAN, PutEnds(p, landed)
  PROVE  Good'
<1>1. /\ pod' = IF landed THEN [pod EXCEPT ![p] = Head(puts[p])] ELSE pod
      /\ puts' = [puts EXCEPT ![p] = Tail(puts[p])] /\ puts[p] # <<>>
      /\ UNCHANGED <<cache, ops, stored, late, keys, sent, last>>
  BY DEF PutEnds, page, history
<1>2. Shape /\ Held(p)
  BY DEF Good
<1>3. Old(Head(puts[p]), last[p]) /\ Short(Tail(puts[p]), last[p])
  BY <1>1, <1>2, HeadAndTail DEF Held
<1>4. Shape'
  BY <1>1, <1>2 DEF Shape
<1>5. ASSUME NEW q \in Parties PROVE Held(q)'
  <2>1. Held(q)
    BY DEF Good
  <2>2. pod'[q] = pod[q] \/ (q = p /\ pod'[q] = Head(puts[p]))
    BY <1>1, <1>2 DEF Shape
  <2>3. puts'[q] = IF q = p THEN Tail(puts[p]) ELSE puts[q]
    BY <1>1, <1>2 DEF Shape
  <2>4. Old(pod'[q], last[q]) /\ Short(puts'[q], last[q])
    BY <1>3, <2>1, <2>2, <2>3 DEF Held
  <2> QED BY <1>1, <2>1, <2>4 DEF Held
<1>6. ASSUME NEW q \in Parties PROVE (Running(q) /\ Session(q))'
  BY <1>1 DEF Good, Running, Session
<1>7. (\A m \in sent : Passed(m))' /\ Once'
  BY <1>1 DEF Good, Passed, Once
<1> QED BY <1>4, <1>5, <1>6, <1>7 DEF Good

LEMMA LateLandsKeeps ==
  ASSUME Good, NEW p \in Parties, LateLands(p)
  PROVE  Good'
<1>1. PICK s \in late[p] :
        /\ pod' = [pod EXCEPT ![p] = s]
        /\ late' = [late EXCEPT ![p] = late[p] \ {s}]
        /\ UNCHANGED <<cache, ops, stored, puts, keys, sent, last>>
  BY DEF LateLands, page, history
<1>2. Shape /\ Held(p)
  BY DEF Good
<1>3. Shape'
  BY <1>1, <1>2 DEF Shape
<1>4. ASSUME NEW q \in Parties PROVE Held(q)'
  <2>1. Held(q)
    BY DEF Good
  <2>2. pod'[q] = (IF q = p THEN s ELSE pod[q]) /\ late'[q] \subseteq late[q]
    BY <1>1, <1>2 DEF Shape
  <2>3. Old(pod'[q], last[q])
    BY <1>1, <1>2, <2>1, <2>2 DEF Held
  <2> QED BY <1>1, <2>1, <2>2, <2>3 DEF Held
<1>5. ASSUME NEW q \in Parties PROVE (Running(q) /\ Session(q))'
  BY <1>1 DEF Good, Running, Session
<1>6. (\A m \in sent : Passed(m))' /\ Once'
  BY <1>1 DEF Good, Passed, Once
<1> QED BY <1>3, <1>4, <1>5, <1>6 DEF Good

\* Reload and sign-out: less is held, and what was being written may land late.
LEMMA LeaveKeeps ==
  ASSUME Good, NEW p \in Parties, Leave(p),
         stored' = stored \/ stored' = [stored EXCEPT ![p] = Nothing]
  PROVE  Good'
<1>1. /\ cache' = [cache EXCEPT ![p] = Nothing] /\ ops' = [ops EXCEPT ![p] = <<>>]
      /\ late' = IF puts[p] = <<>> THEN late ELSE [late EXCEPT ![p] = late[p] \cup {Head(puts[p])}]
      /\ puts' = [puts EXCEPT ![p] = <<>>]
      /\ UNCHANGED <<pod, keys, sent, last>>
  BY DEF Leave, history
<1>2. Shape /\ Held(p)
  BY DEF Good
<1>3. puts[p] # <<>> => Old(Head(puts[p]), last[p])
  BY <1>2, HeadAndTail DEF Held
<1>4. Shape'
  BY <1>1, <1>2 DEF Shape
<1>5. ASSUME NEW q \in Parties PROVE Held(q)'
  <2>1. Held(q)
    BY DEF Good
  <2>2. cache'[q] \in {cache[q], Nothing} /\ stored'[q] \in {stored[q], Nothing}
    BY <1>1, <1>2 DEF Shape
  <2>3. puts'[q] = puts[q] \/ puts'[q] = <<>>
    BY <1>1, <1>2 DEF Shape
  <2>4. \A c \in late'[q] : c \in late[q] \/ (q = p /\ puts[p] # <<>> /\ c = Head(puts[p]))
    BY <1>1, <1>2 DEF Shape
  <2>5. Short(puts'[q], last[q])
    BY <2>1, <2>3 DEF Held, Short
  <2>6. \A c \in late'[q] : Old(c, last[q])
    BY <1>3, <2>1, <2>4 DEF Held
  <2> QED BY <1>1, <2>1, <2>2, <2>5, <2>6 DEF Held
<1>6. ASSUME NEW q \in Parties PROVE Running(q)'
  <2>1. ops'[q] = ops[q] \/ ops'[q] = <<>>
    BY <1>1, <1>2 DEF Shape
  <2> QED BY <1>1, <2>1 DEF Good, Running
<1>7. \A q \in Parties : Session(q)'
  BY <1>1 DEF Good, Session
<1>8. (\A m \in sent : Passed(m))' /\ Once'
  BY <1>1 DEF Good, Passed, Once
<1> QED BY <1>4, <1>5, <1>6, <1>7, <1>8 DEF Good

LEMMA RatchetStep == RatchetInv /\ [Next]_vars => RatchetInv'
<1> SUFFICES ASSUME RatchetInv, [Next]_vars, ~lost' PROVE Good'
  BY DEF RatchetInv
<1>1. CASE UNCHANGED vars
  <2>1. UNCHANGED <<cache, ops, stored, pod, puts, late, keys, sent, last, lost>>
    BY <1>1 DEF vars, page, disk, history
  <2>2. Good
    BY <2>1 DEF RatchetInv
  <2>3. Shape'
    BY <2>1, <2>2 DEF Good, Shape
  <2>4. \A q \in Parties : (Held(q) /\ Running(q) /\ Session(q))'
    BY <2>1, <2>2 DEF Good, Held, Running, Session
  <2>5. (\A m \in sent : Passed(m))' /\ Once'
    BY <2>1, <2>2 DEF Good, Passed, Once
  <2> QED BY <2>3, <2>4, <2>5 DEF Good
<1>2. ASSUME NEW p \in Parties, BeginEncrypt(p) PROVE Good'
  <2>1. PICK op : op = [kind |-> "encrypt", m |-> [text |-> texts']]
    OBVIOUS
  <2>2. Begin(p, op) /\ op.kind # "decrypt"
    BY <1>2, <2>1 DEF BeginEncrypt
  <2>3. Good /\ sent' = sent
    BY <2>2 DEF RatchetInv, Begin, LoadRatchetState
  <2> QED BY <2>2, <2>3, BeginKeeps
<1>3. ASSUME NEW p \in Parties, NEW m \in sent, BeginDecrypt(p, m) PROVE Good'
  <2>1. PICK op : op = [kind |-> "decrypt", m |-> m]
    OBVIOUS
  <2>2. Begin(p, op) /\ op.m \in sent /\ op.m.from = Peer(p)
    BY <1>3, <2>1 DEF BeginDecrypt
  <2>3. Good /\ sent' = sent
    BY <2>2 DEF RatchetInv, Begin, LoadRatchetState
  <2> QED BY <2>2, <2>3, BeginKeeps
<1>4. ASSUME NEW p \in Parties, NEW i \in DOMAIN ops[p], RatchetEncrypt(p, i) PROVE Good'
  BY <1>4, EncryptKeeps DEF RatchetInv, RatchetEncrypt
<1>5. ASSUME NEW p \in Parties, NEW i \in DOMAIN ops[p], NEW damaged \in BOOLEAN,
             RatchetDecrypt(p, i, damaged)
      PROVE  Good'
  <2>1. lost' = lost
    BY <1>5, Zenon DEF RatchetDecrypt, Refused, history
  <2> QED BY <1>5, <2>1, DecryptKeeps DEF RatchetInv
<1>6. ASSUME NEW p \in Parties, NEW landed \in BOOLEAN, PutEnds(p, landed) PROVE Good'
  BY <1>6, PutEndsKeeps DEF RatchetInv, PutEnds, history
<1>7. ASSUME NEW p \in Parties, LateLands(p) PROVE Good'
  <2>1. lost' = lost
    BY <1>7 DEF LateLands, history
  <2> QED BY <1>7, <2>1, LateLandsKeeps DEF RatchetInv
<1>8. ASSUME NEW p \in Parties, Reload(p) PROVE Good'
  BY <1>8, LeaveKeeps DEF RatchetInv, Reload, Leave, history
<1>9. ASSUME NEW p \in Parties, SignOut(p) PROVE Good'
  BY <1>9, LeaveKeeps DEF RatchetInv, SignOut, Leave, history
<1> QED BY <1>1, <1>2, <1>3, <1>4, <1>5, <1>6, <1>7, <1>8, <1>9 DEF Next

LEMMA RatchetInvariant == Spec => []RatchetInv
<1> QED BY RatchetInit, RatchetStep, PTL DEF Spec

-----------------------------------------------------------------------------
(* What a session reads: the keys it keeps and the chain it is on.         *)

\* A key kept for a message of q.
Turns(q) == {c \in Seq(SUBSET Pairs) : Mine(q, c)}
KeyOf(q) == [pub : Pairs, n : Nat, chain : Turns(q)]

Same(x, y) == x.chain = y.chain /\ x.n = y.n

\* A receiving chain at number n, and every chain to come, are past x.
Behind(x, root, chain, n) ==
    Len(x.chain) <= Len(root) /\ (x.chain = chain => x.n < n)

\* The receiving side of a session with q, of which the messages got were
\* opened: no key is kept twice, and none of an opened message is left.
Reads(q, root, chain, n, kept, got) ==
    /\ root \in Seq(SUBSET Pairs) /\ n \in Nat
    /\ chain = NoChain \/ (Mine(q, chain) /\ Len(chain) <= Len(root))
    /\ kept \in Seq(KeyOf(q))
    /\ \A i \in 1..Len(kept) : Behind(kept[i], root, chain, n)
    /\ \A i, j \in 1..Len(kept) : Same(kept[i], kept[j]) => i = j
    /\ \A m \in got : Mine(q, m.chain) /\ m.n \in Nat /\ Behind(m, root, chain, n)
    /\ \A m \in got : \A i \in 1..Len(kept) : ~Same(kept[i], m)

\* What is known of the keys a session keeps.
LEMMA KeptKeys ==
  ASSUME NEW q, NEW kept \in Seq(KeyOf(q))
  PROVE  /\ Len(kept) \in Nat
         /\ \A i \in 1..Len(kept) : /\ kept[i] \in KeyOf(q)
                                    /\ kept[i].n \in Nat /\ Mine(q, kept[i].chain)
                                    /\ kept[i].chain \in Seq(SUBSET Pairs)
                                    /\ Len(kept[i].chain) \in Nat
<1>1. Len(kept) \in Nat
  BY LenProperties
<1>2. ASSUME NEW i \in 1..Len(kept)
      PROVE  kept[i] \in KeyOf(q)
  <2> DEFINE S == KeyOf(q)
  <2>1. kept \in Seq(S)
    OBVIOUS
  <2> HIDE DEF S
  <2>2. kept[i] \in S
    BY <2>1, ElementOfSeq
  <2> QED BY <2>2 DEF S
<1>3. ASSUME NEW k \in KeyOf(q)
      PROVE  k.n \in Nat /\ k.chain \in Turns(q)
  BY DEF KeyOf
<1>4. ASSUME NEW c \in Turns(q)
      PROVE  Mine(q, c) /\ c \in Seq(SUBSET Pairs) /\ Len(c) \in Nat
  BY DEF Turns
<1> QED BY <1>1, <1>2, <1>3, <1>4

\* Fewer keys, in any order.
LEMMA ReadsFewer ==
  ASSUME NEW q, NEW root, NEW chain, NEW n, NEW kept, NEW got,
         Reads(q, root, chain, n, kept, got),
         NEW T, NEW few \in Seq(T), NEW at \in [1..Len(few) -> 1..Len(kept)],
         \A i \in 1..Len(few) : few[i] = kept[at[i]],
         \A i, j \in 1..Len(few) : at[i] = at[j] => i = j
  PROVE  Reads(q, root, chain, n, few, got)
<1>1. kept \in Seq(KeyOf(q)) /\ Len(few) \in Nat
  BY LenProperties DEF Reads
<1>2. \A i \in 1..Len(few) : at[i] \in 1..Len(kept) /\ few[i] = kept[at[i]]
  OBVIOUS
<1>3. \A i \in 1..Len(few) : few[i] \in KeyOf(q)
  BY <1>1, <1>2, KeptKeys
<1>4. few \in Seq(KeyOf(q))
  <2> DEFINE S == KeyOf(q)
  <2> HIDE DEF S
  <2>1. few \in [1..Len(few) -> S]
    BY <1>3, LenProperties DEF S
  <2>2. few \in Seq(S)
    BY <1>1, <2>1
  <2> QED BY <2>2 DEF S
<1>5. \A i \in 1..Len(few) : Behind(few[i], root, chain, n)
  BY <1>2 DEF Reads
<1>6. \A i, j \in 1..Len(few) : Same(few[i], few[j]) => i = j
  BY <1>2 DEF Reads
<1>7. \A m \in got : \A i \in 1..Len(few) : ~Same(few[i], m)
  BY <1>2 DEF Reads
<1> QED BY <1>4, <1>5, <1>6, <1>7 DEF Reads

\* The keys from number n on, up to number stop.
Between(pub, chain, n, stop) == [i \in 1..(stop - n) |-> Skipped(pub, n + i - 1, chain)]

\* So many keys of a chain, from number n on.
Numbered(q, more, chain, n, len) ==
    /\ more \in Seq(KeyOf(q)) /\ Len(more) = len
    /\ \A i \in 1..len : more[i].chain = chain /\ more[i].n = n + i - 1

LEMMA BetweenKeys ==
  ASSUME NEW q, NEW pub \in Pairs, NEW chain, Mine(q, chain),
         NEW n \in Nat, NEW stop \in Nat, n <= stop
  PROVE  Numbered(q, Between(pub, chain, n, stop), chain, n, stop - n)
<1> DEFINE len == stop - n
           key(i) == Skipped(pub, n + i - 1, chain)
           more == Between(pub, chain, n, stop)
<1>1. len \in Nat /\ chain \in Turns(q)
  BY DEF Turns, Mine
<1>2. ASSUME NEW i \in 1..len
      PROVE  /\ key(i) \in KeyOf(q) /\ key(i).chain = chain /\ key(i).n = n + i - 1
  <2>1. n + i - 1 \in Nat
    BY <1>1
  <2> DEFINE j == n + i - 1
  <2> HIDE DEF j
  <2>2. [pub |-> pub, n |-> j, chain |-> chain] \in KeyOf(q)
    BY <1>1, <2>1 DEF KeyOf, j
  <2> QED BY <2>2 DEF Skipped, j
<1>3. more = [i \in 1..len |-> key(i)]
  BY DEF Between
<1> HIDE DEF key, len, more
<1>4. more \in Seq(KeyOf(q)) /\ Len(more) = len
  <2> DEFINE S == KeyOf(q)
  <2> HIDE DEF S
  <2>1. \A i \in 1..len : key(i) \in S
    BY <1>2 DEF S
  <2>2. more \in [1..len -> S]
    BY <1>3, <2>1
  <2>3. more \in Seq(S) /\ Len(more) = len
    BY <1>1, <2>2
  <2> QED BY <2>3 DEF S
<1>5. \A i \in 1..len : more[i] = key(i)
  BY <1>3
<1>6. Numbered(q, more, chain, n, len)
  BY <1>2, <1>4, <1>5 DEF Numbered
<1> QED BY <1>6 DEF more, len

\* The chain is stepped on, and the keys on the way are kept.
LEMMA ReadsAhead ==
  ASSUME NEW q, NEW root, NEW chain, NEW n, NEW kept, NEW got,
         Reads(q, root, chain, n, kept, got), Mine(q, chain),
         NEW pub \in Pairs, NEW stop \in Nat, n <= stop
  PROVE  Reads(q, root, chain, stop, kept \o Between(pub, chain, n, stop), got)
<1> DEFINE more == Between(pub, chain, n, stop)
           all == kept \o more
<1>1. n \in Nat /\ stop - n \in Nat /\ kept \in Seq(KeyOf(q)) /\ Len(kept) \in Nat
  BY KeptKeys DEF Reads
<1>2. Len(chain) <= Len(root)
  <2>1. chain # NoChain
    BY DEF Mine, NoChain
  <2> QED BY <2>1 DEF Reads
<1>3. /\ more \in Seq(KeyOf(q)) /\ Len(more) = stop - n
      /\ \A i \in 1..(stop - n) : more[i].chain = chain /\ more[i].n = n + i - 1
  <2>1. Numbered(q, more, chain, n, stop - n)
    BY <1>1, BetweenKeys
  <2> QED BY <2>1 DEF Numbered
<1> HIDE DEF more
<1>4. /\ all \in Seq(KeyOf(q)) /\ Len(all) = Len(kept) + (stop - n)
      /\ \A i \in 1..Len(all) : all[i] = IF i <= Len(kept) THEN kept[i]
                                         ELSE more[i - Len(kept)]
  <2> DEFINE S == KeyOf(q)
  <2>1. kept \in Seq(S) /\ more \in Seq(S)
    BY <1>1, <1>3
  <2> HIDE DEF S
  <2>2. /\ all \in Seq(S) /\ Len(all) = Len(kept) + Len(more)
        /\ \A i \in 1..(Len(kept) + Len(more)) :
              all[i] = IF i <= Len(kept) THEN kept[i] ELSE more[i - Len(kept)]
    BY <2>1, ConcatProperties, Zenon
  <2> QED BY <1>3, <2>2 DEF S
<1> HIDE DEF all
<1>5. \A i \in 1..Len(all) :
        \/ i \in 1..Len(kept) /\ all[i] = kept[i]
        \/ /\ ~(i <= Len(kept)) /\ all[i].chain = chain
           /\ all[i].n = n + (i - Len(kept)) - 1
  <2> TAKE i \in 1..Len(all)
  <2>1. CASE i <= Len(kept)
    BY <1>1, <1>4, <2>1
  <2>2. CASE ~(i <= Len(kept))
    <3>1. i - Len(kept) \in 1..(stop - n)
      BY <1>1, <1>4, <2>2
    <3> QED BY <1>3, <1>4, <2>2, <3>1
  <2> QED BY <2>1, <2>2
<1>6. \A i \in 1..Len(kept) : kept[i].n \in Nat
  BY <1>1, KeptKeys
<1>7. \A i \in 1..Len(all) : Behind(all[i], root, chain, stop)
  <2> TAKE i \in 1..Len(all)
  <2>1. CASE i \in 1..Len(kept) /\ all[i] = kept[i]
    BY <1>1, <1>6, <2>1 DEF Reads, Behind
  <2>2. CASE ~(i <= Len(kept)) /\ all[i].chain = chain /\ all[i].n = n + (i - Len(kept)) - 1
    BY <1>1, <1>2, <1>4, <2>2 DEF Behind
  <2> QED BY <1>5, <2>1, <2>2
<1>8. ASSUME NEW i \in 1..Len(all), NEW j \in 1..Len(all), Same(all[i], all[j])
      PROVE  i = j
  <2>1. CASE i \in 1..Len(kept) /\ j \in 1..Len(kept) /\ all[i] = kept[i] /\ all[j] = kept[j]
    BY <1>8, <2>1 DEF Reads
  <2>2. CASE ~(i <= Len(kept)) /\ ~(j <= Len(kept))
    <3>1. all[i].n = n + (i - Len(kept)) - 1 /\ all[j].n = n + (j - Len(kept)) - 1
      BY <1>5, <2>2
    <3>2. all[i].n = all[j].n
      BY <1>8 DEF Same
    <3>3. i \in Int /\ j \in Int
      BY <1>1, <1>4
    <3> QED BY <1>1, <3>1, <3>2, <3>3
  <2>3. ASSUME NEW k \in 1..Len(kept), NEW l \in 1..Len(all), ~(l <= Len(kept)),
               all[k] = kept[k], Same(all[k], all[l])
        PROVE  FALSE
    <3>1. all[l].chain = chain /\ all[l].n >= n
      BY <1>1, <1>4, <1>5, <2>3
    <3>2. kept[k].chain = chain => kept[k].n < n
      BY <2>3 DEF Reads, Behind
    <3> QED BY <1>1, <1>6, <2>3, <3>1, <3>2 DEF Same
  <2>4. Same(all[j], all[i])
    BY <1>8 DEF Same
  <2> QED BY <1>1, <1>4, <1>5, <1>8, <2>1, <2>2, <2>3, <2>4
<1>9. ASSUME NEW m \in got
       PROVE  Behind(m, root, chain, stop) /\ \A i \in 1..Len(all) : ~Same(all[i], m)
  <2>1. m.n \in Nat /\ Behind(m, root, chain, n) /\ \A i \in 1..Len(kept) : ~Same(kept[i], m)
    BY DEF Reads
  <2>2. Behind(m, root, chain, stop)
    BY <1>1, <2>1 DEF Behind
  <2>3. ASSUME NEW i \in 1..Len(all)
        PROVE  ~Same(all[i], m)
    <3>1. CASE i \in 1..Len(kept) /\ all[i] = kept[i]
      BY <2>1, <3>1
    <3>2. CASE ~(i <= Len(kept)) /\ all[i].chain = chain /\ all[i].n = n + (i - Len(kept)) - 1
      BY <1>1, <1>4, <2>1, <3>2 DEF Same, Behind
    <3> QED BY <1>5, <3>1, <3>2
  <2> QED BY <2>2, <2>3
<1>10. Reads(q, root, chain, stop, all, got)
  <2>1. root \in Seq(SUBSET Pairs) /\ \A m \in got : Mine(q, m.chain) /\ m.n \in Nat
    BY DEF Reads
  <2> QED BY <1>2, <1>4, <1>7, <1>8, <1>9, <2>1 DEF Reads
<1> QED BY <1>10 DEF all, more

\* A ratchet step, in the receiving chain or in the root only.
LEMMA ReadsOn ==
  ASSUME NEW q, NEW root, NEW chain, NEW n, NEW kept, NEW got,
         Reads(q, root, chain, n, kept, got), NEW d \in SUBSET Pairs
  PROVE  /\ Reads(q, Append(root, d), chain, n, kept, got)
         /\ Mine(q, Append(root, d)) =>
               Reads(q, Append(root, d), Append(root, d), 0, kept, got)
<1> DEFINE next == Append(root, d)
<1>1. next \in Seq(SUBSET Pairs) /\ Len(next) = Len(root) + 1 /\ Len(root) \in Nat
  BY DEF Reads
<1> HIDE DEF next
<1>2. /\ \A i \in 1..Len(kept) : Len(kept[i].chain) \in Nat
      /\ \A m \in got : Len(m.chain) \in Nat
  BY KeptKeys, LenProperties DEF Reads, Mine
<1>3. chain = NoChain \/ (Mine(q, chain) /\ Len(chain) <= Len(next))
  <2>1. CASE Mine(q, chain) /\ Len(chain) <= Len(root)
    <3>1. Len(chain) \in Nat
      BY <2>1, LenProperties DEF Mine
    <3> QED BY <1>1, <2>1, <3>1
  <2> QED BY <2>1 DEF Reads
<1>4. ASSUME NEW x, Len(x.chain) \in Nat, Behind(x, root, chain, n)
      PROVE  Behind(x, next, chain, n) /\ Behind(x, next, next, 0)
  <2>1. Len(x.chain) <= Len(root)
    BY <1>4 DEF Behind
  <2>2. x.chain # next
    BY <1>1, <1>4, <2>1
  <2> QED BY <1>1, <1>4, <2>1, <2>2 DEF Behind
<1>5. Reads(q, next, chain, n, kept, got)
  BY <1>1, <1>2, <1>3, <1>4 DEF Reads
<1>6. Mine(q, next) => Reads(q, next, next, 0, kept, got)
  BY <1>1, <1>2, <1>4 DEF Reads
<1> QED BY <1>5, <1>6 DEF next

\* The next message of the chain is opened.
LEMMA ReadsNext ==
  ASSUME NEW q, NEW root, NEW chain, NEW n, NEW kept, NEW got,
         Reads(q, root, chain, n, kept, got), NEW m, m.chain = chain, m.n = n, Mine(q, chain)
  PROVE  m \notin got /\ Reads(q, root, chain, n + 1, kept, got \cup {m})
<1>1. n \in Nat /\ kept \in Seq(KeyOf(q))
  BY DEF Reads
<1>2. m \notin got
  BY <1>1 DEF Reads, Behind
<1>3. ASSUME NEW x, x.n \in Nat, Behind(x, root, chain, n)
      PROVE  Behind(x, root, chain, n + 1) /\ ~Same(x, m)
  BY <1>1, <1>3 DEF Behind, Same
<1>4. \A i \in 1..Len(kept) : kept[i].n \in Nat
  BY <1>1, KeptKeys
<1>5. Len(chain) <= Len(root)
  <2>1. chain # NoChain
    BY DEF Mine, NoChain
  <2> QED BY <2>1 DEF Reads
<1>6. Behind(m, root, chain, n + 1)
  BY <1>1, <1>5 DEF Behind
<1>7. \A i \in 1..Len(kept) : Behind(kept[i], root, chain, n + 1) /\ ~Same(kept[i], m)
  BY <1>3, <1>4 DEF Reads
<1>8. ASSUME NEW x \in got \cup {m}
      PROVE  /\ Mine(q, x.chain) /\ x.n \in Nat /\ Behind(x, root, chain, n + 1)
             /\ \A i \in 1..Len(kept) : ~Same(kept[i], x)
  <2>1. CASE x \in got
    BY <1>3, <2>1 DEF Reads
  <2>2. CASE x = m
    BY <1>1, <1>6, <1>7, <2>2
  <2> QED BY <2>1, <2>2
<1>9. n + 1 \in Nat
  BY <1>1
<1> QED BY <1>1, <1>2, <1>7, <1>8, <1>9 DEF Reads

\* A message is opened with a key that was kept.
LEMMA ReadsLate ==
  ASSUME NEW q, NEW root, NEW chain, NEW n, NEW kept, NEW got,
         Reads(q, root, chain, n, kept, got), NEW m, NEW i \in 1..Len(kept), Same(kept[i], m)
  PROVE  m \notin got /\ Reads(q, root, chain, n, RemoveAt(kept, i), got \cup {m})
<1> DEFINE few == RemoveAt(kept, i)
           at == [j \in 1..(Len(kept) - 1) |-> IF j < i THEN j ELSE j + 1]
<1>1. /\ kept \in Seq(KeyOf(q)) /\ Len(kept) \in Nat
      /\ Mine(q, kept[i].chain) /\ kept[i].n \in Nat
  BY KeptKeys DEF Reads
<1>2. m \notin got
  BY DEF Reads
<1>3. /\ few \in Seq(KeyOf(q)) /\ Len(few) = Len(kept) - 1
      /\ \A j \in 1..Len(few) : few[j] = kept[at[j]]
  <2> DEFINE S == KeyOf(q)
             a == SubSeq(kept, 1, i - 1)
             b == SubSeq(kept, i + 1, Len(kept))
  <2> HIDE DEF S
  <2>1. kept \in Seq(S) /\ i \in Nat /\ Len(kept) \in Nat
    BY <1>1 DEF S
  <2>2. \A j \in 1..Len(kept) : kept[j] \in S
    BY <2>1, ElementOfSeq
  <2>3. /\ a \in Seq(S) /\ Len(a) = i - 1
        /\ \A j \in 1..(i - 1) : a[j] = kept[j]
    <3>1. \A j \in 1..(i - 1) : kept[j] \in S
      BY <2>1, <2>2
    <3> QED BY <2>1, <3>1, SubSeqProperties
  <2>4. /\ b \in Seq(S) /\ Len(b) = Len(kept) - i
        /\ \A j \in 1..(Len(kept) - i) : b[j] = kept[i + j]
    <3>1. \A j \in (i + 1)..Len(kept) : kept[j] \in S
      BY <2>1, <2>2
    <3> QED BY <2>1, <3>1, SubSeqProperties
  <2>5. few = a \o b
    BY DEF RemoveAt
  <2> HIDE DEF a, b, few
  <2>6. /\ few \in Seq(S) /\ Len(few) = Len(a) + Len(b)
        /\ \A j \in 1..(Len(a) + Len(b)) : few[j] = IF j <= Len(a) THEN a[j] ELSE b[j - Len(a)]
    BY <2>3, <2>4, <2>5, ConcatProperties
  <2>7. Len(few) = Len(kept) - 1
    BY <2>1, <2>3, <2>4, <2>6
  <2>8. ASSUME NEW j \in 1..Len(few)
        PROVE  few[j] = kept[at[j]]
    <3>1. CASE j < i
      BY <2>1, <2>3, <2>4, <2>6, <2>7, <3>1
    <3>2. CASE ~(j < i)
      <4>1. j - (i - 1) \in 1..(Len(kept) - i)
        BY <2>1, <2>7, <3>2
      <4>2. few[j] = b[j - (i - 1)]
        BY <2>1, <2>3, <2>4, <2>6, <2>7, <3>2
      <4>3. i + (j - (i - 1)) = j + 1
        BY <2>1, <2>7
      <4> QED BY <2>1, <2>4, <2>7, <3>2, <4>1, <4>2, <4>3
    <3> QED BY <3>1, <3>2
  <2> QED BY <2>6, <2>7, <2>8 DEF S
<1> HIDE DEF few
<1>4. /\ at \in [1..Len(few) -> 1..Len(kept)]
      /\ \A j \in 1..Len(few) : at[j] # i
      /\ \A j, k \in 1..Len(few) : at[j] = at[k] => j = k
  BY <1>1, <1>3
<1> HIDE DEF at
<1>5. Reads(q, root, chain, n, few, got)
  BY <1>3, <1>4, ReadsFewer
<1>6. \A j \in 1..Len(few) : ~Same(few[j], m)
  <2> TAKE j \in 1..Len(few)
  <2>1. at[j] \in 1..Len(kept) /\ at[j] # i /\ few[j] = kept[at[j]]
    BY <1>3, <1>4
  <2>2. ~Same(kept[at[j]], kept[i])
    BY <2>1 DEF Reads
  <2> QED BY <2>1, <2>2 DEF Same
<1>7. Mine(q, m.chain) /\ m.n \in Nat /\ Behind(m, root, chain, n)
  <2>1. Behind(kept[i], root, chain, n)
    BY DEF Reads
  <2> QED BY <1>1, <2>1 DEF Same, Behind
<1>8. Reads(q, root, chain, n, few, got \cup {m})
  BY <1>5, <1>6, <1>7 DEF Reads
<1> QED BY <1>2, <1>8 DEF few

\* What session s with q reads, after the messages got.
Reading(q, s, got) == Reads(q, s.rootKey, s.recvChain, s.recvMsgNum, s.skippedKeys, got)

\* Stepping the receiving chain on.
LEMMA SkipReads ==
  ASSUME NEW q, NEW s, NEW got, Fields \subseteq DOMAIN s, Reading(q, s, got),
         Mine(q, s.recvChain), s.theirRatchetPub \in Pairs, NEW stop \in Nat
  PROVE  /\ Reading(q, SkipTo(s, stop), got)
         /\ SkipTo(s, stop).recvChain = s.recvChain
         /\ s.recvMsgNum <= stop => SkipTo(s, stop).recvMsgNum = stop
<1> DEFINE n == s.recvMsgNum
           pub == s.theirRatchetPub
           more == Between(pub, s.recvChain, n, stop)
           all == s.skippedKeys \o more
           t == [s EXCEPT !.recvMsgNum = stop, !.skippedKeys = all]
<1>1. n \in Nat
  BY DEF Reading, Reads
<1>2. CASE n >= stop
  BY <1>1, <1>2 DEF SkipTo
<1>3. CASE ~(n >= stop)
  <2>1. SkipTo(s, stop) = t
    BY <1>3 DEF SkipTo, Between, Fields
  <2>2. Reads(q, s.rootKey, s.recvChain, stop, all, got)
    BY <1>1, <1>3, ReadsAhead DEF Reading
  <2> HIDE DEF all
  <2>3. /\ t.rootKey = s.rootKey /\ t.recvChain = s.recvChain /\ t.recvMsgNum = stop
        /\ t.skippedKeys = all
    BY DEF Fields
  <2> HIDE DEF t
  <2>4. Reading(q, t, got)
    BY <2>2, <2>3 DEF Reading
  <2> QED BY <2>1, <2>3, <2>4
<1> QED BY <1>2, <1>3

\* Dropping the keys of older chains.
LEMMA PickedReads ==
  ASSUME NEW q, NEW root, NEW chain, NEW n, NEW kept, NEW got,
         Reads(q, root, chain, n, kept, got), NEW T
  PROVE  Reads(q, root, chain, n, Picked(kept, T), got)
<1> DEFINE few == Picked(kept, T)
<1>1. kept \in Seq(KeyOf(q))
  BY DEF Reads
<1>2. few \in Seq(T) /\ Places(few, kept, T, Len(kept)) # {}
  BY <1>1, PickedInPlaces
<1> HIDE DEF few
<1>3. PICK at \in [1..Len(few) -> 1..Len(kept)] :
        /\ \A i \in 1..Len(few) : few[i] = kept[at[i]]
        /\ \A i, j \in 1..Len(few) : i < j => at[i] < at[j]
  BY <1>2 DEF Places
<1>4. Len(few) \in Nat /\ Len(kept) \in Nat
  BY <1>1, <1>2, LenProperties
<1>5. \A i, j \in 1..Len(few) : at[i] = at[j] => i = j
  BY <1>3, <1>4
<1>6. Reads(q, root, chain, n, few, got)
  BY <1>2, <1>3, <1>5, ReadsFewer
<1> QED BY <1>6 DEF few

\* Dropping the oldest.
LEMMA CapReads ==
  ASSUME NEW q, NEW root, NEW chain, NEW n, NEW kept, NEW got,
         Reads(q, root, chain, n, kept, got)
  PROVE  Reads(q, root, chain, n, CapSkippedKeys(kept), got)
<1> DEFINE few == SubSeq(kept, Len(kept) - MaxSkippedKeys + 1, Len(kept))
           at == [i \in 1..MaxSkippedKeys |-> Len(kept) - MaxSkippedKeys + i]
           S == KeyOf(q)
<1>1. kept \in Seq(S) /\ Len(kept) \in Nat /\ MaxSkippedKeys \in Nat
  BY KeptKeys, RatchetAssumption DEF Reads
<1>2. CASE Len(kept) <= MaxSkippedKeys
  BY <1>2 DEF CapSkippedKeys
<1>3. CASE ~(Len(kept) <= MaxSkippedKeys)
  <2> HIDE DEF S
  <2>1. \A i \in (Len(kept) - MaxSkippedKeys + 1)..Len(kept) : kept[i] \in S
    BY <1>1, <1>3, ElementOfSeq
  <2>2. /\ few \in Seq(S) /\ Len(few) = MaxSkippedKeys
        /\ \A i \in 1..MaxSkippedKeys : few[i] = kept[Len(kept) - MaxSkippedKeys + i]
    BY <1>1, <1>3, <2>1, SubSeqProperties
  <2> HIDE DEF few
  <2>3. /\ at \in [1..Len(few) -> 1..Len(kept)]
        /\ \A i \in 1..Len(few) : few[i] = kept[at[i]]
        /\ \A i, j \in 1..Len(few) : at[i] = at[j] => i = j
    BY <1>1, <1>3, <2>2
  <2> HIDE DEF at
  <2>4. few \in Seq(S)
    BY <2>2
  <2>5. Reads(q, root, chain, n, few, got)
    BY <2>3, <2>4, ReadsFewer
  <2> QED BY <1>3, <2>5 DEF CapSkippedKeys, few
<1> QED BY <1>2, <1>3

\* Before a new chain of the other's.
LEMMA RetireReads ==
  ASSUME NEW q, NEW s, NEW got, Fields \subseteq DOMAIN s, Reading(q, s, got),
         s.theirRatchetPub \in Pairs, NEW pn \in Nat
  PROVE  Reading(q, Retire(s, pn), got)
<1> DEFINE few == Picked(s.skippedKeys,
                         {k \in ToSet(s.skippedKeys) : k.pub = s.theirRatchetPub})
           kept == [s EXCEPT !.skippedKeys = few]
           stop == Least(pn, s.recvMsgNum + MaxSkip)
<1>1. Retire(s, pn) = IF s.recvChain = NoChain THEN kept ELSE SkipTo(kept, stop)
  BY Zenon DEF Retire, Fields
<1>2. Reads(q, s.rootKey, s.recvChain, s.recvMsgNum, few, got)
  BY PickedReads DEF Reading
<1> HIDE DEF few
<1>3. /\ Fields \subseteq DOMAIN kept
      /\ kept.rootKey = s.rootKey /\ kept.recvChain = s.recvChain
      /\ kept.recvMsgNum = s.recvMsgNum /\ kept.skippedKeys = few
      /\ kept.theirRatchetPub = s.theirRatchetPub
  BY DEF Fields
<1> HIDE DEF kept
<1>4. Reading(q, kept, got)
  BY <1>2, <1>3 DEF Reading
<1>5. stop \in Nat
  BY <1>2, RatchetAssumption DEF Reads, Least
<1> HIDE DEF stop
<1>6. s.recvChain # NoChain => Mine(q, kept.recvChain)
  BY <1>2, <1>3 DEF Reads
<1>7. s.recvChain # NoChain => Reading(q, SkipTo(kept, stop), got)
  BY <1>3, <1>4, <1>5, <1>6, SkipReads
<1> QED BY <1>1, <1>4, <1>7

\* A ratchet step under a key of the other, onto the chain a message of theirs
\* names.
LEMMA ReceiveReads ==
  ASSUME NEW q, NEW s, NEW got, Fields \subseteq DOMAIN s, Reading(q, s, got),
         s.theirRatchetPub \in Pairs, s.myRatchetPub \in Pairs,
         NEW pub \in Pairs, NEW pn \in Nat,
         Mine(q, DhRatchetReceive(s, pub, pn).recvChain)
  PROVE  Reading(q, DhRatchetReceive(s, pub, pn), got)
<1> DEFINE r == Retire(s, pn)
           d == {pub, s.myRatchetPub}
           root == Append(s.rootKey, d)
           t == [r EXCEPT !.rootKey = root, !.recvChain = root, !.recvMsgNum = 0,
                          !.theirRatchetPub = pub, !.pendingDhRatchet = TRUE]
<1>1. DhRatchetReceive(s, pub, pn) = t
  BY Zenon DEF DhRatchetReceive, KdfRk, Dh
<1>2. Fields \subseteq DOMAIN r /\ r.rootKey = s.rootKey
  BY RetireKeeps DEF SameSender
<1>3. Reading(q, r, got)
  BY RetireReads
<1> HIDE DEF r
<1>4. d \in SUBSET Pairs
  OBVIOUS
<1> HIDE DEF root
<1>5. t.rootKey = root /\ t.recvChain = root /\ t.recvMsgNum = 0 /\ t.skippedKeys = r.skippedKeys
  BY <1>2 DEF Fields
<1> HIDE DEF t
<1>6. Mine(q, root)
  BY <1>1, <1>5
<1> HIDE DEF d
<1>7. Reads(q, root, root, 0, r.skippedKeys, got)
  BY <1>2, <1>3, <1>4, <1>6, ReadsOn DEF Reading, root
<1> QED BY <1>1, <1>5, <1>7 DEF Reading

\* Nothing has been read by a session that has just begun.
LEMMA NewReads ==
  ASSUME NEW q, NEW s, s.rootKey \in Seq(SUBSET Pairs), s.recvMsgNum = 0, s.skippedKeys = <<>>,
         s.recvChain = NoChain \/ (Mine(q, s.recvChain) /\ Len(s.recvChain) <= Len(s.rootKey))
  PROVE  Reading(q, s, {})
<1>1. <<>> \in Seq(KeyOf(q)) /\ Len(<<>>) = 0
  BY EmptySeq
<1> QED BY <1>1 DEF Reading, Reads

\* A text leaves what is read as it is.
LEMMA SendReads ==
  ASSUME NEW p \in Parties, NEW s, NEW got, NEW i \in Nat \ {0},
         IF s = Nothing THEN got = {} ELSE IsState(p, s) /\ Reading(Peer(p), s, got)
  PROVE  Reading(Peer(p), SendState(p, s, <<p, i>>), got)
<1> DEFINE q == Peer(p)
           fresh == <<p, i>>
<1>1. q \in Parties /\ fresh \in Pairs
  BY TwoPeople DEF Pairs
<1>2. CASE s = Nothing
  <2> DEFINE d == {fresh, <<q, 0>>}
             root == Append(<<>>, d)
             t == [ver |-> 0, rootKey |-> root, myRatchetPub |-> fresh,
                   theirRatchetPub |-> <<q, 0>>, pendingDhRatchet |-> FALSE,
                   sendChain |-> root, sendMsgNum |-> 0, sendPrevLen |-> 0,
                   recvChain |-> NoChain, recvMsgNum |-> 0, skippedKeys |-> <<>>]
  <2>1. SendState(p, s, fresh) = t
    BY <1>2 DEF SendState, InitSenderState, KdfRk, Dh, ZeroRoot, Identity
  <2>2. d \in SUBSET Pairs
    BY <1>1 DEF Pairs
  <2>3. root \in Seq(SUBSET Pairs)
    BY <2>2
  <2> HIDE DEF root
  <2>4. t.rootKey = root /\ t.recvMsgNum = 0 /\ t.skippedKeys = <<>> /\ t.recvChain = NoChain
    OBVIOUS
  <2> HIDE DEF t
  <2>5. Reading(q, t, {})
    BY <2>3, <2>4, NewReads
  <2> QED BY <1>2, <2>1, <2>5
<1>3. CASE s # Nothing /\ s.pendingDhRatchet
  <2> DEFINE n == s.sendMsgNum
             d == {fresh, s.theirRatchetPub}
             root == Append(s.rootKey, d)
             t == [s EXCEPT !.sendPrevLen = n, !.sendChain = root, !.sendMsgNum = 0,
                            !.rootKey = root, !.myRatchetPub = fresh, !.pendingDhRatchet = FALSE]
  <2>1. SendState(p, s, fresh) = t
    BY <1>3, Zenon DEF SendState, DhRatchetSend, KdfRk, Dh
  <2>2. IsState(p, s) /\ Fields \subseteq DOMAIN s /\ Reading(q, s, got)
    BY <1>3 DEF IsState
  <2>3. s.theirRatchetPub \in Pairs
    BY <1>1, <2>2 DEF IsState, Pairs
  <2>4. d \in SUBSET Pairs
    BY <1>1, <2>3
  <2> HIDE DEF d
  <2>5. Reads(q, root, s.recvChain, s.recvMsgNum, s.skippedKeys, got)
    BY <2>2, <2>4, ReadsOn DEF Reading
  <2> HIDE DEF root, n
  <2>6. /\ t.rootKey = root /\ t.recvChain = s.recvChain /\ t.recvMsgNum = s.recvMsgNum
        /\ t.skippedKeys = s.skippedKeys
    BY <2>2 DEF Fields
  <2> HIDE DEF t
  <2> QED BY <2>1, <2>5, <2>6 DEF Reading
<1>4. CASE s # Nothing /\ ~s.pendingDhRatchet
  BY <1>4 DEF SendState
<1> QED BY <1>2, <1>3, <1>4

\* A message that opens was not among those opened before.
LEMMA OpenedReads ==
  ASSUME NEW p \in Parties, NEW s, NEW got, NEW i \in Nat \ {0},
         IF s = Nothing THEN got = {} ELSE IsState(p, s) /\ Reading(Peer(p), s, got),
         NEW m, Mine(Peer(p), m.chain), m.pub \in {Peer(p)} \X (Nat \ {0}),
         m.n \in Nat, m.pn \in Nat,
         Decrypted(p, s, m, <<p, i>>).opens
  PROVE  /\ m \notin got
         /\ Reading(Peer(p), Decrypted(p, s, m, <<p, i>>).state, got \cup {m})
<1> DEFINE q == Peer(p)
           fresh == <<p, i>>
           dec == Decrypted(p, s, m, fresh)
           r == ReadState(p, s, m, fresh)
           u == SkipTo(r, m.n)
           cut == CapSkippedKeys(u.skippedKeys)
           num == u.recvMsgNum + 1
           t == [u EXCEPT !.recvMsgNum = num, !.skippedKeys = cut]
<1>1. q \in Parties /\ q # p /\ Peer(q) = p /\ m.pub \in Pairs /\ fresh \in Pairs
  BY TwoPeople DEF Pairs
<1>2. CASE s # Nothing /\ Kept(s, m) # {}
  <2> DEFINE j == CHOOSE j \in Kept(s, m) : TRUE
             rest == RemoveAt(s.skippedKeys, j)
             v == [s EXCEPT !.skippedKeys = rest]
  <2>1. dec.state = v /\ s.skippedKeys[j].chain = m.chain
    BY <1>2 DEF Decrypted, UseKept
  <2>2. IsState(p, s) /\ Fields \subseteq DOMAIN s /\ Reading(q, s, got)
    BY <1>2 DEF IsState
  <2>3. j \in DOMAIN s.skippedKeys /\ s.skippedKeys[j].n = m.n
    BY <1>2 DEF Kept
  <2>4. DOMAIN s.skippedKeys = 1..Len(s.skippedKeys)
    <3>1. s.skippedKeys \in Seq(KeyOf(q))
      BY <2>2 DEF Reading, Reads
    <3> QED BY <3>1, LenProperties
  <2> HIDE DEF j, dec
  <2>5. j \in 1..Len(s.skippedKeys) /\ Same(s.skippedKeys[j], m)
    BY <2>1, <2>3, <2>4 DEF Same
  <2>6. /\ m \notin got
        /\ Reads(q, s.rootKey, s.recvChain, s.recvMsgNum, rest, got \cup {m})
    BY <2>2, <2>5, ReadsLate DEF Reading
  <2> HIDE DEF rest
  <2>7. /\ v.rootKey = s.rootKey /\ v.recvChain = s.recvChain /\ v.recvMsgNum = s.recvMsgNum
        /\ v.skippedKeys = rest
    BY <2>2 DEF Fields
  <2> HIDE DEF v
  <2>8. Reading(q, v, got \cup {m})
    BY <2>6, <2>7 DEF Reading
  <2> QED BY <2>1, <2>6, <2>8 DEF dec
<1>3. CASE ~(s # Nothing /\ Kept(s, m) # {})
  <2>1. dec.state = t /\ r.recvChain = m.chain /\ m.n >= r.recvMsgNum
    BY <1>3, Zenon DEF Decrypted
  <2>2. /\ Fields \subseteq DOMAIN r /\ r.theirRatchetPub \in Pairs /\ Reading(q, r, got)
    <3>1. CASE s = Nothing
      <4> DEFINE d == {m.pub, <<p, 0>>}
                 e == {m.pub, fresh}
                 root == Append(<<>>, d)
                 next == Append(root, e)
                 w == [ver |-> 0, rootKey |-> next, myRatchetPub |-> fresh,
                       theirRatchetPub |-> m.pub, pendingDhRatchet |-> FALSE,
                       sendChain |-> next, sendMsgNum |-> 0, sendPrevLen |-> 0,
                       recvChain |-> root, recvMsgNum |-> 0, skippedKeys |-> <<>>]
      <4>1. r = w
        BY <3>1 DEF ReadState, InitReceiverState, KdfRk, Dh, ZeroRoot, Identity
      <4>2. d \in SUBSET Pairs /\ e \in SUBSET Pairs
        BY <1>1 DEF Pairs
      <4>3. root \in Seq(SUBSET Pairs)
        BY <4>2
      <4> HIDE DEF root, d, e
      <4>4. next \in Seq(SUBSET Pairs) /\ Len(root) <= Len(next)
        BY <4>2, <4>3, LongerRoot
      <4> HIDE DEF next
      <4>5. /\ w.rootKey = next /\ w.recvMsgNum = 0 /\ w.skippedKeys = <<>>
            /\ w.recvChain = root /\ w.theirRatchetPub = m.pub /\ Fields \subseteq DOMAIN w
        BY DEF Fields
      <4> HIDE DEF w
      <4>6. Mine(q, root)
        BY <2>1, <4>1, <4>5
      <4>7. Reading(q, w, {})
        BY <4>4, <4>5, <4>6, NewReads
      <4> HIDE DEF r
      <4> QED BY <1>1, <3>1, <4>1, <4>5, <4>7
    <3>2. CASE s # Nothing
      <4>1. Fields \subseteq DOMAIN s /\ Reading(q, s, got)
        BY <3>2 DEF IsState
      <4>2. s.theirRatchetPub \in Pairs /\ s.myRatchetPub \in Pairs
        BY <1>1, <3>2 DEF IsState, MadeWith, Pairs
      <4>3. CASE m.pub = s.theirRatchetPub
        BY <3>2, <4>1, <4>2, <4>3 DEF ReadState
      <4>4. CASE m.pub # s.theirRatchetPub
        <5>1. r = DhRatchetReceive(s, m.pub, m.pn)
          BY <3>2, <4>4 DEF ReadState
        <5>2. Received(s, DhRatchetReceive(s, m.pub, m.pn), m.pub)
          BY <4>1, DhReceives
        <5>3. Mine(q, DhRatchetReceive(s, m.pub, m.pn).recvChain)
          BY <2>1, <5>1
        <5>4. Reading(q, DhRatchetReceive(s, m.pub, m.pn), got)
          BY <1>1, <4>1, <4>2, <5>3, ReceiveReads
        <5> HIDE DEF r
        <5> QED BY <1>1, <5>1, <5>2, <5>4 DEF Received
      <4> QED BY <4>3, <4>4
    <3> QED BY <3>1, <3>2
  <2> HIDE DEF r
  <2>3. /\ Fields \subseteq DOMAIN u
        /\ Reading(q, u, got) /\ u.recvChain = r.recvChain /\ u.recvMsgNum = m.n
    <3>1. Mine(q, r.recvChain) /\ r.recvMsgNum <= m.n
      BY <2>1, <2>2 DEF Reading, Reads
    <3> QED BY <2>2, <3>1, SkipToKeeps, SkipReads
  <2> HIDE DEF u
  <2>4. Reads(q, u.rootKey, m.chain, m.n, cut, got)
    BY <2>1, <2>3, CapReads DEF Reading
  <2> HIDE DEF cut
  <2>5. m \notin got /\ Reads(q, u.rootKey, m.chain, num, cut, got \cup {m})
    BY <2>3, <2>4, ReadsNext
  <2> HIDE DEF num
  <2>6. /\ t.rootKey = u.rootKey /\ t.recvChain = u.recvChain /\ t.recvMsgNum = num
        /\ t.skippedKeys = cut
    BY <2>3 DEF Fields
  <2> HIDE DEF t, dec
  <2>7. Reading(q, t, got \cup {m})
    BY <2>1, <2>3, <2>5, <2>6 DEF Reading
  <2> QED BY <2>1, <2>5, <2>7 DEF dec
<1> QED BY <1>2, <1>3

-----------------------------------------------------------------------------
(* What is read is read once.                                              *)

\* What the session saved last reads, and what it has read.
Reader(p) ==
    IF last[p] = Nothing THEN opened[p] = {} ELSE Reading(Peer(p), last[p], opened[p])

ReadOnce ==
    /\ DOMAIN opened = Parties /\ again = {}
    /\ \A p \in Parties : Reader(p)

ReadInv == ~lost => ReadOnce

LEMMA ReadInit == Init => ReadInv
BY DEF Init, ReadInv, ReadOnce, Reader

\* The session saved reads what it read before it was saved.
LEMMA SavedReads ==
  ASSUME NEW p \in Parties, NEW q, NEW s, NEW got, IsState(p, s), Reading(q, s, got),
         DOMAIN last = Parties, SaveRatchetState(p, s)
  PROVE  /\ last'[p] # Nothing /\ Reading(q, last'[p], got)
         /\ \A x \in Parties \ {p} : last'[x] = last[x]
<1> DEFINE v == s.ver + 1
           t == [s EXCEPT !.ver = v]
<1>1. last' = [last EXCEPT ![p] = t]
  BY DEF SaveRatchetState
<1> HIDE DEF v
<1>2. /\ Fields \subseteq DOMAIN t /\ t.rootKey = s.rootKey /\ t.recvChain = s.recvChain
      /\ t.recvMsgNum = s.recvMsgNum /\ t.skippedKeys = s.skippedKeys
  BY DEF IsState, Fields
<1> HIDE DEF t
<1>3. last'[p] = t /\ \A x \in Parties \ {p} : last'[x] = last[x]
  BY <1>1
<1>4. t # Nothing
  BY <1>2 DEF Fields, Nothing
<1>5. Reading(q, t, got)
  BY <1>2 DEF Reading
<1> QED BY <1>3, <1>4, <1>5

\* A text leaves what has been read as it is.
LEMMA EncryptReads ==
  ASSUME Good, ReadOnce, NEW p \in Parties, NEW i \in DOMAIN ops[p], RatchetEncrypt(p, i)
  PROVE  ReadOnce'
<1>1. Shape /\ Running(p) /\ Session(p)
  BY DEF Good
<1>2. PICK op : ops[p] = <<op>> /\ op.state = last[p]
  BY <1>1 DEF Running
<1>3. i = 1 /\ ops[p][i] = op
  BY <1>2
<1> DEFINE l == last[p]
           k == keys[p] + 1
           fresh == <<p, k>>
           s == SendState(p, l, fresh)
           n == s.sendMsgNum + 1
           w == [s EXCEPT !.sendMsgNum = n]
<1>4. SaveRatchetState(p, w) /\ opened' = opened /\ again' = again
  BY <1>2, <1>3 DEF RatchetEncrypt
<1>5. k \in Nat \ {0}
  BY <1>1 DEF Shape
<1>6. /\ l = Nothing \/ IsState(p, l)
      /\ IF l = Nothing THEN opened[p] = {} ELSE IsState(p, l) /\ Reading(Peer(p), l, opened[p])
  BY <1>1 DEF Session, IsSaved, ReadOnce, Reader
<1> HIDE DEF l, k
<1>7. IsState(p, s) /\ Reading(Peer(p), s, opened[p])
  BY <1>5, <1>6, SendStateFits, SendReads
<1> HIDE DEF s
<1>8. n \in Nat
  BY <1>7 DEF IsState
<1> HIDE DEF n
<1>9. /\ Fields \subseteq DOMAIN w /\ w.sendMsgNum = n /\ w.rootKey = s.rootKey
      /\ w.sendChain = s.sendChain /\ w.myRatchetPub = s.myRatchetPub
      /\ w.sendPrevLen = s.sendPrevLen
      /\ w.theirRatchetPub = s.theirRatchetPub /\ w.pendingDhRatchet = s.pendingDhRatchet
      /\ w.recvChain = s.recvChain /\ w.recvMsgNum = s.recvMsgNum
      /\ w.skippedKeys = s.skippedKeys
  BY <1>7 DEF Fields, IsState
<1> HIDE DEF w
<1>10. IsState(p, w) /\ Reading(Peer(p), w, opened[p])
  BY <1>7, <1>8, <1>9 DEF IsState, Reading
<1>11. /\ last'[p] # Nothing /\ Reading(Peer(p), last'[p], opened[p])
       /\ \A x \in Parties \ {p} : last'[x] = last[x]
  BY <1>1, <1>4, <1>10, SavedReads DEF Shape
<1>12. ASSUME NEW x \in Parties PROVE Reader(x)'
  BY <1>4, <1>11 DEF ReadOnce, Reader
<1> QED BY <1>4, <1>12 DEF ReadOnce

\* A message that opens is one more that has been read.
LEMMA DecryptReads ==
  ASSUME Good, ReadOnce, NEW p \in Parties, NEW i \in DOMAIN ops[p], NEW damaged \in BOOLEAN,
         RatchetDecrypt(p, i, damaged)
  PROVE  ReadOnce'
<1>1. Shape /\ Running(p) /\ Session(p)
  BY DEF Good
<1>2. PICK op : /\ ops[p] = <<op>> /\ op.state = last[p]
                /\ op.kind = "decrypt" => op.m \in sent /\ op.m.from = Peer(p)
  BY <1>1 DEF Running
<1>3. i = 1 /\ ops[p][i] = op
  BY <1>2
<1> DEFINE l == last[p]
           k == keys[p] + 1
           fresh == <<p, k>>
           d == Decrypted(p, l, op.m, fresh)
           s == d.state
<1>4. op.kind = "decrypt"
  BY <1>3 DEF RatchetDecrypt
<1>5. CASE damaged \/ ~d.opens
  <2>1. Refused(p, i)
    BY <1>2, <1>3, <1>5 DEF RatchetDecrypt
  <2>2. UNCHANGED <<opened, again, last>>
    BY <2>1 DEF Refused, history
  <2> QED BY <2>2 DEF ReadOnce, Reader
<1>6. CASE ~damaged /\ d.opens
  <2>1. /\ SaveRatchetState(p, s)
        /\ opened' = [opened EXCEPT ![p] = @ \cup {op.m}]
        /\ again' = again \cup (opened[p] \cap {op.m})
    BY <1>2, <1>3, <1>6 DEF RatchetDecrypt
  <2>2. k \in Nat \ {0}
    BY <1>1 DEF Shape
  <2>3. /\ l = Nothing \/ IsState(p, l)
        /\ IF l = Nothing THEN opened[p] = {}
           ELSE IsState(p, l) /\ Reading(Peer(p), l, opened[p])
    BY <1>1 DEF Session, IsSaved, ReadOnce, Reader
  <2>4. /\ Mine(Peer(p), op.m.chain) /\ op.m.pub \in {Peer(p)} \X (Nat \ {0})
        /\ op.m.n \in Nat /\ op.m.pn \in Nat
    BY <1>2, <1>4 DEF Good, Passed, MadeWith
  <2>5. d.opens
    BY <1>6
  <2> HIDE DEF l, k
  <2>6. IsState(p, s)
    BY <2>2, <2>3, <2>4, <2>5, OpenedFits
  <2>7. op.m \notin opened[p] /\ Reading(Peer(p), s, opened[p] \cup {op.m})
    BY <2>2, <2>3, <2>4, <2>5, OpenedReads
  <2> HIDE DEF d, s
  <2>8. /\ last'[p] # Nothing /\ Reading(Peer(p), last'[p], opened[p] \cup {op.m})
        /\ \A x \in Parties \ {p} : last'[x] = last[x]
    BY <1>1, <2>1, <2>6, <2>7, SavedReads DEF Shape
  <2>9. /\ opened'[p] = opened[p] \cup {op.m}
        /\ \A x \in Parties \ {p} : opened'[x] = opened[x]
        /\ DOMAIN opened' = Parties
    BY <2>1 DEF ReadOnce
  <2>10. again' = {}
    BY <2>1, <2>7 DEF ReadOnce
  <2>11. ASSUME NEW x \in Parties PROVE Reader(x)'
    BY <2>8, <2>9 DEF ReadOnce, Reader
  <2> QED BY <2>9, <2>10, <2>11 DEF ReadOnce
<1> QED BY <1>5, <1>6

LEMMA ReadStep == RatchetInv /\ ReadInv /\ [Next]_vars => ReadInv'
<1> SUFFICES ASSUME RatchetInv, ReadInv, [Next]_vars, ~lost' PROVE ReadOnce'
  BY DEF ReadInv
<1>1. ASSUME UNCHANGED <<opened, again, last>>, ~lost PROVE ReadOnce'
  BY <1>1 DEF ReadInv, ReadOnce, Reader
<1>2. CASE UNCHANGED vars
  BY <1>1, <1>2 DEF vars, history
<1>3. ASSUME NEW p \in Parties, NEW op, Begin(p, op) PROVE ReadOnce'
  BY <1>1, <1>3 DEF Begin, LoadRatchetState
<1>4. ASSUME NEW p \in Parties, BeginEncrypt(p) PROVE ReadOnce'
  BY <1>3, <1>4 DEF BeginEncrypt
<1>5. ASSUME NEW p \in Parties, NEW m \in sent, BeginDecrypt(p, m) PROVE ReadOnce'
  BY <1>3, <1>5 DEF BeginDecrypt
<1>6. ASSUME NEW p \in Parties, NEW i \in DOMAIN ops[p], RatchetEncrypt(p, i) PROVE ReadOnce'
  BY <1>6, EncryptReads DEF RatchetInv, ReadInv, RatchetEncrypt
<1>7. ASSUME NEW p \in Parties, NEW i \in DOMAIN ops[p], NEW damaged \in BOOLEAN,
             RatchetDecrypt(p, i, damaged)
      PROVE  ReadOnce'
  <2>1. lost' = lost
    BY <1>7, Zenon DEF RatchetDecrypt, Refused, history
  <2> QED BY <1>7, <2>1, DecryptReads DEF RatchetInv, ReadInv
<1>8. ASSUME NEW p \in Parties, NEW landed \in BOOLEAN, PutEnds(p, landed) PROVE ReadOnce'
  BY <1>1, <1>8 DEF PutEnds, history
<1>9. ASSUME NEW p \in Parties, LateLands(p) PROVE ReadOnce'
  BY <1>1, <1>9 DEF LateLands, history
<1>10. ASSUME NEW p \in Parties, Leave(p) PROVE ReadOnce'
  BY <1>1, <1>10 DEF Leave, history
<1> QED
  BY <1>2, <1>4, <1>5, <1>6, <1>7, <1>8, <1>9, <1>10 DEF Next, Reload, SignOut

LEMMA ReadInvariant == Spec => [](RatchetInv /\ ReadInv)
<1> QED BY RatchetInit, RatchetStep, ReadInit, ReadStep, PTL DEF Spec

-----------------------------------------------------------------------------
(* Which keys are kept.                                                    *)

\* The keys a session keeps for late messages.
Buffer(s) == ToSet(s.skippedKeys)

\* The keys of a chain from number n up to number stop, not including it.
Run(pub, chain, n, stop) == {Skipped(pub, j, chain) : j \in n..(stop - 1)}

\* The elements of two sequences in a row.
LEMMA BothParts ==
  ASSUME NEW S, NEW a \in Seq(S), NEW b \in Seq(S)
  PROVE  ToSet(a \o b) = ToSet(a) \cup ToSet(b)
<1> DEFINE c == a \o b
<1>1. /\ c \in Seq(S) /\ Len(c) = Len(a) + Len(b)
      /\ \A i \in 1..(Len(a) + Len(b)) : c[i] = IF i <= Len(a) THEN a[i] ELSE b[i - Len(a)]
  BY ConcatProperties
<1>2. Len(a) \in Nat /\ Len(b) \in Nat
  BY LenProperties
<1>3. DOMAIN a = 1..Len(a) /\ DOMAIN b = 1..Len(b) /\ DOMAIN c = 1..Len(c)
  BY <1>1, LenProperties
<1> HIDE DEF c
<1>4. ASSUME NEW i \in DOMAIN a PROVE i \in DOMAIN c /\ c[i] = a[i]
  BY <1>1, <1>2, <1>3
<1>5. ASSUME NEW i \in DOMAIN b PROVE \E j \in DOMAIN c : c[j] = b[i]
  <2>1. Len(a) + i \in 1..(Len(a) + Len(b)) /\ ~(Len(a) + i <= Len(a)) /\ (Len(a) + i) - Len(a) = i
    BY <1>2, <1>3
  <2> QED BY <1>1, <1>3, <2>1
<1>6. ASSUME NEW i \in DOMAIN c PROVE (\E j \in DOMAIN a : c[i] = a[j]) \/ (\E j \in DOMAIN b : c[i] = b[j])
  <2>1. CASE i <= Len(a)
    BY <1>1, <1>2, <1>3, <2>1
  <2>2. CASE ~(i <= Len(a))
    <3>1. i - Len(a) \in 1..Len(b)
      BY <1>1, <1>2, <1>3, <2>2
    <3> QED BY <1>1, <1>3, <2>2, <3>1
  <2> QED BY <2>1, <2>2
<1>7. ToSet(c) = ToSet(a) \cup ToSet(b)
  BY <1>4, <1>5, <1>6 DEF ToSet
<1> QED BY <1>7 DEF c

\* What stepping the receiving chain on adds.
LEMMA SkipAdds ==
  ASSUME NEW q, NEW s, NEW got, Fields \subseteq DOMAIN s, Reading(q, s, got),
         Mine(q, s.recvChain), s.theirRatchetPub \in Pairs, NEW stop \in Nat
  PROVE  Buffer(SkipTo(s, stop)) =
            Buffer(s) \cup Run(s.theirRatchetPub, s.recvChain, s.recvMsgNum, stop)
<1> DEFINE n == s.recvMsgNum
           pub == s.theirRatchetPub
           chain == s.recvChain
           more == Between(pub, chain, n, stop)
           all == s.skippedKeys \o more
           t == [s EXCEPT !.recvMsgNum = stop, !.skippedKeys = all]
<1>1. n \in Nat /\ s.skippedKeys \in Seq(KeyOf(q))
  BY DEF Reading, Reads
<1>2. CASE n >= stop
  <2>1. n..(stop - 1) = {}
    BY <1>1, <1>2
  <2> QED BY <1>2, <2>1 DEF SkipTo, Run
<1>3. CASE ~(n >= stop)
  <2>1. SkipTo(s, stop) = t
    BY <1>3 DEF SkipTo, Between, Fields
  <2>2. Numbered(q, more, chain, n, stop - n)
    BY <1>1, <1>3, BetweenKeys
  <2>3. more \in Seq(KeyOf(q)) /\ Len(more) = stop - n
    BY <2>2 DEF Numbered
  <2>4. ToSet(all) = ToSet(s.skippedKeys) \cup ToSet(more)
    BY <1>1, <2>3, BothParts
  <2>5. ToSet(more) = Run(pub, chain, n, stop)
    <3> DEFINE key(j) == Skipped(pub, j, chain)
    <3>1. DOMAIN more = 1..(stop - n) /\ \A i \in 1..(stop - n) : more[i] = key(n + i - 1)
      BY DEF Between
    <3> HIDE DEF more
    <3>2. ToSet(more) = {key(n + i - 1) : i \in 1..(stop - n)}
      BY <3>1 DEF ToSet
    <3> HIDE DEF key
    <3>3. ASSUME NEW j \in n..(stop - 1) PROVE j - n + 1 \in 1..(stop - n) /\ n + (j - n + 1) - 1 = j
      BY <1>1
    <3>4. ASSUME NEW i \in 1..(stop - n) PROVE n + i - 1 \in n..(stop - 1)
      BY <1>1
    <3>5. {key(n + i - 1) : i \in 1..(stop - n)} = {key(j) : j \in n..(stop - 1)}
      BY <3>3, <3>4
    <3> QED BY <3>2, <3>5 DEF Run, key
  <2> HIDE DEF all, more
  <2>6. t.skippedKeys = all
    BY DEF Fields
  <2> QED BY <2>1, <2>4, <2>5, <2>6 DEF Buffer
<1> QED BY <1>2, <1>3

\* Of too many keys some are kept.
LEMMA CapLeaves ==
  ASSUME NEW S, NEW kept \in Seq(S)
  PROVE  ToSet(CapSkippedKeys(kept)) \subseteq ToSet(kept)
<1> DEFINE few == SubSeq(kept, Len(kept) - MaxSkippedKeys + 1, Len(kept))
<1>1. Len(kept) \in Nat /\ MaxSkippedKeys \in Nat /\ DOMAIN kept = 1..Len(kept)
  BY LenProperties, RatchetAssumption
<1>2. CASE Len(kept) <= MaxSkippedKeys
  BY <1>2 DEF CapSkippedKeys
<1>3. CASE ~(Len(kept) <= MaxSkippedKeys)
  <2>1. \A i \in (Len(kept) - MaxSkippedKeys + 1)..Len(kept) : kept[i] \in S
    BY <1>1, <1>3, ElementOfSeq
  <2>2. /\ few \in Seq(S) /\ Len(few) = MaxSkippedKeys
        /\ \A i \in 1..MaxSkippedKeys : few[i] = kept[Len(kept) - MaxSkippedKeys + i]
    BY <1>1, <1>3, <2>1, SubSeqProperties
  <2> HIDE DEF few
  <2>3. DOMAIN few = 1..MaxSkippedKeys
    BY <2>2, LenProperties
  <2>4. \A i \in 1..MaxSkippedKeys : Len(kept) - MaxSkippedKeys + i \in DOMAIN kept
    BY <1>1, <1>3
  <2>5. ToSet(few) \subseteq ToSet(kept)
    BY <2>2, <2>3, <2>4 DEF ToSet
  <2> QED BY <1>3, <2>5 DEF CapSkippedKeys, few
<1> QED BY <1>2, <1>3

\* A key that was used is the only one that goes.
LEMMA RemoveLeaves ==
  ASSUME NEW S, NEW kept \in Seq(S), NEW i \in 1..Len(kept)
  PROVE  /\ ToSet(RemoveAt(kept, i)) \subseteq ToSet(kept)
         /\ ToSet(kept) \subseteq ToSet(RemoveAt(kept, i)) \cup {kept[i]}
         /\ RemoveAt(kept, i) \in Seq(S) /\ Len(RemoveAt(kept, i)) = Len(kept) - 1
<1> DEFINE a == SubSeq(kept, 1, i - 1)
           b == SubSeq(kept, i + 1, Len(kept))
<1>1. Len(kept) \in Nat /\ DOMAIN kept = 1..Len(kept) /\ i \in Nat
  BY LenProperties
<1>2. \A j \in 1..Len(kept) : kept[j] \in S
  BY ElementOfSeq
<1>3. a \in Seq(S) /\ Len(a) = i - 1 /\ \A j \in 1..(i - 1) : a[j] = kept[j]
  <2>1. \A j \in 1..(i - 1) : kept[j] \in S
    BY <1>1, <1>2
  <2> QED BY <1>1, <2>1, SubSeqProperties
<1>4. b \in Seq(S) /\ Len(b) = Len(kept) - i /\ \A j \in 1..(Len(kept) - i) : b[j] = kept[i + j]
  <2>1. \A j \in (i + 1)..Len(kept) : kept[j] \in S
    BY <1>1, <1>2
  <2>2. kept \in Seq(S) /\ i \in Nat /\ Len(kept) \in Nat
    BY <1>1
  <2> QED BY <2>1, <2>2, SubSeqProperties
<1>5. RemoveAt(kept, i) = a \o b
  BY DEF RemoveAt
<1> HIDE DEF a, b
<1>6. ToSet(a \o b) = ToSet(a) \cup ToSet(b)
  BY <1>3, <1>4, BothParts
<1>7. DOMAIN a = 1..(i - 1) /\ DOMAIN b = 1..(Len(kept) - i)
  BY <1>3, <1>4, LenProperties
<1>8. \A j \in DOMAIN a : j \in DOMAIN kept /\ a[j] = kept[j]
  BY <1>1, <1>3, <1>7
<1>9. \A j \in DOMAIN b : i + j \in DOMAIN kept /\ b[j] = kept[i + j]
  BY <1>1, <1>4, <1>7
<1>10. ToSet(a) \subseteq ToSet(kept) /\ ToSet(b) \subseteq ToSet(kept)
  BY <1>8, <1>9 DEF ToSet
<1>11. ASSUME NEW j \in DOMAIN kept PROVE kept[j] \in ToSet(a) \cup ToSet(b) \cup {kept[i]}
  <2>1. CASE j < i
    <3>1. j \in DOMAIN a
      BY <1>1, <1>7, <2>1
    <3> QED BY <1>8, <3>1 DEF ToSet
  <2>2. CASE j > i
    <3>1. j - i \in DOMAIN b /\ i + (j - i) = j
      BY <1>1, <1>7, <2>2
    <3> QED BY <1>9, <3>1 DEF ToSet
  <2> QED BY <1>1, <2>1, <2>2
<1>12. a \o b \in Seq(S) /\ Len(a \o b) = Len(kept) - 1
  <2>1. a \o b \in Seq(S) /\ Len(a \o b) = Len(a) + Len(b)
    BY <1>3, <1>4, ConcatProperties
  <2> QED BY <1>1, <1>3, <1>4, <2>1
<1>13. ToSet(kept) \subseteq ToSet(a) \cup ToSet(b) \cup {kept[i]}
  BY <1>11 DEF ToSet
<1> QED BY <1>5, <1>6, <1>10, <1>12, <1>13

\* What is kept when the other's chain ends.
LEMMA RetireLeaves ==
  ASSUME NEW q, NEW s, NEW got, Fields \subseteq DOMAIN s, Reading(q, s, got),
         s.theirRatchetPub \in Pairs, NEW pn \in Nat
  PROVE  Buffer(Retire(s, pn)) =
            {k \in Buffer(s) : k.pub = s.theirRatchetPub} \cup
            (IF s.recvChain = NoChain THEN {}
             ELSE Run(s.theirRatchetPub, s.recvChain, s.recvMsgNum,
                      Least(pn, s.recvMsgNum + MaxSkip)))
<1> DEFINE young == {k \in Buffer(s) : k.pub = s.theirRatchetPub}
           few == Picked(s.skippedKeys, young)
           kept == [s EXCEPT !.skippedKeys = few]
           stop == Least(pn, s.recvMsgNum + MaxSkip)
<1>1. Retire(s, pn) = IF s.recvChain = NoChain THEN kept ELSE SkipTo(kept, stop)
  BY Zenon DEF Retire, Fields, Buffer
<1>2. Reads(q, s.rootKey, s.recvChain, s.recvMsgNum, few, got)
  BY PickedReads DEF Reading
<1>3. ToSet(few) = young
  <2>1. s.skippedKeys \in Seq(KeyOf(q))
    BY DEF Reading, Reads
  <2>2. ToSet(few) = ToSet(s.skippedKeys) \cap young
    BY <2>1, PickedElements
  <2> QED BY <2>2 DEF Buffer
<1> HIDE DEF few, young
<1>4. /\ Fields \subseteq DOMAIN kept
      /\ kept.rootKey = s.rootKey /\ kept.recvChain = s.recvChain
      /\ kept.recvMsgNum = s.recvMsgNum /\ kept.skippedKeys = few
      /\ kept.theirRatchetPub = s.theirRatchetPub
  BY DEF Fields
<1> HIDE DEF kept
<1>5. Reading(q, kept, got) /\ Buffer(kept) = young
  BY <1>2, <1>3, <1>4 DEF Reading, Buffer
<1>6. stop \in Nat
  BY <1>2, RatchetAssumption DEF Reads, Least
<1> HIDE DEF stop
<1>7. s.recvChain # NoChain => Mine(q, kept.recvChain)
  BY <1>2, <1>4 DEF Reads
<1>8. s.recvChain # NoChain =>
        Buffer(SkipTo(kept, stop)) = young \cup Run(s.theirRatchetPub, s.recvChain, s.recvMsgNum, stop)
  BY <1>4, <1>5, <1>6, <1>7, SkipAdds
<1> QED BY <1>1, <1>5, <1>8 DEF young, stop

-----------------------------------------------------------------------------
(* What an operation makes of the session.                                 *)

\* Two sessions that read alike.
SameReceiver(s, t) ==
    /\ t.theirRatchetPub = s.theirRatchetPub
    /\ t.recvChain = s.recvChain /\ t.recvMsgNum = s.recvMsgNum
    /\ t.skippedKeys = s.skippedKeys

\* A session that is saved is the one before it but for its version.
LEMMA SavedSession ==
  ASSUME NEW p \in Parties, NEW s, Fields \subseteq DOMAIN s, DOMAIN last = Parties,
         SaveRatchetState(p, s)
  PROVE  /\ last'[p] # Nothing
         /\ last'[p].rootKey = s.rootKey /\ last'[p].sendChain = s.sendChain
         /\ last'[p].sendMsgNum = s.sendMsgNum /\ last'[p].sendPrevLen = s.sendPrevLen
         /\ last'[p].myRatchetPub = s.myRatchetPub
         /\ last'[p].pendingDhRatchet = s.pendingDhRatchet
         /\ SameReceiver(s, last'[p])
         /\ \A x \in Parties \ {p} : last'[x] = last[x]
<1> DEFINE v == s.ver + 1
           t == [s EXCEPT !.ver = v]
<1>1. last' = [last EXCEPT ![p] = t]
  BY DEF SaveRatchetState
<1> HIDE DEF v
<1>2. /\ Fields \subseteq DOMAIN t /\ t.rootKey = s.rootKey /\ t.sendChain = s.sendChain
      /\ t.sendMsgNum = s.sendMsgNum /\ t.sendPrevLen = s.sendPrevLen
      /\ t.myRatchetPub = s.myRatchetPub /\ t.pendingDhRatchet = s.pendingDhRatchet
      /\ SameReceiver(s, t)
  BY DEF Fields, SameReceiver
<1> HIDE DEF t
<1>3. last'[p] = t /\ \A x \in Parties \ {p} : last'[x] = last[x]
  BY <1>1
<1>4. t # Nothing
  BY <1>2 DEF Fields, Nothing
<1> QED BY <1>2, <1>3, <1>4

\* A text begins a session, or makes a new chain in it, or goes on with the
\* chain there is: from session s to t, with the message m that leaves.
Begins(p, s, t, fresh) ==
    /\ s = Nothing /\ t.myRatchetPub = fresh
    /\ t.rootKey = <<{fresh, Identity(Peer(p))}>> /\ t.sendChain = t.rootKey
    /\ t.theirRatchetPub = Identity(Peer(p)) /\ t.recvChain = NoChain /\ t.recvMsgNum = 0
    /\ t.skippedKeys = <<>>

StepsOn(s, t, fresh) ==
    /\ s # Nothing /\ s.pendingDhRatchet /\ t.myRatchetPub = fresh
    /\ t.rootKey = Append(s.rootKey, {fresh, s.theirRatchetPub}) /\ t.sendChain = t.rootKey
    /\ t.sendPrevLen = s.sendMsgNum /\ SameReceiver(s, t)

GoesOn(s, t, m) ==
    /\ s # Nothing /\ ~s.pendingDhRatchet /\ t.myRatchetPub = s.myRatchetPub
    /\ t.rootKey = s.rootKey /\ t.sendChain = s.sendChain
    /\ t.sendPrevLen = s.sendPrevLen /\ SameReceiver(s, t)
    /\ m.n = s.sendMsgNum

Writes(p, s, t, m, k) ==
    /\ m.from = p /\ m.pub = t.myRatchetPub /\ m.chain = t.sendChain /\ m.pn = t.sendPrevLen
    /\ t.sendMsgNum = m.n + 1 /\ t.pendingDhRatchet = FALSE
    /\ Begins(p, s, t, <<p, k>>) \/ StepsOn(s, t, <<p, k>>) \/ GoesOn(s, t, m)

\* What the session of a text is made of.
LEMMA SendStateMakes ==
  ASSUME NEW p \in Parties, NEW s, s = Nothing \/ IsState(p, s), NEW k \in Nat \ {0}
  PROVE  LET t == SendState(p, s, <<p, k>>) IN
         /\ t.pendingDhRatchet = FALSE
         /\ \/ Begins(p, s, t, <<p, k>>)
            \/ StepsOn(s, t, <<p, k>>)
            \/ s # Nothing /\ ~s.pendingDhRatchet /\ t = s
<1> DEFINE fresh == <<p, k>>
<1>1. CASE s = Nothing
  <2> DEFINE d == {fresh, Identity(Peer(p))}
             root == Append(<<>>, d)
             t == [ver |-> 0, rootKey |-> root, myRatchetPub |-> fresh,
                   theirRatchetPub |-> Identity(Peer(p)), pendingDhRatchet |-> FALSE,
                   sendChain |-> root, sendMsgNum |-> 0, sendPrevLen |-> 0,
                   recvChain |-> NoChain, recvMsgNum |-> 0, skippedKeys |-> <<>>]
  <2>1. SendState(p, s, fresh) = t
    BY <1>1 DEF SendState, InitSenderState, KdfRk, Dh, ZeroRoot
  <2> HIDE DEF d
  <2>2. root = <<d>>
    OBVIOUS
  <2> HIDE DEF root
  <2>3. Begins(p, s, t, fresh) /\ t.pendingDhRatchet = FALSE
    BY <1>1, <2>2 DEF Begins, d
  <2> QED BY <2>1, <2>3
<1>2. CASE s # Nothing /\ s.pendingDhRatchet
  <2> DEFINE root == Append(s.rootKey, {fresh, s.theirRatchetPub})
             n == s.sendMsgNum
             t == [s EXCEPT !.sendPrevLen = n, !.sendChain = root, !.sendMsgNum = 0,
                            !.rootKey = root, !.myRatchetPub = fresh, !.pendingDhRatchet = FALSE]
  <2>1. SendState(p, s, fresh) = t
    BY <1>2, Zenon DEF SendState, DhRatchetSend, KdfRk, Dh
  <2>2. Fields \subseteq DOMAIN s
    BY <1>2 DEF IsState
  <2> HIDE DEF root, n
  <2>3. /\ t.rootKey = root /\ t.sendChain = root /\ t.sendPrevLen = n
        /\ t.myRatchetPub = fresh /\ t.pendingDhRatchet = FALSE /\ SameReceiver(s, t)
    BY <2>2 DEF Fields, SameReceiver
  <2> HIDE DEF t
  <2>4. StepsOn(s, t, fresh)
    BY <1>2, <2>3 DEF StepsOn, root, n
  <2> QED BY <2>1, <2>3, <2>4
<1>3. CASE s # Nothing /\ ~s.pendingDhRatchet
  <2>1. s.pendingDhRatchet = FALSE
    BY <1>3 DEF IsState
  <2> QED BY <1>3, <2>1 DEF SendState
<1> QED BY <1>1, <1>2, <1>3

\* What is sent, and the session that is saved with it.
LEMMA Encrypts ==
  ASSUME Good, NEW p \in Parties, NEW i \in DOMAIN ops[p], RatchetEncrypt(p, i)
  PROVE  /\ \E m : /\ sent' = sent \cup {m} /\ m.n \in Nat
                   /\ Writes(p, last[p], last'[p], m, keys[p] + 1)
         /\ keys' = IF last'[p].myRatchetPub = <<p, keys[p] + 1>>
                    THEN [keys EXCEPT ![p] = keys[p] + 1] ELSE keys
         /\ last'[p] # Nothing /\ \A x \in Parties \ {p} : last'[x] = last[x]
         /\ UNCHANGED <<opened, reach, evicted>>
<1>1. Shape /\ Running(p) /\ Session(p)
  BY DEF Good
<1>2. PICK op : ops[p] = <<op>> /\ op.state = last[p]
  BY <1>1 DEF Running
<1>3. i = 1 /\ ops[p][i] = op
  BY <1>2
<1> DEFINE l == last[p]
           k == keys[p] + 1
           fresh == <<p, k>>
           s == SendState(p, l, fresh)
           n == s.sendMsgNum + 1
           w == [s EXCEPT !.sendMsgNum = n]
           m == [from |-> p, text |-> op.m.text, pub |-> s.myRatchetPub,
                 n |-> s.sendMsgNum, pn |-> s.sendPrevLen, chain |-> s.sendChain]
<1>4. /\ sent' = sent \cup {m} /\ SaveRatchetState(p, w)
      /\ keys' = IF s.myRatchetPub = fresh THEN [keys EXCEPT ![p] = k] ELSE keys
      /\ UNCHANGED <<opened, reach, evicted>>
  BY <1>2, <1>3 DEF RatchetEncrypt, Made
<1>5. k \in Nat \ {0}
  BY <1>1 DEF Shape
<1>6. l = Nothing \/ IsState(p, l)
  BY <1>1 DEF Session, IsSaved
<1> HIDE DEF l, k
<1>7. IsState(p, s)
  BY <1>5, <1>6, SendStateFits
<1>8. /\ s.pendingDhRatchet = FALSE
      /\ \/ Begins(p, l, s, fresh) \/ StepsOn(l, s, fresh)
         \/ l # Nothing /\ ~l.pendingDhRatchet /\ s = l
  BY <1>5, <1>6, SendStateMakes
<1> HIDE DEF s
<1>9. s.sendMsgNum \in Nat /\ n \in Nat /\ Fields \subseteq DOMAIN s
  BY <1>7 DEF IsState
<1> HIDE DEF n
<1>10. /\ Fields \subseteq DOMAIN w /\ w.sendMsgNum = n /\ w.rootKey = s.rootKey
       /\ w.sendChain = s.sendChain /\ w.myRatchetPub = s.myRatchetPub
       /\ w.sendPrevLen = s.sendPrevLen /\ w.pendingDhRatchet = s.pendingDhRatchet
       /\ SameReceiver(s, w)
  BY <1>9 DEF Fields, SameReceiver
<1>11. /\ m.from = p /\ m.pub = s.myRatchetPub /\ m.n = s.sendMsgNum /\ m.chain = s.sendChain
       /\ m.pn = s.sendPrevLen
  OBVIOUS
<1> HIDE DEF w, m
<1> DEFINE t == last'[p]
<1>12. /\ t # Nothing /\ t.sendMsgNum = n /\ t.rootKey = s.rootKey
       /\ t.sendChain = s.sendChain /\ t.myRatchetPub = s.myRatchetPub
       /\ t.sendPrevLen = s.sendPrevLen /\ t.pendingDhRatchet = s.pendingDhRatchet
       /\ SameReceiver(s, t)
       /\ \A x \in Parties \ {p} : last'[x] = last[x]
  BY <1>1, <1>4, <1>10, SavedSession DEF Shape, SameReceiver
<1> HIDE DEF t
<1>13. Begins(p, l, s, fresh) => Begins(p, l, t, fresh)
  BY <1>12 DEF Begins, SameReceiver
<1>14. StepsOn(l, s, fresh) => StepsOn(l, t, fresh)
  BY <1>12 DEF StepsOn, SameReceiver
<1>15. l # Nothing /\ ~l.pendingDhRatchet /\ s = l => GoesOn(l, t, m)
  BY <1>11, <1>12 DEF GoesOn
<1>16. m.n \in Nat /\ Writes(p, l, t, m, k)
  BY <1>8, <1>9, <1>11, <1>12, <1>13, <1>14, <1>15 DEF Writes, n
<1> QED BY <1>4, <1>12, <1>16 DEF l, k, t

-----------------------------------------------------------------------------
(* What opening a message makes of the session.                            *)

\* Two sessions that send alike.
SameSending(s, t) ==
    /\ t.sendChain = s.sendChain /\ t.sendMsgNum = s.sendMsgNum /\ t.sendPrevLen = s.sendPrevLen
    /\ t.myRatchetPub = s.myRatchetPub

\* What a kept key is found by.
Key(m) == <<m.pub, m.n>>

\* Of the keys U session t keeps some, and the others are among those given up.
Keeps(U, t, out) ==
    Buffer(t) \subseteq U /\ \A k \in U : k \in Buffer(t) \/ Key(k) \in out

\* A message opens with a key that was kept, or on the chain that is being
\* read, or on a new one, or as the first: from session s to t.
Late(s, t, m) ==
    /\ s # Nothing /\ SameSending(s, t)
    /\ t.rootKey = s.rootKey /\ t.pendingDhRatchet = s.pendingDhRatchet
    /\ t.theirRatchetPub = s.theirRatchetPub /\ t.recvChain = s.recvChain
    /\ t.recvMsgNum = s.recvMsgNum
    /\ \E k \in Buffer(s) : k.chain = m.chain
    /\ Buffer(t) \subseteq Buffer(s)
    /\ \A k \in Buffer(s) : Key(k) = Key(m) \/ k \in Buffer(t)

OnChain(s, t, m, out) ==
    /\ s # Nothing /\ SameSending(s, t)
    /\ t.rootKey = s.rootKey /\ t.pendingDhRatchet = s.pendingDhRatchet
    /\ s.theirRatchetPub = m.pub /\ s.recvChain = m.chain
    /\ t.theirRatchetPub = m.pub /\ t.recvChain = m.chain
    /\ t.recvMsgNum = m.n + 1
    /\ Keeps(Buffer(s) \cup Run(m.pub, m.chain, s.recvMsgNum, m.n), t, out)

\* What is kept of the chain before.
Ended(s, pn) ==
    {k \in Buffer(s) : k.pub = s.theirRatchetPub} \cup
    (IF s.recvChain = NoChain THEN {}
     ELSE Run(s.theirRatchetPub, s.recvChain, s.recvMsgNum, Least(pn, s.recvMsgNum + MaxSkip)))

OnNewChain(s, t, m, out) ==
    /\ s # Nothing /\ SameSending(s, t)
    /\ m.pub # s.theirRatchetPub /\ m.chain = Append(s.rootKey, {m.pub, s.myRatchetPub})
    /\ t.rootKey = m.chain /\ t.pendingDhRatchet = TRUE
    /\ t.theirRatchetPub = m.pub /\ t.recvChain = m.chain
    /\ t.recvMsgNum = m.n + 1
    /\ Keeps(Ended(s, m.pn) \cup Run(m.pub, m.chain, 0, m.n), t, out)

Answers(p, s, t, m, fresh, out) ==
    /\ s = Nothing /\ m.chain = <<{m.pub, Identity(p)}>>
    /\ t.rootKey = Append(m.chain, {m.pub, fresh}) /\ t.pendingDhRatchet = FALSE
    /\ t.myRatchetPub = fresh /\ t.sendChain = t.rootKey /\ t.sendMsgNum = 0
    /\ t.theirRatchetPub = m.pub /\ t.recvChain = m.chain
    /\ t.recvMsgNum = m.n + 1
    /\ Keeps(Run(m.pub, m.chain, 0, m.n), t, out)

\* A session that opens a message does so in one of these ways.
LEMMA DecryptedMakes ==
  ASSUME NEW p \in Parties, NEW s, NEW got, NEW i \in Nat \ {0},
         IF s = Nothing THEN got = {} ELSE IsState(p, s) /\ Reading(Peer(p), s, got),
         NEW m, Mine(Peer(p), m.chain), m.pub \in {Peer(p)} \X (Nat \ {0}),
         m.n \in Nat, m.pn \in Nat,
         Decrypted(p, s, m, <<p, i>>).opens,
         NEW out, \A k \in Decrypted(p, s, m, <<p, i>>).dropped : Key(k) \in out
  PROVE  LET t == Decrypted(p, s, m, <<p, i>>).state IN
         \/ Late(s, t, m)
         \/ OnChain(s, t, m, out)
         \/ OnNewChain(s, t, m, out)
         \/ Answers(p, s, t, m, <<p, i>>, out)
<1> DEFINE q == Peer(p)
           fresh == <<p, i>>
           dec == Decrypted(p, s, m, fresh)
           r == ReadState(p, s, m, fresh)
           u == SkipTo(r, m.n)
           cut == CapSkippedKeys(u.skippedKeys)
           num == u.recvMsgNum + 1
           t == [u EXCEPT !.recvMsgNum = num, !.skippedKeys = cut]
<1>1. q \in Parties /\ q # p /\ Peer(q) = p /\ m.pub \in Pairs /\ fresh \in Pairs
  BY TwoPeople DEF Pairs
<1>2. CASE s # Nothing /\ Kept(s, m) # {}
  <2> DEFINE j == CHOOSE j \in Kept(s, m) : TRUE
             rest == RemoveAt(s.skippedKeys, j)
             v == [s EXCEPT !.skippedKeys = rest]
  <2>1. dec.state = v /\ s.skippedKeys[j].chain = m.chain
    BY <1>2 DEF Decrypted, UseKept
  <2>2. IsState(p, s) /\ Fields \subseteq DOMAIN s /\ Reading(q, s, got)
    BY <1>2 DEF IsState
  <2>3. /\ j \in DOMAIN s.skippedKeys /\ s.skippedKeys[j].n = m.n
        /\ s.skippedKeys[j].pub = m.pub
    BY <1>2 DEF Kept
  <2>4. s.skippedKeys \in Seq(KeyOf(q)) /\ DOMAIN s.skippedKeys = 1..Len(s.skippedKeys)
    <3>1. s.skippedKeys \in Seq(KeyOf(q))
      BY <2>2 DEF Reading, Reads
    <3> QED BY <3>1, LenProperties
  <2> HIDE DEF j, dec
  <2>5. /\ ToSet(rest) \subseteq ToSet(s.skippedKeys)
        /\ ToSet(s.skippedKeys) \subseteq ToSet(rest) \cup {s.skippedKeys[j]}
    BY <2>3, <2>4, RemoveLeaves
  <2> HIDE DEF rest
  <2>6. /\ v.rootKey = s.rootKey /\ v.recvChain = s.recvChain /\ v.recvMsgNum = s.recvMsgNum
        /\ v.skippedKeys = rest /\ SameSending(s, v) /\ v.pendingDhRatchet = s.pendingDhRatchet
        /\ v.theirRatchetPub = s.theirRatchetPub
    BY <2>2 DEF Fields, SameSending
  <2> HIDE DEF v
  <2>7. Buffer(v) \subseteq Buffer(s) /\ \A k \in Buffer(s) : Key(k) = Key(m) \/ k \in Buffer(v)
    BY <2>3, <2>5, <2>6 DEF Buffer, Key
  <2>8. \E x \in Buffer(s) : x.chain = m.chain
    BY <2>1, <2>3 DEF Buffer, ToSet
  <2>9. Late(s, v, m)
    BY <1>2, <2>6, <2>7, <2>8 DEF Late
  <2> QED BY <2>1, <2>9 DEF dec
<1>3. CASE ~(s # Nothing /\ Kept(s, m) # {})
  <2>1. /\ dec.state = t /\ r.recvChain = m.chain /\ m.n >= r.recvMsgNum
        /\ dec.dropped = ToSet(u.skippedKeys) \ ToSet(cut)
    BY <1>3, Zenon DEF Decrypted
  <2>2. \/ /\ s = Nothing /\ Fields \subseteq DOMAIN r /\ Reading(q, r, got)
           /\ m.chain = <<{m.pub, Identity(p)}>> /\ r.recvMsgNum = 0
           /\ r.rootKey = Append(m.chain, {m.pub, fresh}) /\ r.pendingDhRatchet = FALSE
           /\ r.myRatchetPub = fresh /\ r.sendChain = r.rootKey /\ r.sendMsgNum = 0
           /\ r.theirRatchetPub = m.pub /\ Buffer(r) = {}
        \/ /\ s # Nothing /\ m.pub = s.theirRatchetPub /\ r = s
           /\ Fields \subseteq DOMAIN r /\ Reading(q, r, got)
        \/ /\ s # Nothing /\ m.pub # s.theirRatchetPub
           /\ Fields \subseteq DOMAIN r /\ Reading(q, r, got) /\ SameSending(s, r)
           /\ m.chain = Append(s.rootKey, {m.pub, s.myRatchetPub}) /\ r.rootKey = m.chain
           /\ r.pendingDhRatchet = TRUE /\ r.theirRatchetPub = m.pub /\ r.recvMsgNum = 0
           /\ Buffer(r) = Ended(s, m.pn)
    <3>1. CASE s = Nothing
      <4> DEFINE d == {m.pub, Identity(p)}
                 e == {m.pub, fresh}
                 root == Append(<<>>, d)
                 next == Append(root, e)
                 w == [ver |-> 0, rootKey |-> next, myRatchetPub |-> fresh,
                       theirRatchetPub |-> m.pub, pendingDhRatchet |-> FALSE,
                       sendChain |-> next, sendMsgNum |-> 0, sendPrevLen |-> 0,
                       recvChain |-> root, recvMsgNum |-> 0, skippedKeys |-> <<>>]
      <4>1. r = w
        BY <3>1 DEF ReadState, InitReceiverState, KdfRk, Dh, ZeroRoot
      <4>2. d \in SUBSET Pairs /\ e \in SUBSET Pairs
        BY <1>1 DEF Pairs, Identity
      <4>3. root \in Seq(SUBSET Pairs) /\ root = <<d>>
        BY <4>2
      <4> HIDE DEF root, d, e
      <4>4. next \in Seq(SUBSET Pairs) /\ Len(root) <= Len(next)
        BY <4>2, <4>3, LongerRoot
      <4> HIDE DEF next
      <4>5. /\ w.rootKey = next /\ w.recvMsgNum = 0 /\ w.skippedKeys = <<>>
            /\ w.recvChain = root /\ w.theirRatchetPub = m.pub /\ Fields \subseteq DOMAIN w
            /\ w.pendingDhRatchet = FALSE /\ w.myRatchetPub = fresh /\ w.sendChain = next
            /\ w.sendMsgNum = 0
        BY DEF Fields
      <4> HIDE DEF w
      <4>6. Mine(q, root) /\ m.chain = root
        BY <2>1, <4>1, <4>5
      <4>7. Reading(q, w, {})
        BY <4>4, <4>5, <4>6, NewReads
      <4>8. Buffer(w) = {}
        <5>1. DOMAIN <<>> = {}
          OBVIOUS
        <5> QED BY <4>5, <5>1 DEF Buffer, ToSet
      <4> HIDE DEF r
      <4> QED BY <3>1, <4>1, <4>3, <4>5, <4>6, <4>7, <4>8 DEF next, d, e
    <3>2. CASE s # Nothing
      <4>1. Fields \subseteq DOMAIN s /\ Reading(q, s, got)
        BY <3>2 DEF IsState
      <4>2. s.theirRatchetPub \in Pairs /\ s.myRatchetPub \in Pairs
        BY <1>1, <3>2 DEF IsState, MadeWith, Pairs
      <4>3. CASE m.pub = s.theirRatchetPub
        BY <3>2, <4>1, <4>2, <4>3 DEF ReadState
      <4>4. CASE m.pub # s.theirRatchetPub
        <5> DEFINE y == DhRatchetReceive(s, m.pub, m.pn)
        <5>1. r = y
          BY <3>2, <4>4 DEF ReadState
        <5>2. Received(s, y, m.pub)
          BY <4>1, DhReceives
        <5>3. Mine(q, y.recvChain)
          BY <2>1, <5>1
        <5>4. Reading(q, y, got)
          BY <1>1, <4>1, <4>2, <5>3, ReceiveReads
        <5>5. y.recvMsgNum = 0 /\ Buffer(y) = Ended(s, m.pn)
          <6> DEFINE z == Retire(s, m.pn)
                     root == KdfRk(s.rootKey, Dh(m.pub, s.myRatchetPub))
                     x == [z EXCEPT !.rootKey = root, !.recvChain = root, !.recvMsgNum = 0,
                                    !.theirRatchetPub = m.pub, !.pendingDhRatchet = TRUE]
          <6>1. y = x
            BY Zenon DEF DhRatchetReceive
          <6>2. Fields \subseteq DOMAIN z
            BY <4>1, RetireKeeps
          <6>3. Buffer(z) = Ended(s, m.pn)
            BY <4>1, <4>2, RetireLeaves DEF Ended
          <6> HIDE DEF z, root, y
          <6>4. x.recvMsgNum = 0 /\ x.skippedKeys = z.skippedKeys
            BY <6>2 DEF Fields
          <6> QED BY <6>1, <6>3, <6>4 DEF Buffer
        <5> HIDE DEF r, y
        <5>6. SameSending(s, r) /\ r.pendingDhRatchet = TRUE /\ r.theirRatchetPub = m.pub
              /\ r.rootKey = Append(s.rootKey, {m.pub, s.myRatchetPub}) /\ r.rootKey = m.chain
              /\ Fields \subseteq DOMAIN r
          BY <2>1, <5>1, <5>2 DEF Received, SameSending
        <5> QED BY <3>2, <4>4, <5>1, <5>4, <5>5, <5>6
      <4> QED BY <4>3, <4>4
    <3> QED BY <3>1, <3>2
  <2> HIDE DEF r
  <2>3. /\ Fields \subseteq DOMAIN r /\ Reading(q, r, got) /\ r.theirRatchetPub = m.pub
    BY <2>2
  <2>4. Mine(q, r.recvChain) /\ r.recvMsgNum \in Nat /\ r.recvMsgNum <= m.n
    BY <2>1, <2>3 DEF Reading, Reads
  <2>5. /\ Fields \subseteq DOMAIN u /\ SameSender(r, u)
        /\ u.recvChain = r.recvChain /\ u.recvMsgNum = m.n /\ Reading(q, u, got)
        /\ Buffer(u) = Buffer(r) \cup Run(m.pub, m.chain, r.recvMsgNum, m.n)
    BY <1>1, <2>1, <2>3, <2>4, SkipToKeeps, SkipReads, SkipAdds
  <2> HIDE DEF u
  <2>6. u.skippedKeys \in Seq(KeyOf(q)) /\ ToSet(cut) \subseteq Buffer(u)
    <3>1. u.skippedKeys \in Seq(KeyOf(q))
      BY <2>5 DEF Reading, Reads
    <3> QED BY <3>1, CapLeaves DEF Buffer
  <2>7. \A k \in Buffer(u) : k \in ToSet(cut) \/ Key(k) \in out
    BY <2>1 DEF Buffer
  <2>8. num = m.n + 1
    BY <2>5
  <2> HIDE DEF cut, num
  <2>9. /\ t.rootKey = u.rootKey /\ t.recvChain = u.recvChain /\ t.recvMsgNum = num
        /\ t.skippedKeys = cut /\ t.theirRatchetPub = u.theirRatchetPub
        /\ t.pendingDhRatchet = u.pendingDhRatchet /\ SameSending(u, t)
    BY <2>5 DEF Fields, SameSending
  <2> HIDE DEF t, dec
  <2>10. /\ t.rootKey = r.rootKey /\ t.recvChain = m.chain /\ t.recvMsgNum = m.n + 1
         /\ t.theirRatchetPub = m.pub
         /\ t.pendingDhRatchet = r.pendingDhRatchet /\ SameSending(r, t)
         /\ Keeps(Buffer(r) \cup Run(m.pub, m.chain, r.recvMsgNum, m.n), t, out)
    <3>1. Buffer(t) = ToSet(cut)
      BY <2>9 DEF Buffer
    <3>2. Keeps(Buffer(r) \cup Run(m.pub, m.chain, r.recvMsgNum, m.n), t, out)
      BY <2>5, <2>6, <2>7, <3>1 DEF Keeps
    <3> QED BY <2>1, <2>3, <2>5, <2>8, <2>9, <3>2 DEF SameSender, SameSending
  <2>11. dec.state = t
    BY <2>1
  <2>12. CASE s = Nothing
    <3>1. Keeps(Run(m.pub, m.chain, 0, m.n), t, out)
      <4>1. Buffer(r) \cup Run(m.pub, m.chain, r.recvMsgNum, m.n) = Run(m.pub, m.chain, 0, m.n)
        BY <2>2, <2>12
      <4> QED BY <2>10, <4>1
    <3> QED BY <2>2, <2>10, <2>11, <2>12, <3>1 DEF Answers, SameSending, dec
  <2>13. CASE s # Nothing /\ m.pub = s.theirRatchetPub
    <3>1. r = s
      BY <2>2, <2>13
    <3>2. OnChain(s, t, m, out)
      BY <2>1, <2>10, <2>13, <3>1 DEF OnChain
    <3> QED BY <2>11, <3>2 DEF dec
  <2>14. CASE s # Nothing /\ m.pub # s.theirRatchetPub
    <3>1. Keeps(Ended(s, m.pn) \cup Run(m.pub, m.chain, 0, m.n), t, out)
      <4>1. Buffer(r) = Ended(s, m.pn) /\ r.recvMsgNum = 0
        BY <2>2, <2>14
      <4> QED BY <2>10, <4>1
    <3>2. OnNewChain(s, t, m, out)
      BY <2>2, <2>10, <2>14, <3>1 DEF OnNewChain, SameSending
    <3> QED BY <2>11, <3>2 DEF dec
  <2> QED BY <2>12, <2>13, <2>14
<1> QED BY <1>2, <1>3

\* A message that is decrypted is refused and changes nothing, or opens.
Opens(p, m, out) ==
    /\ m \in sent /\ m.from = Peer(p)
    /\ last'[p] # Nothing /\ \A x \in Parties \ {p} : last'[x] = last[x]
    /\ UNCHANGED sent
    /\ opened' = [opened EXCEPT ![p] = @ \cup {m}]
    /\ evicted' = [evicted EXCEPT ![p] = out] /\ evicted[p] \subseteq out
    /\ keys' = IF last'[p].myRatchetPub = <<p, keys[p] + 1>>
               THEN [keys EXCEPT ![p] = keys[p] + 1] ELSE keys
    /\ \/ /\ Late(last[p], last'[p], m) \/ OnChain(last[p], last'[p], m, out)
             \/ Answers(p, last[p], last'[p], m, <<p, keys[p] + 1>>, out)
          /\ UNCHANGED reach
       \/ /\ OnNewChain(last[p], last'[p], m, out)
          /\ reach' = [reach EXCEPT ![p] = last[p].recvMsgNum]

\* What ratchetDecrypt saves and notes.
LEMMA Decrypts ==
  ASSUME Good, ReadOnce, NEW p \in Parties, NEW i \in DOMAIN ops[p], NEW damaged \in BOOLEAN,
         RatchetDecrypt(p, i, damaged)
  PROVE  \/ UNCHANGED <<sent, last, keys, opened, reach, evicted>>
         \/ \E m, out : Opens(p, m, out)
<1>1. Shape /\ Running(p) /\ Session(p)
  BY DEF Good
<1>2. PICK op : /\ ops[p] = <<op>> /\ op.state = last[p]
                /\ op.kind = "decrypt" => op.m \in sent /\ op.m.from = Peer(p)
  BY <1>1 DEF Running
<1>3. i = 1 /\ ops[p][i] = op
  BY <1>2
<1> DEFINE l == last[p]
           k == keys[p] + 1
           fresh == <<p, k>>
           m == op.m
           d == Decrypted(p, l, m, fresh)
           s == d.state
           t == last'[p]
           out == evicted[p] \cup {<<x.pub, x.n>> : x \in d.dropped}
           moves == l # Nothing /\ s.theirRatchetPub # l.theirRatchetPub
<1>4. op.kind = "decrypt"
  BY <1>3 DEF RatchetDecrypt
<1>5. CASE damaged \/ ~d.opens
  <2>1. Refused(p, i)
    BY <1>2, <1>3, <1>5 DEF RatchetDecrypt
  <2> QED BY <2>1 DEF Refused, history
<1>6. CASE ~damaged /\ d.opens
  <2>1. /\ SaveRatchetState(p, s)
        /\ opened' = [opened EXCEPT ![p] = @ \cup {m}]
        /\ keys' = IF s.myRatchetPub = fresh THEN [keys EXCEPT ![p] = k] ELSE keys
        /\ reach' = IF moves THEN [reach EXCEPT ![p] = l.recvMsgNum] ELSE reach
        /\ evicted' = [evicted EXCEPT ![p] = out]
        /\ UNCHANGED sent
    BY <1>2, <1>3, <1>6 DEF RatchetDecrypt, Made
  <2>2. k \in Nat \ {0}
    BY <1>1 DEF Shape
  <2>3. /\ l = Nothing \/ IsState(p, l)
        /\ IF l = Nothing THEN opened[p] = {}
           ELSE IsState(p, l) /\ Reading(Peer(p), l, opened[p])
    BY <1>1 DEF Session, IsSaved, ReadOnce, Reader
  <2>4. /\ m \in sent /\ m.from = Peer(p)
        /\ Mine(Peer(p), m.chain) /\ m.pub \in {Peer(p)} \X (Nat \ {0})
        /\ m.n \in Nat /\ m.pn \in Nat
    BY <1>2, <1>4 DEF Good, Passed, MadeWith
  <2>5. d.opens
    BY <1>6
  <2>6. \A x \in d.dropped : Key(x) \in out
    BY DEF Key
  <2>7. evicted[p] \subseteq out
    OBVIOUS
  <2> HIDE DEF l, k, m, out
  <2>8. Late(l, s, m) \/ OnChain(l, s, m, out) \/ OnNewChain(l, s, m, out)
        \/ Answers(p, l, s, m, fresh, out)
    BY <2>2, <2>3, <2>4, <2>5, <2>6, DecryptedMakes
  <2>9. IsState(p, s)
    BY <2>2, <2>3, <2>4, <2>5, OpenedFits
  <2> HIDE DEF d, s
  <2>10. /\ t # Nothing
         /\ t.rootKey = s.rootKey /\ t.pendingDhRatchet = s.pendingDhRatchet
         /\ SameSending(s, t) /\ SameReceiver(s, t)
         /\ \A x \in Parties \ {p} : last'[x] = last[x]
    BY <1>1, <2>1, <2>9, SavedSession DEF Shape, SameSending, IsState
  <2>11. Buffer(t) = Buffer(s)
    BY <2>10 DEF Buffer, SameReceiver
  <2> HIDE DEF t
  <2>12. \A U : Keeps(U, s, out) => Keeps(U, t, out)
    BY <2>11 DEF Keeps
  <2>13. Late(l, s, m) => Late(l, t, m) /\ ~moves
    BY <2>10, <2>11 DEF Late, SameReceiver, SameSending
  <2>14. OnChain(l, s, m, out) => OnChain(l, t, m, out) /\ ~moves
    BY <2>10, <2>12 DEF OnChain, SameReceiver, SameSending
  <2>15. OnNewChain(l, s, m, out) => OnNewChain(l, t, m, out) /\ moves
    BY <2>10, <2>12 DEF OnNewChain, SameReceiver, SameSending
  <2>16. Answers(p, l, s, m, fresh, out) => Answers(p, l, t, m, fresh, out) /\ ~moves
    BY <2>10, <2>12 DEF Answers, SameReceiver, SameSending
  <2> HIDE DEF moves
  <2>17. \/ /\ Late(l, t, m) \/ OnChain(l, t, m, out) \/ Answers(p, l, t, m, fresh, out)
            /\ UNCHANGED reach
         \/ /\ OnNewChain(l, t, m, out)
            /\ reach' = [reach EXCEPT ![p] = l.recvMsgNum]
    BY <2>1, <2>8, <2>13, <2>14, <2>15, <2>16
  <2>18. t.myRatchetPub = s.myRatchetPub
    BY <2>10 DEF SameSending
  <2>19. Opens(p, m, out)
    BY <2>1, <2>4, <2>7, <2>10, <2>17, <2>18 DEF Opens, l, k, t
  <2> QED BY <2>19
<1> QED BY <1>5, <1>6

-----------------------------------------------------------------------------
(* The conversation: each goes on from the other's newest chain.           *)

-----------------------------------------------------------------------------
(* What has been sent, and which of it can still be read.                  *)

\* What person p, with session a, has sent: on the chain of now under its key,
\* before that on shorter ones; of the one before it no more than it says.
SendsWell(p, a, msgs) ==
    a # Nothing => \A m \in msgs : m.from = p =>
        IF m.pub = a.myRatchetPub THEN m.chain = a.sendChain /\ m.pn = a.sendPrevLen
        ELSE /\ Len(m.chain) < Len(a.sendChain)
             /\ m.pub[2] + 1 = a.myRatchetPub[2] => m.n < a.sendPrevLen

\* A chain's messages say how many the chain before it had.
InOrder(p, msgs) ==
    \A m, x \in msgs : m.from = p /\ x.from = p /\ x.pub[2] = m.pub[2] + 1 => m.n < x.pn

\* A message that, with session b, has been passed over or been left behind
\* within reach.
Due(b, m, before) ==
    \/ m.pub = b.theirRatchetPub /\ m.n < b.recvMsgNum
    \/ m.pub[2] + 1 = b.theirRatchetPub[2] /\ m.n < before + MaxSkip

\* What session b makes of the messages of p: it reads on the chain its key of
\* p's names, the keys it keeps are those of the messages, and it keeps the key
\* of each that is due, unless there was no room.
ReadsWell(p, b, msgs, read, out, before) ==
    b # Nothing =>
    /\ \A m \in msgs : m.from = p /\ m.pub = b.theirRatchetPub => m.chain = b.recvChain
    /\ \A k \in Buffer(b) :
          /\ k.pub[2] <= b.theirRatchetPub[2]
          /\ k.pub = b.theirRatchetPub => k.chain = b.recvChain
          /\ \A m \in msgs : m.from = p /\ m.pub = k.pub => m.chain = k.chain
    /\ \A m \in msgs \ read : m.from = p /\ Due(b, m, before) =>
          Key(m) \in out \/ \E k \in Buffer(b) : Key(k) = Key(m)

\* Each way of opening a message leaves a session that reads well.
LEMMA LateWell ==
  ASSUME NEW q, NEW a, NEW t, NEW m \in sent, m.from = q, Once, Late(a, t, m),
         NEW read, NEW gone, NEW out, NEW n0, gone \subseteq out,
         ReadsWell(q, a, sent, read, gone, n0)
  PROVE  ReadsWell(q, t, sent, read \cup {m}, out, n0)
<1>1. a # Nothing
  BY DEF Late
<1>2. \A x \in sent : x.from = q /\ x.pub = t.theirRatchetPub => x.chain = t.recvChain
  BY <1>1 DEF Late, ReadsWell
<1>3. \A k \in Buffer(t) :
          /\ k.pub[2] <= t.theirRatchetPub[2]
          /\ k.pub = t.theirRatchetPub => k.chain = t.recvChain
          /\ \A x \in sent : x.from = q /\ x.pub = k.pub => x.chain = k.chain
  BY <1>1 DEF Late, ReadsWell
<1>4. ASSUME NEW x \in sent, x \notin read, x # m, x.from = q, Due(t, x, n0)
      PROVE  Key(x) \in out \/ \E k \in Buffer(t) : Key(k) = Key(x)
  <2>1. Due(a, x, n0)
    BY <1>4 DEF Due, Late
  <2>2. Key(x) \in gone \/ \E k \in Buffer(a) : Key(k) = Key(x)
    BY <1>1, <1>4, <2>1 DEF ReadsWell
  <2>3. Key(x) # Key(m)
    BY <1>4 DEF Once, Key
  <2> QED BY <2>2, <2>3 DEF Late
<1> QED BY <1>2, <1>3, <1>4 DEF ReadsWell

\* The keys of a run, and the key of a message in it.
LEMMA InRun ==
  ASSUME NEW pub, NEW chain, NEW n, NEW stop, NEW k \in Run(pub, chain, n, stop)
  PROVE  k.pub = pub /\ k.chain = chain
BY DEF Run, Skipped

LEMMA RunHas ==
  ASSUME NEW pub, NEW chain, NEW n \in Int, NEW stop \in Int, NEW x, x.pub = pub,
         x.n \in Int, n <= x.n, x.n < stop
  PROVE  \E k \in Run(pub, chain, n, stop) : Key(k) = Key(x) /\ k.pub = pub
<1> DEFINE j == x.n
<1>1. j \in n..(stop - 1)
  OBVIOUS
<1> DEFINE k == Skipped(pub, j, chain)
<1>2. k \in Run(pub, chain, n, stop)
  BY <1>1 DEF Run
<1>3. k.pub = pub /\ k.n = j
  BY DEF Skipped
<1> HIDE DEF k
<1> QED BY <1>2, <1>3 DEF Key

LEMMA OnChainWell ==
  ASSUME NEW q, NEW a, NEW t, NEW m \in sent, m.from = q, Once,
         \A x \in sent : x.n \in Nat, a.recvMsgNum \in Nat,
         m.pub[2] \in Nat,
         NEW read, NEW gone, NEW out, NEW n0, gone \subseteq out, OnChain(a, t, m, out),
         ReadsWell(q, a, sent, read, gone, n0)
  PROVE  ReadsWell(q, t, sent, read \cup {m}, out, n0)
<1> DEFINE U == Buffer(a) \cup Run(m.pub, m.chain, a.recvMsgNum, m.n)
<1>1. /\ a # Nothing /\ a.theirRatchetPub = m.pub /\ a.recvChain = m.chain
      /\ t.theirRatchetPub = m.pub /\ t.recvChain = m.chain /\ t.recvMsgNum = m.n + 1
      /\ Keeps(U, t, out)
  BY DEF OnChain
<1>2. \A x \in sent : x.from = q /\ x.pub = m.pub => x.chain = m.chain
  BY <1>1 DEF ReadsWell
<1>3. ASSUME NEW k \in U
      PROVE  /\ k.pub[2] <= m.pub[2]
             /\ k.pub = m.pub => k.chain = m.chain
             /\ \A x \in sent : x.from = q /\ x.pub = k.pub => x.chain = k.chain
  <2>1. CASE k \in Buffer(a)
    BY <1>1, <2>1 DEF ReadsWell
  <2>2. CASE k \in Run(m.pub, m.chain, a.recvMsgNum, m.n)
    <3>1. k.pub = m.pub /\ k.chain = m.chain
      BY <2>2, InRun
    <3> QED BY <1>2, <3>1
  <2> QED BY <2>1, <2>2
<1>4. ASSUME NEW x \in sent, x \notin read, x # m, x.from = q, Due(t, x, n0)
      PROVE  Key(x) \in gone \/ \E k \in U : Key(k) = Key(x)
  <2>1. CASE Due(a, x, n0)
    BY <1>1, <1>4, <2>1 DEF ReadsWell
  <2>2. CASE ~Due(a, x, n0)
    <3>1. x.pub = m.pub /\ x.n < m.n + 1 /\ ~(x.n < a.recvMsgNum)
      BY <1>1, <1>4, <2>2 DEF Due
    <3>2. x.n # m.n
      BY <1>4, <3>1 DEF Once
    <3>3. x.n \in Int /\ m.n \in Int /\ a.recvMsgNum <= x.n /\ x.n < m.n /\ a.recvMsgNum \in Int
      BY <3>1, <3>2
    <3> DEFINE pub == m.pub
               chain == m.chain
               n == a.recvMsgNum
               stop == m.n
    <3> HIDE DEF pub, chain, n, stop
    <3>4. x.pub = pub /\ n \in Int /\ stop \in Int /\ x.n \in Int /\ n <= x.n /\ x.n < stop
      BY <3>1, <3>3 DEF pub, n, stop
    <3>5. \E k \in Run(pub, chain, n, stop) : Key(k) = Key(x) /\ k.pub = pub
      BY <3>4, RunHas
    <3> QED BY <3>5 DEF pub, chain, n, stop
  <2> QED BY <2>1, <2>2
<1> HIDE DEF U
<1>5. \A x \in sent : x \notin read /\ x # m /\ x.from = q /\ Due(t, x, n0) =>
         Key(x) \in out \/ \E k \in Buffer(t) : Key(k) = Key(x)
  BY <1>1, <1>4 DEF Keeps
<1>6. Buffer(t) \subseteq U
  BY <1>1 DEF Keeps
<1> QED BY <1>1, <1>2, <1>3, <1>5, <1>6 DEF ReadsWell

LEMMA OnNewChainWell ==
  ASSUME NEW q, NEW a, NEW t, NEW m \in sent, m.from = q, Once,
         \A x \in sent : /\ x.n \in Nat /\ x.chain # NoChain
                         /\ x.from = q => x.pub \in {q} \X Nat,
         m.pn \in Nat, a.recvMsgNum \in Nat, a.theirRatchetPub \in {q} \X Nat,
         m.pub[2] = a.theirRatchetPub[2] + 1,
         \A x \in sent : x.from = q /\ x.pub = m.pub => x.chain = m.chain,
         InOrder(q, sent),
         NEW read, NEW gone, NEW out, NEW n0, gone \subseteq out, OnNewChain(a, t, m, out),
         ReadsWell(q, a, sent, read, gone, n0)
  PROVE  ReadsWell(q, t, sent, read \cup {m}, out, a.recvMsgNum)
<1> DEFINE U == Ended(a, m.pn) \cup Run(m.pub, m.chain, 0, m.n)
           old == a.theirRatchetPub
           chain == a.recvChain
           n == a.recvMsgNum
           stop == Least(m.pn, n + MaxSkip)
<1>1. /\ a # Nothing
      /\ t.theirRatchetPub = m.pub /\ t.recvChain = m.chain /\ t.recvMsgNum = m.n + 1
      /\ Keeps(U, t, out)
  BY DEF OnNewChain
<1>2. /\ MaxSkip \in Nat /\ old[2] \in Nat /\ m.pub[2] \in Nat /\ old # m.pub
      /\ stop \in Int /\ n \in Int
  BY RatchetAssumption DEF Least
<1>3. ASSUME NEW k \in Ended(a, m.pn)
      PROVE  k.pub = old /\ (k \in Buffer(a) \/ k.chain = chain)
  BY <1>3, InRun DEF Ended
<1>4. ASSUME NEW k \in U
      PROVE  /\ k.pub[2] <= m.pub[2]
             /\ k.pub = m.pub => k.chain = m.chain
             /\ \A x \in sent : x.from = q /\ x.pub = k.pub => x.chain = k.chain
  <2>1. CASE k \in Ended(a, m.pn)
    <3>1. k.pub = old
      BY <1>3, <2>1
    <3>2. \A x \in sent : x.from = q /\ x.pub = k.pub => x.chain = k.chain
      BY <1>1, <1>3, <2>1 DEF ReadsWell
    <3> QED BY <1>2, <3>1, <3>2
  <2>2. CASE k \in Run(m.pub, m.chain, 0, m.n)
    <3>1. k.pub = m.pub /\ k.chain = m.chain
      BY <2>2, InRun
    <3> QED BY <1>2, <3>1
  <2> QED BY <2>1, <2>2
<1>5. ASSUME NEW x \in sent, x \notin read, x # m, x.from = q, Due(t, x, n)
      PROVE  Key(x) \in gone \/ \E k \in U : Key(k) = Key(x)
  <2>1. CASE x.pub = m.pub /\ x.n < m.n + 1
    <3>1. x.n # m.n
      BY <1>5, <2>1 DEF Once
    <3> DEFINE pub == m.pub
               new == m.chain
               end == m.n
    <3> HIDE DEF pub, new, end
    <3>2. x.pub = pub /\ 0 \in Int /\ end \in Int /\ x.n \in Int /\ 0 <= x.n /\ x.n < end
      BY <2>1, <3>1 DEF pub, end
    <3>3. \E k \in Run(pub, new, 0, end) : Key(k) = Key(x) /\ k.pub = pub
      BY <3>2, RunHas
    <3> QED BY <3>3 DEF pub, new, end
  <2>2. CASE x.pub[2] + 1 = m.pub[2] /\ x.n < n + MaxSkip
    <3>1. x.pub = old
      BY <1>2, <1>5, <2>2
    <3>2. CASE x.n < n
      <4>1. Due(a, x, n0)
        BY <3>1, <3>2 DEF Due
      <4>2. Key(x) \in gone \/ \E k \in Buffer(a) : Key(k) = Key(x)
        BY <1>1, <1>5, <4>1 DEF ReadsWell
      <4>3. ASSUME NEW k \in Buffer(a), Key(k) = Key(x)  PROVE k \in U
        BY <3>1, <4>3 DEF Ended, Key
      <4> QED BY <4>2, <4>3
    <3>3. CASE ~(x.n < n)
      <4>1. chain # NoChain
        BY <1>1, <1>5, <3>1 DEF ReadsWell
      <4>2. x.n < m.pn
        BY <1>5, <2>2 DEF InOrder
      <4>3. n <= x.n /\ x.n < stop /\ x.n \in Int
        BY <2>2, <3>3, <4>2 DEF Least
      <4> HIDE DEF old, chain, n, stop
      <4>4. \E k \in Run(old, chain, n, stop) : Key(k) = Key(x) /\ k.pub = old
        BY <1>2, <3>1, <4>3, RunHas
      <4>5. Run(old, chain, n, stop) \subseteq U
        BY <4>1 DEF Ended, old, chain, n, stop
      <4> QED BY <4>4, <4>5
    <3> QED BY <3>2, <3>3
  <2> QED BY <1>1, <1>5, <2>1, <2>2 DEF Due
<1> HIDE DEF U
<1>6. \A x \in sent : x \notin read /\ x # m /\ x.from = q /\ Due(t, x, n) =>
         Key(x) \in out \/ \E k \in Buffer(t) : Key(k) = Key(x)
  BY <1>1, <1>5 DEF Keeps
<1>7. Buffer(t) \subseteq U
  BY <1>1 DEF Keeps
<1>8. \A x \in sent : x.from = q /\ x.pub = t.theirRatchetPub => x.chain = t.recvChain
  BY <1>1
<1>9. \A k \in Buffer(t) :
          /\ k.pub[2] <= t.theirRatchetPub[2]
          /\ k.pub = t.theirRatchetPub => k.chain = t.recvChain
          /\ \A x \in sent : x.from = q /\ x.pub = k.pub => x.chain = k.chain
  BY <1>1, <1>4, <1>7
<1> QED BY <1>6, <1>8, <1>9 DEF ReadsWell

LEMMA AnswersWell ==
  ASSUME NEW q, NEW p, NEW a, NEW t, NEW m \in sent, m.from = q, Once, NEW fresh,
         \A x \in sent : /\ x.n \in Nat
                         /\ x.from = q => x.pub = m.pub /\ x.chain = m.chain,
         m.pub[2] \in Nat,
         NEW read, NEW out, NEW n0, Answers(p, a, t, m, fresh, out)
  PROVE  ReadsWell(q, t, sent, read \cup {m}, out, n0)
<1> DEFINE U == Run(m.pub, m.chain, 0, m.n)
<1>1. /\ t.theirRatchetPub = m.pub /\ t.recvChain = m.chain /\ t.recvMsgNum = m.n + 1
      /\ Keeps(U, t, out)
  BY DEF Answers
<1>2. ASSUME NEW x \in sent, x # m, x.from = q, Due(t, x, n0)
      PROVE  \E k \in U : Key(k) = Key(x)
  <2>1. x.pub = m.pub /\ x.n < m.n + 1
    BY <1>1, <1>2 DEF Due
  <2>2. x.n # m.n
    BY <1>2, <2>1 DEF Once
  <2> DEFINE pub == m.pub
             new == m.chain
             end == m.n
  <2> HIDE DEF pub, new, end
  <2>3. x.pub = pub /\ 0 \in Int /\ end \in Int /\ x.n \in Int /\ 0 <= x.n /\ x.n < end
    BY <2>1, <2>2 DEF pub, end
  <2>4. \E k \in Run(pub, new, 0, end) : Key(k) = Key(x) /\ k.pub = pub
    BY <2>3, RunHas
  <2> QED BY <2>4 DEF pub, new, end
<1>3. \A k \in U : k.pub = m.pub /\ k.chain = m.chain
  BY InRun
<1> HIDE DEF U
<1>4. Buffer(t) \subseteq U
  BY <1>1 DEF Keeps
<1>5. \A x \in sent : x # m /\ x.from = q /\ Due(t, x, n0) =>
         Key(x) \in out \/ \E k \in Buffer(t) : Key(k) = Key(x)
  BY <1>1, <1>2 DEF Keeps
<1> QED BY <1>1, <1>3, <1>4, <1>5 DEF ReadsWell

-----------------------------------------------------------------------------
(* Who has the newest chain.                                               *)

\* The number of the ratchet key of session s.
Round(s) == IF s = Nothing THEN 0 ELSE s.myRatchetPub[2]

\* Session b reads on the chain that a sends on, and no further.
Follows(b, a) ==
    /\ b.theirRatchetPub = a.myRatchetPub /\ b.recvChain = a.sendChain
    /\ b.recvMsgNum <= a.sendMsgNum

\* The session a of p has made a chain that b, the other's, has not read on.
Ahead(p, a, b, msgs) ==
    /\ a # Nothing /\ a.pendingDhRatchet = FALSE /\ a.sendChain = a.rootKey
    /\ b = Nothing =>
          /\ a.myRatchetPub[2] = 1 /\ a.rootKey = <<{a.myRatchetPub, Identity(Peer(p))}>>
          /\ a.theirRatchetPub = Identity(Peer(p))
          /\ \E m \in msgs : m.from = p /\ m.chain = a.rootKey
    /\ b # Nothing =>
          /\ b.pendingDhRatchet = FALSE /\ b.sendChain = b.rootKey
          /\ a.rootKey = Append(b.rootKey, {a.myRatchetPub, b.myRatchetPub})
          /\ a.myRatchetPub[2] = b.theirRatchetPub[2] + 1
          /\ Follows(a, b)

\* The other has read on the newest chain of p.
Level(a, b) ==
    /\ a # Nothing /\ b # Nothing
    /\ a.pendingDhRatchet = FALSE /\ b.pendingDhRatchet = TRUE
    /\ a.sendChain = a.rootKey /\ b.rootKey = a.rootKey
    /\ Follows(a, b) /\ Follows(b, a)

TurnOf(p) == Ahead(p, last[p], last[Peer(p)], sent) \/ Level(last[p], last[Peer(p)])

\* Nobody has begun, or it is clear whose chain is the newest.
InTurn == (\A p \in Parties : last[p] = Nothing) \/ \E p \in Parties : TurnOf(p)

\* What p has sent is in order, and p reads well what the other has sent.
Talks(p) ==
    /\ keys[p] = Round(last[p])
    /\ SendsWell(p, last[p], sent)
    /\ InOrder(p, sent)
    /\ ReadsWell(Peer(p), last[p], sent, opened[p], evicted[p], reach[p])

\* The shape of the variables this part is about.
Counted ==
    /\ DOMAIN keys = Parties /\ DOMAIN last = Parties
    /\ DOMAIN opened = Parties /\ DOMAIN evicted = Parties
    /\ reach \in [Parties -> Nat]

\* The third part of the inductive invariant: as long as no session was lost
\* and the two did not both begin.
Talking == Counted /\ InTurn /\ \A p \in Parties : Talks(p)

TalkInv == ~lost /\ ~Crossed => Talking

\* Where the sessions of the two are.
LEMMA TurnMeets ==
  ASSUME Good, Talking, NEW p \in Parties, NEW a, NEW b, a = last[p], b = last[Peer(p)],
         b # Nothing
  PROVE  /\ b.theirRatchetPub \in {p} \X Nat /\ b.theirRatchetPub[2] <= keys[p]
         /\ a # Nothing /\ b.theirRatchetPub = a.myRatchetPub => Follows(b, a)
<1> DEFINE q == Peer(p)
<1>1. q \in Parties /\ Peer(q) = p /\ \A x \in Parties : x = p \/ x = q
  BY TwoPeople
<1>2. b.theirRatchetPub \in {p} \X Nat
  BY <1>1 DEF Good, Session, IsSaved, IsState
<1>3. a # Nothing => a.myRatchetPub[2] \in Nat /\ keys[p] = a.myRatchetPub[2]
  BY DEF Good, Session, IsSaved, IsState, MadeWith, Talking, Talks, Round
<1>4. a = Nothing => keys[p] = 0
  BY DEF Talking, Talks, Round
<1>5. CASE Ahead(p, a, b, sent)
  <2>1. a.myRatchetPub[2] = b.theirRatchetPub[2] + 1 /\ a # Nothing /\ b.theirRatchetPub[2] \in Nat
    BY <1>2, <1>5 DEF Ahead
  <2>2. b.theirRatchetPub[2] <= a.myRatchetPub[2] /\ b.theirRatchetPub # a.myRatchetPub
    BY <2>1
  <2> QED BY <1>2, <1>3, <2>1, <2>2
<1>6. CASE Ahead(q, b, a, sent)
  <2>1. CASE a = Nothing
    <3>1. b.theirRatchetPub[2] = 0
      BY <1>1, <1>6, <2>1 DEF Ahead, Identity
    <3> QED BY <1>2, <1>4, <2>1, <3>1
  <2>2. CASE a # Nothing
    <3>1. Follows(b, a)
      BY <1>6, <2>2 DEF Ahead
    <3> QED BY <1>2, <1>3, <2>2, <3>1 DEF Follows
  <2> QED BY <2>1, <2>2
<1>7. CASE Level(a, b) \/ Level(b, a)
  <2>1. Follows(b, a) /\ a # Nothing
    BY <1>7 DEF Level
  <2> QED BY <1>2, <1>3, <2>1 DEF Follows
<1>8. PICK x \in Parties : TurnOf(x)
  BY <1>1 DEF Talking, InTurn
<1>9. Ahead(p, a, b, sent) \/ Level(a, b) \/ Ahead(q, b, a, sent) \/ Level(b, a)
  BY <1>1, <1>8 DEF TurnOf
<1> QED BY <1>5, <1>6, <1>7, <1>9

\* What is known of a message that was sent.
LEMMA SentFits ==
  ASSUME Good, Talking, NEW m \in sent, NEW p \in Parties, m.from = p, NEW a, a = last[p]
  PROVE  /\ m.n \in Nat /\ m.pn \in Nat
         /\ m.pub \in {p} \X (Nat \ {0}) /\ m.pub[2] <= a.myRatchetPub[2]
         /\ Mine(p, m.chain) /\ m.chain # NoChain
         /\ a # Nothing /\ IsState(p, a) /\ a.myRatchetPub \in {p} \X (Nat \ {0})
         /\ keys[p] = a.myRatchetPub[2]
         /\ m.pub = a.myRatchetPub => m.n < a.sendMsgNum
         /\ Len(m.chain) <= Len(a.rootKey)
<1>1. Passed(m) /\ a # Nothing
  BY DEF Good, Passed
<1>2. IsState(p, a) /\ a.myRatchetPub \in {p} \X (Nat \ {0})
  BY <1>1 DEF Good, Session, IsSaved, IsState, MadeWith
<1>3. keys[p] = a.myRatchetPub[2]
  BY <1>1 DEF Talking, Talks, Round
<1>4. Mine(p, m.chain)
  BY <1>1 DEF Passed, MadeWith
<1>5. m.chain # NoChain
  BY <1>4 DEF Mine, NoChain
<1> QED BY <1>1, <1>2, <1>3, <1>4, <1>5 DEF Passed, MadeWith

\* Where the sessions a of p and b of the other are in the turns.
Placed(p, a, b, msgs) ==
    \/ a = Nothing /\ b = Nothing
    \/ Ahead(p, a, b, msgs) \/ Ahead(Peer(p), b, a, msgs)
    \/ Level(a, b) \/ Level(b, a)

\* InTurn, seen from either of the two.
LEMMA TurnPlaced ==
  ASSUME NEW p \in Parties
  PROVE  InTurn <=> Placed(p, last[p], last[Peer(p)], sent)
<1>1. Peer(p) \in Parties /\ Peer(Peer(p)) = p /\ \A x \in Parties : x = p \/ x = Peer(p)
  BY TwoPeople
<1>2. InTurn => Placed(p, last[p], last[Peer(p)], sent)
  BY <1>1 DEF InTurn, TurnOf, Placed
<1>3. Placed(p, last[p], last[Peer(p)], sent) => InTurn
  BY <1>1 DEF InTurn, TurnOf, Placed
<1> QED BY <1>2, <1>3

\* What is sent stays in order.
LEMMA WriteSends ==
  ASSUME Good, Talking, NEW p \in Parties, NEW a, a = last[p], NEW k, k = keys[p] + 1,
         NEW t, NEW m, t # Nothing, m.n \in Nat, Writes(p, a, t, m, k)
  PROVE  /\ SendsWell(p, t, sent \cup {m}) /\ InOrder(p, sent \cup {m})
<1> DEFINE msgs == sent \cup {m}
           fresh == <<p, k>>
<1>1. /\ m.from = p /\ m.pub = t.myRatchetPub /\ m.chain = t.sendChain /\ m.pn = t.sendPrevLen
  BY DEF Writes
<1>2. /\ SendsWell(p, a, sent) /\ InOrder(p, sent) /\ keys[p] = Round(a)
      /\ keys[p] \in Nat /\ k \in Nat
  BY DEF Talking, Talks, Good, Shape
<1>3. ASSUME NEW x \in sent, x.from = p
      PROVE  /\ x.n \in Nat /\ x.pub \in {p} \X (Nat \ {0}) /\ x.pub[2] <= a.myRatchetPub[2]
             /\ a # Nothing /\ a.myRatchetPub \in {p} \X (Nat \ {0})
             /\ keys[p] = a.myRatchetPub[2]
             /\ x.pub = a.myRatchetPub => x.n < a.sendMsgNum
             /\ Len(x.chain) <= Len(a.rootKey) /\ Mine(p, x.chain) /\ IsState(p, a)
  BY <1>3, SentFits
<1>4. a # Nothing => a.myRatchetPub \in {p} \X (Nat \ {0}) /\ keys[p] = a.myRatchetPub[2]
  BY <1>2 DEF Good, Session, IsSaved, IsState, MadeWith, Round
<1>5. CASE GoesOn(a, t, m)
  <2>1. /\ a # Nothing /\ t.myRatchetPub = a.myRatchetPub /\ t.sendChain = a.sendChain
        /\ t.sendPrevLen = a.sendPrevLen
    BY <1>5 DEF GoesOn
  <2>2. SendsWell(p, t, msgs)
    BY <1>1, <1>2, <2>1 DEF SendsWell
  <2>3. ASSUME NEW x \in msgs, NEW y \in msgs, x.from = p, y.from = p, y.pub[2] = x.pub[2] + 1
        PROVE  x.n < y.pn
    <3>1. CASE x \in sent /\ y \in sent
      BY <1>2, <2>3, <3>1 DEF InOrder
    <3>2. CASE x \in sent /\ y = m
      <4>1. x.pub # a.myRatchetPub /\ x.pub[2] + 1 = a.myRatchetPub[2]
        BY <1>1, <1>3, <2>1, <2>3, <3>2
      <4> QED BY <1>1, <1>2, <2>1, <2>3, <3>2, <4>1 DEF SendsWell
    <3>3. CASE x = m /\ y \in sent
      BY <1>1, <1>3, <2>1, <2>3, <3>3
    <3>4. CASE x = m /\ y = m
      BY <1>1, <1>4, <2>1, <2>3, <3>4
    <3> QED BY <3>1, <3>2, <3>3, <3>4
  <2> QED BY <2>2, <2>3 DEF InOrder
<1>6. CASE StepsOn(a, t, fresh)
  <2>1. /\ a # Nothing /\ t.myRatchetPub = fresh /\ t.sendChain = t.rootKey
        /\ t.rootKey = Append(a.rootKey, {fresh, a.theirRatchetPub})
        /\ t.sendPrevLen = a.sendMsgNum
    BY <1>6 DEF StepsOn
  <2>2. Len(t.sendChain) = Len(a.rootKey) + 1 /\ Len(a.rootKey) \in Nat
    <3>1. IsState(p, a)
      BY <2>1 DEF Good, Session, IsSaved
    <3>2. fresh \in Pairs /\ a.theirRatchetPub \in Pairs
      BY <1>2, <3>1, TwoPeople DEF IsState, Pairs
    <3>3. a.rootKey \in Seq(SUBSET Pairs) /\ {fresh, a.theirRatchetPub} \in SUBSET Pairs
      BY <3>1, <3>2 DEF IsState, Mine
    <3> QED BY <2>1, <3>3, AppendProperties, LenProperties
  <2>3. ASSUME NEW x \in sent, x.from = p
        PROVE  /\ x.pub # fresh /\ x.pub[2] \in Nat /\ x.pub[2] < k
               /\ Len(x.chain) < Len(t.sendChain)
               /\ x.pub[2] + 1 = k => x.n < t.sendPrevLen
    <3>1. Len(x.chain) \in Nat
      BY <1>3, <2>3, LenProperties DEF Mine
    <3>2. x.pub[2] \in Nat /\ x.pub[2] < k /\ x.pub # fresh
      BY <1>2, <1>3, <2>3
    <3>3. x.pub[2] + 1 = k => x.pub = a.myRatchetPub
      BY <1>2, <1>3, <2>3, <3>2
    <3> QED BY <1>3, <2>1, <2>2, <2>3, <3>1, <3>2, <3>3
  <2>4. m.pub = fresh /\ m.pub[2] = k /\ m.pn = t.sendPrevLen
    BY <1>1, <2>1
  <2>5. SendsWell(p, t, msgs)
    BY <1>1, <2>1, <2>3 DEF SendsWell
  <2>6. ASSUME NEW x \in msgs, NEW y \in msgs, x.from = p, y.from = p, y.pub[2] = x.pub[2] + 1
        PROVE  x.n < y.pn
    <3>1. CASE x \in sent /\ y \in sent
      BY <1>2, <2>6, <3>1 DEF InOrder
    <3>2. CASE x \in sent /\ y = m
      BY <2>3, <2>4, <2>6, <3>2
    <3>3. CASE x = m
      BY <1>2, <2>3, <2>4, <2>6, <3>3
    <3> QED BY <3>1, <3>2, <3>3
  <2> QED BY <2>5, <2>6 DEF InOrder
<1>7. CASE Begins(p, a, t, fresh)
  <2>1. a = Nothing /\ t.myRatchetPub = fresh
    BY <1>7 DEF Begins
  <2>2. \A x \in sent : x.from # p
    BY <1>3, <2>1
  <2>3. SendsWell(p, t, msgs)
    BY <1>1, <2>2 DEF SendsWell
  <2>4. InOrder(p, msgs)
    <3>1. m.pub[2] = k
      BY <1>1, <2>1
    <3> QED BY <1>2, <2>2, <3>1 DEF InOrder
  <2> QED BY <2>3, <2>4
<1> QED BY <1>5, <1>6, <1>7 DEF Writes

\* The sessions take turns when one writes.
LEMMA WriteTurns ==
  ASSUME Good, Talking, NEW p \in Parties, NEW a, a = last[p], NEW k, k = keys[p] + 1,
         NEW b, b = last[Peer(p)],
         NEW t, NEW m, t # Nothing, m.n \in Nat, Writes(p, a, t, m, k),
         b = Nothing \/ b.recvMsgNum \in Nat,
         \/ \A x \in sent \cup {m} : x.from = p => Len(x.chain) # 1
         \/ \A x \in sent : x.from = Peer(p) => Len(x.chain) # 1
  PROVE  Placed(p, t, b, sent \cup {m})
<1> DEFINE msgs == sent \cup {m}
           fresh == <<p, k>>
           q == Peer(p)
<1>1. /\ m.from = p /\ m.pub = t.myRatchetPub /\ m.chain = t.sendChain
      /\ t.sendMsgNum = m.n + 1 /\ t.pendingDhRatchet = FALSE
  BY DEF Writes
<1>2. Placed(p, a, b, sent)
  BY TurnPlaced DEF Talking
<1>3. /\ keys[p] \in Nat /\ k \in Nat /\ q \in Parties
      /\ a # Nothing => keys[p] = a.myRatchetPub[2] /\ a.sendMsgNum \in Nat
      /\ a = Nothing => keys[p] = 0
  BY TwoPeople DEF Talking, Talks, Round, Good, Shape, Session, IsSaved, IsState
<1>4. CASE GoesOn(a, t, m)
  <2>1. /\ a # Nothing /\ t.myRatchetPub = a.myRatchetPub /\ t.sendChain = a.sendChain
        /\ t.rootKey = a.rootKey /\ SameReceiver(a, t) /\ m.n = a.sendMsgNum
        /\ ~a.pendingDhRatchet
    BY <1>4 DEF GoesOn
  <2>2. Follows(a, b) => Follows(t, b)
    BY <2>1 DEF Follows, SameReceiver
  <2>3. b # Nothing /\ Follows(b, a) => Follows(b, t)
    <3>1. b # Nothing /\ b.recvMsgNum <= a.sendMsgNum => b.recvMsgNum <= t.sendMsgNum
      BY <1>1, <1>3, <2>1
    <3> QED BY <2>1, <3>1 DEF Follows
  <2>4. CASE Ahead(p, a, b, sent)
    <3>1. Ahead(p, t, b, msgs)
      BY <1>1, <2>1, <2>2, <2>4 DEF Ahead, SameReceiver
    <3> QED BY <3>1 DEF Placed
  <2>5. CASE Ahead(q, b, a, sent)
    <3>1. Ahead(q, b, t, msgs)
      BY <1>1, <2>1, <2>3, <2>5 DEF Ahead, SameReceiver
    <3> QED BY <3>1 DEF Placed
  <2>6. CASE Level(a, b)
    <3>1. Level(t, b)
      BY <1>1, <2>1, <2>2, <2>3, <2>6 DEF Level
    <3> QED BY <3>1 DEF Placed
  <2>7. ~Level(b, a)
    BY <2>1 DEF Level
  <2> QED BY <1>2, <2>1, <2>4, <2>5, <2>6, <2>7 DEF Placed
<1>5. CASE StepsOn(a, t, fresh)
  <2>1. /\ a # Nothing /\ t.myRatchetPub = fresh /\ t.sendChain = t.rootKey /\ a.pendingDhRatchet
        /\ t.rootKey = Append(a.rootKey, {fresh, a.theirRatchetPub}) /\ SameReceiver(a, t)
    BY <1>5 DEF StepsOn
  <2>2. Level(b, a)
    BY <1>2, <2>1 DEF Placed, Ahead, Level
  <2>3. b # Nothing /\ b.pendingDhRatchet = FALSE /\ b.sendChain = b.rootKey /\ a.rootKey = b.rootKey
        /\ Follows(a, b) /\ Follows(b, a)
    BY <2>2 DEF Level
  <2>4. Follows(t, b)
    BY <2>1, <2>3 DEF Follows, SameReceiver
  <2>5. t.rootKey = Append(b.rootKey, {t.myRatchetPub, b.myRatchetPub})
    BY <2>1, <2>3 DEF Follows
  <2>6. t.myRatchetPub[2] = b.theirRatchetPub[2] + 1
    BY <1>3, <2>1, <2>3 DEF Follows
  <2>7. Ahead(p, t, b, msgs)
    BY <1>1, <2>1, <2>3, <2>4, <2>5, <2>6 DEF Ahead
  <2> QED BY <2>7 DEF Placed
<1>6. CASE Begins(p, a, t, fresh)
  <2>1. /\ a = Nothing /\ t.myRatchetPub = fresh /\ t.sendChain = t.rootKey
        /\ t.rootKey = <<{fresh, Identity(q)}>> /\ t.theirRatchetPub = Identity(q)
    BY <1>6 DEF Begins
  <2>2. Len(m.chain) = 1
    BY <1>1, <2>1
  <2>3. ~Ahead(q, b, a, sent)
    <3>1. SUFFICES ASSUME Ahead(q, b, a, sent) PROVE FALSE
      OBVIOUS
    <3>2. PICK x \in sent : x.from = q /\ x.chain = b.rootKey
      BY <2>1, <3>1 DEF Ahead
    <3>3. Len(b.rootKey) = 1
      BY <2>1, <3>1 DEF Ahead
    <3> QED BY <1>1, <2>2, <3>2, <3>3
  <2>4. b = Nothing
    BY <1>2, <2>1, <2>3 DEF Placed, Ahead, Level
  <2>5. Ahead(p, t, b, msgs)
    BY <1>1, <1>3, <2>1, <2>4 DEF Ahead
  <2> QED BY <2>5 DEF Placed
<1> QED BY <1>4, <1>5, <1>6 DEF Writes

\* What the other makes of the messages there are, and of the new one.
LEMMA WriteReads ==
  ASSUME Good, Talking, NEW p \in Parties, NEW a, a = last[p], NEW k, k = keys[p] + 1,
         NEW b, b = last[Peer(p)], b # Nothing => Reading(p, b, opened[Peer(p)]),
         NEW t, NEW m, t # Nothing, m.n \in Nat, Writes(p, a, t, m, k),
         NEW read, NEW out, NEW n0, ReadsWell(p, b, sent, read, out, n0)
  PROVE  ReadsWell(p, b, sent \cup {m}, read, out, n0)
<1> DEFINE fresh == <<p, k>>
<1>1. SUFFICES ASSUME b # Nothing PROVE ReadsWell(p, b, sent \cup {m}, read, out, n0)
  BY DEF ReadsWell
<1>2. m.from = p /\ m.pub = t.myRatchetPub /\ m.chain = t.sendChain
  BY DEF Writes
<1>3. /\ b.theirRatchetPub \in {p} \X Nat /\ b.theirRatchetPub[2] <= keys[p]
      /\ a # Nothing /\ b.theirRatchetPub = a.myRatchetPub => Follows(b, a)
  BY <1>1, TurnMeets
<1>4. keys[p] \in Nat /\ k \in Nat
  BY DEF Good, Shape
<1>5. ASSUME NEW x \in Buffer(b)
      PROVE  /\ x.pub \in Pairs
             /\ x.pub[2] <= b.theirRatchetPub[2]
             /\ x.pub = b.theirRatchetPub => x.chain = b.recvChain
             /\ \A y \in sent : y.from = p /\ y.pub = x.pub => y.chain = x.chain
  <2>1. b.skippedKeys \in Seq(KeyOf(p))
    BY <1>1 DEF Reading, Reads
  <2>2. x \in KeyOf(p)
    BY <2>1, ElementOfSeq, LenProperties DEF Buffer, ToSet
  <2> QED BY <1>1, <2>2 DEF KeyOf, ReadsWell
<1>6. /\ m.pub[2] \in Nat /\ b.theirRatchetPub[2] <= m.pub[2]
      /\ m.pub = b.theirRatchetPub => m.chain = b.recvChain /\ ~(m.n < b.recvMsgNum)
      /\ m.pub[1] = p /\ m.pub = <<p, m.pub[2]>>
  <2>1. CASE GoesOn(a, t, m)
    <3>1. /\ a # Nothing /\ m.pub = a.myRatchetPub /\ m.chain = a.sendChain /\ m.n = a.sendMsgNum
      BY <1>2, <2>1 DEF GoesOn
    <3>2. /\ a.myRatchetPub \in {p} \X (Nat \ {0}) /\ keys[p] = a.myRatchetPub[2]
      BY <3>1 DEF Good, Session, IsSaved, IsState, MadeWith, Talking, Talks, Round
    <3>3. b.recvMsgNum \in Nat
      BY <1>1 DEF Reading, Reads
    <3>4. m.pub = b.theirRatchetPub => m.chain = b.recvChain /\ ~(m.n < b.recvMsgNum)
      BY <1>3, <3>1, <3>3 DEF Follows
    <3> QED BY <1>3, <3>1, <3>2, <3>4
  <2>2. CASE Begins(p, a, t, fresh) \/ StepsOn(a, t, fresh)
    <3>1. m.pub = fresh
      BY <1>2, <2>2 DEF Begins, StepsOn
    <3>2. b.theirRatchetPub # fresh
      BY <1>3, <1>4
    <3> QED BY <1>3, <1>4, <3>1, <3>2
  <2> QED BY <2>1, <2>2 DEF Writes
<1>7. ~Due(b, m, n0)
  BY <1>3, <1>6 DEF Due
<1>8. ASSUME NEW x \in Buffer(b), m.pub = x.pub PROVE m.chain = x.chain
  <2>1. m.pub = b.theirRatchetPub
    BY <1>3, <1>5, <1>6, <1>8
  <2> QED BY <1>5, <1>6, <1>8, <2>1
<1> QED BY <1>1, <1>5, <1>6, <1>7, <1>8 DEF ReadsWell

\* A message on a chain that is new to its reader is on the newest there is.
LEMMA NewestFound ==
  ASSUME Good, Talking, NEW p \in Parties, NEW q, q = Peer(p), NEW a, a = last[p],
         NEW b, b = last[q],
         NEW m \in sent, m.from = q, NEW t, NEW out, OnNewChain(a, t, m, out)
  PROVE  Ahead(q, b, a, sent) /\ b # Nothing /\ m.pub = b.myRatchetPub /\ m.chain = b.sendChain
<1>1. a # Nothing /\ m.chain = Append(a.rootKey, {m.pub, a.myRatchetPub})
  BY DEF OnNewChain
<1>2. /\ q \in Parties /\ Peer(q) = p
      /\ b # Nothing /\ m.pub \in {q} \X (Nat \ {0}) /\ Len(m.chain) <= Len(b.rootKey)
      /\ b.myRatchetPub \in {q} \X (Nat \ {0}) /\ IsState(q, b) /\ Mine(q, m.chain)
  BY TwoPeople, SentFits
<1>3. IsState(p, a)
  BY <1>1 DEF Good, Session, IsSaved
<1>4. /\ a.myRatchetPub \in Pairs /\ m.pub \in Pairs /\ b.myRatchetPub \in Pairs
      /\ a.rootKey \in Seq(SUBSET Pairs) /\ b.rootKey \in Seq(SUBSET Pairs)
  BY <1>2, <1>3 DEF IsState, MadeWith, Mine, Pairs
<1>5. /\ Len(m.chain) = Len(a.rootKey) + 1 /\ Len(a.rootKey) \in Nat /\ Len(b.rootKey) \in Nat
  <2>1. {m.pub, a.myRatchetPub} \in SUBSET Pairs
    BY <1>4
  <2> QED BY <1>1, <1>4, <2>1, AppendProperties, LenProperties
<1>6. \A e, d : {e, d} \subseteq Pairs =>
         /\ Len(Append(b.rootKey, {e, d})) = Len(b.rootKey) + 1
         /\ Len(Append(a.rootKey, {e, d})) = Len(a.rootKey) + 1
  <2> TAKE e, d
  <2> HAVE {e, d} \subseteq Pairs
  <2>1. {e, d} \in SUBSET Pairs
    OBVIOUS
  <2> QED BY <1>4, <2>1, AppendProperties
<1>7. ~Ahead(p, a, b, sent)
  <2>1. SUFFICES ASSUME Ahead(p, a, b, sent) PROVE FALSE
    OBVIOUS
  <2>2. a.rootKey = Append(b.rootKey, {a.myRatchetPub, b.myRatchetPub})
    BY <1>2, <2>1 DEF Ahead
  <2>3. Len(a.rootKey) = Len(b.rootKey) + 1
    BY <1>4, <1>6, <2>2
  <2> QED BY <1>2, <1>5, <2>3
<1>8. ~Level(a, b) /\ ~Level(b, a)
  BY <1>2, <1>5 DEF Level
<1>9. Placed(p, a, b, sent)
  BY TurnPlaced DEF Talking
<1>10. Ahead(q, b, a, sent)
  BY <1>1, <1>7, <1>8, <1>9 DEF Placed
<1>11. /\ b.sendChain = b.rootKey
       /\ b.rootKey = Append(a.rootKey, {b.myRatchetPub, a.myRatchetPub})
  BY <1>1, <1>10 DEF Ahead
<1>12. Len(b.sendChain) = Len(m.chain)
  BY <1>4, <1>5, <1>6, <1>11
<1>13. SendsWell(q, b, sent)
  BY <1>2 DEF Talking, Talks
<1>14. m.pub = b.myRatchetPub /\ m.chain = b.sendChain
  BY <1>2, <1>5, <1>12, <1>13 DEF SendsWell
<1> QED BY <1>2, <1>10, <1>14

\* The first message to someone without a session is on the only chain there is.
LEMMA FirstFound ==
  ASSUME Good, Talking, NEW p \in Parties, last[p] = Nothing,
         NEW m \in sent, m.from = Peer(p)
  PROVE  LET q == Peer(p)
             b == last[q] IN
         /\ Ahead(q, b, last[p], sent) /\ b # Nothing
         /\ m.pub = b.myRatchetPub /\ m.chain = b.sendChain
<1> DEFINE q == Peer(p)
           a == last[p]
           b == last[q]
<1>1. /\ q \in Parties /\ Peer(q) = p
      /\ b # Nothing /\ m.pub \in {q} \X (Nat \ {0}) /\ m.pub[2] <= b.myRatchetPub[2]
      /\ b.myRatchetPub \in {q} \X (Nat \ {0})
  BY TwoPeople, SentFits
<1>2. Placed(p, a, b, sent)
  BY TurnPlaced DEF Talking
<1>3. Ahead(q, b, a, sent)
  BY <1>1, <1>2 DEF Placed, Ahead, Level
<1>4. b.myRatchetPub[2] = 1
  BY <1>3 DEF Ahead
<1>5. m.pub = b.myRatchetPub
  BY <1>1, <1>4
<1>6. SendsWell(q, b, sent)
  BY <1>1 DEF Talking, Talks
<1> QED BY <1>1, <1>3, <1>5, <1>6 DEF SendsWell

\* The sessions take turns when one opens a message.
LEMMA ReadTurns ==
  ASSUME Good, Talking, NEW p \in Parties, NEW q, q = Peer(p), NEW a, a = last[p],
         NEW b, b = last[q],
         NEW m \in sent, m.from = q, NEW t, t # Nothing, NEW out,
         \/ Late(a, t, m) \/ OnChain(a, t, m, out) \/ OnNewChain(a, t, m, out)
         \/ Answers(p, a, t, m, <<p, keys[p] + 1>>, out)
  PROVE  Placed(p, t, b, sent)
<1>1. /\ q \in Parties /\ Peer(q) = p /\ b # Nothing /\ m.n \in Nat
      /\ m.pub = b.myRatchetPub => m.n < b.sendMsgNum
      /\ IsState(q, b)
  BY TwoPeople, SentFits
<1>2. b.sendMsgNum \in Nat
  BY <1>1 DEF IsState
<1>3. Placed(p, a, b, sent)
  BY TurnPlaced DEF Talking
<1>4. CASE Late(a, t, m) \/ OnChain(a, t, m, out)
  <2>1. /\ a # Nothing /\ SameSending(a, t)
        /\ t.rootKey = a.rootKey /\ t.pendingDhRatchet = a.pendingDhRatchet
        /\ t.theirRatchetPub = a.theirRatchetPub /\ t.recvChain = a.recvChain
        /\ \/ t.recvMsgNum = a.recvMsgNum
           \/ t.recvMsgNum = m.n + 1 /\ m.pub = a.theirRatchetPub
    BY <1>4 DEF Late, OnChain
  <2>2. Follows(a, b) => Follows(t, b)
    BY <1>1, <1>2, <2>1 DEF Follows
  <2>3. Follows(b, a) => Follows(b, t)
    BY <2>1 DEF Follows, SameSending
  <2>4. Ahead(p, a, b, sent) => Ahead(p, t, b, sent)
    BY <1>1, <2>1, <2>2 DEF Ahead, SameSending
  <2>5. Ahead(q, b, a, sent) => Ahead(q, b, t, sent)
    BY <2>1, <2>3 DEF Ahead, SameSending
  <2>6. (Level(a, b) => Level(t, b)) /\ (Level(b, a) => Level(b, t))
    BY <2>1, <2>2, <2>3 DEF Level, SameSending
  <2> QED BY <1>1, <1>3, <2>1, <2>4, <2>5, <2>6 DEF Placed
<1>5. CASE OnNewChain(a, t, m, out)
  <2>1. Ahead(q, b, a, sent) /\ m.pub = b.myRatchetPub /\ m.chain = b.sendChain
    BY <1>5, NewestFound
  <2>2. /\ a # Nothing /\ SameSending(a, t) /\ t.rootKey = m.chain /\ t.pendingDhRatchet = TRUE
        /\ t.theirRatchetPub = m.pub /\ t.recvChain = m.chain
        /\ t.recvMsgNum = m.n + 1
    BY <1>5 DEF OnNewChain
  <2>3. b.pendingDhRatchet = FALSE /\ b.sendChain = b.rootKey /\ Follows(b, a)
    BY <2>1, <2>2 DEF Ahead
  <2>4. Follows(b, t)
    BY <2>2, <2>3 DEF Follows, SameSending
  <2>5. Follows(t, b)
    BY <1>1, <1>2, <2>1, <2>2 DEF Follows
  <2>6. Level(b, t)
    BY <1>1, <2>1, <2>2, <2>3, <2>4, <2>5 DEF Level
  <2> QED BY <2>6 DEF Placed
<1>6. CASE Answers(p, a, t, m, <<p, keys[p] + 1>>, out)
  <2> DEFINE fresh == <<p, keys[p] + 1>>
  <2>1. /\ a = Nothing
        /\ t.rootKey = Append(m.chain, {m.pub, fresh}) /\ t.pendingDhRatchet = FALSE
        /\ t.myRatchetPub = fresh /\ t.sendChain = t.rootKey
        /\ t.theirRatchetPub = m.pub /\ t.recvChain = m.chain
        /\ t.recvMsgNum = m.n + 1
    BY <1>6 DEF Answers
  <2>2. Ahead(q, b, a, sent) /\ m.pub = b.myRatchetPub /\ m.chain = b.sendChain
    BY <2>1, FirstFound
  <2>3. /\ b.pendingDhRatchet = FALSE /\ b.sendChain = b.rootKey
        /\ b.theirRatchetPub = <<p, 0>>
    BY <1>1, <2>1, <2>2 DEF Ahead, Identity
  <2>4. keys[p] = 0
    BY <2>1 DEF Talking, Talks, Round
  <2>5. t.myRatchetPub[2] = b.theirRatchetPub[2] + 1
    BY <2>1, <2>3, <2>4
  <2>6. {m.pub, fresh} = {t.myRatchetPub, b.myRatchetPub}
    BY <2>1, <2>2
  <2>7. t.rootKey = Append(b.rootKey, {t.myRatchetPub, b.myRatchetPub})
    BY <2>1, <2>2, <2>3, <2>6
  <2>8. Follows(t, b)
    BY <1>1, <1>2, <2>1, <2>2 DEF Follows
  <2> HIDE DEF fresh
  <2>9. Ahead(p, t, b, sent)
    BY <1>1, <2>1, <2>3, <2>5, <2>7, <2>8 DEF Ahead
  <2> QED BY <2>9 DEF Placed
<1> QED BY <1>4, <1>5, <1>6

\* Who opens a message reads well on.
LEMMA ReadsOnWell ==
  ASSUME Good, Talking, NEW p \in Parties, NEW q, q = Peer(p), NEW a, a = last[p],
         a # Nothing => Reading(q, a, opened[p]),
         NEW m \in sent, m.from = q, NEW t, NEW out, evicted[p] \subseteq out, NEW n1,
         \/ /\ Late(a, t, m) \/ OnChain(a, t, m, out)
               \/ Answers(p, a, t, m, <<p, keys[p] + 1>>, out)
            /\ n1 = reach[p]
         \/ OnNewChain(a, t, m, out) /\ n1 = a.recvMsgNum
  PROVE  ReadsWell(q, t, sent, opened[p] \cup {m}, out, n1)
<1> DEFINE b == last[q]
<1>1. /\ q \in Parties
      /\ \A x \in sent : /\ x.n \in Nat /\ x.pn \in Nat /\ x.chain # NoChain
                         /\ x.from = q => x.pub \in {q} \X (Nat \ {0})
  <2>1. q \in Parties
    BY TwoPeople
  <2>2. \A x \in sent : x.from \in Parties
    BY DEF Good, Passed
  <2> QED BY <2>1, <2>2, SentFits
<1>2. m.pub[2] \in Nat
  BY <1>1
<1>3. ReadsWell(q, a, sent, opened[p], evicted[p], reach[p]) /\ SendsWell(q, b, sent)
      /\ InOrder(q, sent) /\ Once
  BY <1>1 DEF Talking, Talks, Good
<1>4. a # Nothing => a.recvMsgNum \in Nat /\ a.theirRatchetPub \in {q} \X Nat
  BY DEF Good, Session, IsSaved, IsState, Reading, Reads
<1> HIDE DEF b
<1>5. CASE Late(a, t, m) /\ n1 = reach[p]
  BY <1>3, <1>5, LateWell
<1>6. CASE OnChain(a, t, m, out) /\ n1 = reach[p]
  <2>1. a.recvMsgNum \in Nat
    BY <1>4, <1>6 DEF OnChain
  <2>2. \A x \in sent : x.n \in Nat
    BY <1>1
  <2> QED BY <1>2, <1>3, <1>6, <2>1, <2>2, OnChainWell
<1>7. CASE OnNewChain(a, t, m, out) /\ n1 = a.recvMsgNum
  <2>1. a # Nothing
    BY <1>7 DEF OnNewChain
  <2>2. Ahead(q, b, a, sent) /\ b # Nothing /\ m.pub = b.myRatchetPub /\ m.chain = b.sendChain
    BY <1>7, NewestFound DEF b
  <2>3. m.pub[2] = a.theirRatchetPub[2] + 1
    BY <2>1, <2>2 DEF Ahead
  <2>4. \A x \in sent : x.from = q /\ x.pub = m.pub => x.chain = m.chain
    BY <1>3, <2>2 DEF SendsWell
  <2>5. \A x \in sent : /\ x.n \in Nat /\ x.chain # NoChain
                        /\ x.from = q => x.pub \in {q} \X Nat
    BY <1>1
  <2>6. m.pn \in Nat /\ a.recvMsgNum \in Nat /\ a.theirRatchetPub \in {q} \X Nat
    BY <1>1, <1>4, <2>1
  <2>7. OnNewChain(a, t, m, out)
    BY <1>7
  <2>8. ReadsWell(q, t, sent, opened[p] \cup {m}, out, a.recvMsgNum)
    BY <1>3, <2>3, <2>4, <2>5, <2>6, <2>7, OnNewChainWell
  <2> QED BY <1>7, <2>8
<1>8. CASE Answers(p, a, t, m, <<p, keys[p] + 1>>, out) /\ n1 = reach[p]
  <2>1. a = Nothing
    BY <1>8 DEF Answers
  <2>2. \A x \in sent : x.from = q => x.pub = m.pub /\ x.chain = m.chain
    <3>1. m.pub = b.myRatchetPub /\ m.chain = b.sendChain
      BY <2>1, FirstFound DEF b
    <3>2. \A x \in sent : x.from = q => x.pub = b.myRatchetPub /\ x.chain = b.sendChain
      BY <2>1, FirstFound DEF b
    <3> QED BY <3>1, <3>2
  <2>3. \A x \in sent : /\ x.n \in Nat
                        /\ x.from = q => x.pub = m.pub /\ x.chain = m.chain
    BY <1>1, <2>2
  <2>4. Answers(p, a, t, m, <<p, keys[p] + 1>>, out)
    BY <1>8
  <2> QED BY <1>2, <1>3, <1>8, <2>3, <2>4, AnswersWell
<1> QED BY <1>5, <1>6, <1>7, <1>8

\* The same after a step.
LEMMA PlacedAgain ==
  ASSUME NEW p \in Parties, Placed(p, last'[p], last'[Peer(p)], sent')
  PROVE  InTurn'
<1>1. Peer(p) \in Parties /\ Peer(Peer(p)) = p /\ \A x \in Parties : x = p \/ x = Peer(p)
  BY TwoPeople
<1> QED BY <1>1 DEF InTurn, TurnOf, Placed

\* Writing keeps the turns and what can be read.
LEMMA EncryptTalks ==
  ASSUME Good, ReadOnce, Talking, NEW p \in Parties, NEW i \in DOMAIN ops[p],
         RatchetEncrypt(p, i), ~Crossed'
  PROVE  Talking'
<1> DEFINE q == Peer(p)
           a == last[p]
           b == last[q]
           k == keys[p] + 1
           t == last'[p]
<1>1. PICK m : sent' = sent \cup {m} /\ m.n \in Nat /\ Writes(p, a, t, m, k)
  BY Encrypts
<1>2. /\ keys' = IF t.myRatchetPub = <<p, k>> THEN [keys EXCEPT ![p] = k] ELSE keys
      /\ t # Nothing /\ \A x \in Parties \ {p} : last'[x] = last[x]
      /\ opened' = opened /\ reach' = reach /\ evicted' = evicted
  BY Encrypts
<1>3. q \in Parties /\ q # p /\ Peer(q) = p /\ \A x \in Parties : x = p \/ x = q
  BY TwoPeople
<1>4. /\ b # Nothing => Reading(p, b, opened[q])
      /\ b = Nothing \/ b.recvMsgNum \in Nat
  BY <1>3 DEF ReadOnce, Reader, Reading, Reads
<1>5. Talks(p) /\ Talks(q) /\ Counted
  BY <1>3 DEF Talking
<1>6. /\ keys \in [Parties -> Nat]
      /\ \A x \in sent : x.from \in Parties /\ x.pub \in {x.from} \X (Nat \ {0})
  BY DEF Good, Shape, Passed, MadeWith
<1>7. \/ \A x \in sent' : x.from = p => Len(x.chain) # 1
      \/ \A x \in sent' : x.from = q => Len(x.chain) # 1
  BY <1>3 DEF Crossed
<1>8. m.from = p
  BY <1>1 DEF Writes
<1>9. DOMAIN keys' = Parties /\ DOMAIN last' = Parties
  <2>1. DOMAIN keys' = Parties
    BY <1>2, <1>6
  <2>2. DOMAIN last' = Parties
    BY DEF RatchetEncrypt, SaveRatchetState, Good, Shape
  <2> QED BY <2>1, <2>2
<1>10. Counted'
  BY <1>2, <1>5, <1>9 DEF Counted
<1> HIDE DEF t, a, b, k
<1>11. Placed(p, t, b, sent')
  <2>1. \/ \A x \in sent \cup {m} : x.from = p => Len(x.chain) # 1
        \/ \A x \in sent : x.from = q => Len(x.chain) # 1
    BY <1>1, <1>7
  <2>2. Placed(p, t, b, sent \cup {m})
    BY <1>1, <1>2, <1>4, <2>1, WriteTurns DEF a, b, k
  <2> QED BY <1>1, <2>2
<1>12. InTurn'
  <2>1. last'[q] = b
    BY <1>2, <1>3 DEF b
  <2> QED BY <1>11, <2>1, PlacedAgain DEF t
<1>13. SendsWell(p, t, sent') /\ InOrder(p, sent')
  <2>1. a = last[p] /\ k = keys[p] + 1
    BY DEF a, k
  <2>2. t # Nothing /\ m.n \in Nat /\ Writes(p, a, t, m, k)
    BY <1>1, <1>2
  <2>3. SendsWell(p, t, sent \cup {m}) /\ InOrder(p, sent \cup {m})
    BY <2>1, <2>2, WriteSends
  <2> QED BY <1>1, <2>3
<1>14. keys'[p] = Round(t) /\ keys'[q] = keys[q]
  <2>1. Round(t) = t.myRatchetPub[2]
    BY <1>2 DEF Round
  <2>2. CASE t.myRatchetPub = <<p, k>>
    <3>1. keys'[p] = k
      BY <1>2, <1>6, <2>2
    <3> QED BY <1>2, <1>3, <1>6, <2>1, <2>2, <3>1
  <2>3. CASE t.myRatchetPub # <<p, k>>
    <3>1. GoesOn(a, t, m)
      BY <1>1, <2>3 DEF Writes, Begins, StepsOn
    <3>2. a # Nothing /\ t.myRatchetPub = a.myRatchetPub
      BY <3>1 DEF GoesOn
    <3>3. keys[p] = Round(a)
      BY <1>5 DEF Talks, a
    <3>4. keys[p] = a.myRatchetPub[2]
      BY <3>2, <3>3 DEF Round
    <3> QED BY <1>2, <2>1, <2>3, <3>2, <3>4
  <2> QED BY <2>2, <2>3
<1>15. ReadsWell(p, b, sent', opened[q], evicted[q], reach[q])
  <2>1. ReadsWell(p, b, sent, opened[q], evicted[q], reach[q])
    BY <1>3, <1>5 DEF Talks, b
  <2>2. ReadsWell(p, b, sent \cup {m}, opened[q], evicted[q], reach[q])
    BY <1>1, <1>2, <1>4, <2>1, WriteReads DEF a, b, k
  <2> QED BY <1>1, <2>2
<1>16. ReadsWell(q, t, sent', opened[p], evicted[p], reach[p])
  <2>1. CASE GoesOn(a, t, m) \/ StepsOn(a, t, <<p, k>>)
    <3>1. a # Nothing /\ SameReceiver(a, t)
      BY <2>1 DEF GoesOn, StepsOn
    <3>2. ReadsWell(q, a, sent, opened[p], evicted[p], reach[p])
      BY <1>5 DEF Talks, a
    <3>3. Buffer(t) = Buffer(a)
      BY <3>1 DEF SameReceiver, Buffer
    <3> QED BY <1>1, <1>3, <1>8, <3>1, <3>2, <3>3 DEF SameReceiver, ReadsWell, Due
  <2>2. CASE Begins(p, a, t, <<p, k>>)
    <3>1. t.theirRatchetPub = <<q, 0>> /\ t.skippedKeys = <<>>
      BY <2>2 DEF Begins, Identity
    <3>2. Buffer(t) = {}
      BY <3>1 DEF Buffer, ToSet
    <3>3. \A x \in sent' : x.from = q => x \in sent /\ x.pub \in {q} \X (Nat \ {0})
      BY <1>1, <1>3, <1>6, <1>8
    <3>4. \A x \in sent' : x.from = q => x.pub # t.theirRatchetPub /\ x.pub[2] + 1 # t.theirRatchetPub[2]
      BY <3>1, <3>3
    <3> QED BY <3>2, <3>4 DEF ReadsWell, Due
  <2> QED BY <1>1, <2>1, <2>2 DEF Writes
<1>17. SendsWell(q, b, sent') /\ InOrder(q, sent')
  <2>1. SendsWell(q, b, sent) /\ InOrder(q, sent)
    BY <1>5 DEF Talks, b
  <2> QED BY <1>1, <1>3, <1>8, <2>1 DEF SendsWell, InOrder
<1>18. Talks(p)'
  BY <1>2, <1>13, <1>14, <1>16 DEF Talks, t
<1>19. Talks(q)'
  <2>1. last'[q] = b /\ keys'[q] = Round(b)
    BY <1>2, <1>3, <1>5, <1>14 DEF b, Talks
  <2> QED BY <1>2, <1>3, <1>15, <1>17, <2>1 DEF Talks
<1> QED BY <1>3, <1>10, <1>12, <1>18, <1>19 DEF Talking

\* So does opening.
LEMMA DecryptTalks ==
  ASSUME Good, ReadOnce, Talking, NEW p \in Parties, NEW m, NEW out, Opens(p, m, out),
         DOMAIN last' = Parties
  PROVE  Talking'
<1> DEFINE q == Peer(p)
           a == last[p]
           b == last[q]
           k == keys[p] + 1
           t == last'[p]
           n1 == reach'[p]
<1>1. /\ m \in sent /\ m.from = q /\ t # Nothing /\ sent' = sent
      /\ \A x \in Parties \ {p} : last'[x] = last[x]
      /\ opened' = [opened EXCEPT ![p] = @ \cup {m}]
      /\ evicted' = [evicted EXCEPT ![p] = out] /\ evicted[p] \subseteq out
      /\ keys' = IF t.myRatchetPub = <<p, k>> THEN [keys EXCEPT ![p] = k] ELSE keys
  BY DEF Opens
<1>2. q \in Parties /\ q # p /\ Peer(q) = p /\ \A x \in Parties : x = p \/ x = q
  BY TwoPeople
<1>3. Talks(p) /\ Talks(q) /\ Counted
  BY <1>2 DEF Talking
<1>4. keys \in [Parties -> Nat] /\ \A x \in sent : last[x.from] # Nothing
  BY DEF Good, Shape, Passed
<1>5. a # Nothing => /\ Reading(q, a, opened[p]) /\ a.recvMsgNum \in Nat
                     /\ a.myRatchetPub \in {p} \X (Nat \ {0})
  BY DEF ReadOnce, Reader, Reading, Reads, Good, Session, IsSaved, IsState, MadeWith
<1>6. \/ /\ Late(a, t, m) \/ OnChain(a, t, m, out) \/ Answers(p, a, t, m, <<p, k>>, out)
         /\ reach' = reach
      \/ OnNewChain(a, t, m, out) /\ reach' = [reach EXCEPT ![p] = a.recvMsgNum]
  BY DEF Opens
<1>7. /\ opened'[p] = opened[p] \cup {m} /\ opened'[q] = opened[q] /\ DOMAIN opened' = Parties
      /\ evicted'[p] = out /\ evicted'[q] = evicted[q] /\ DOMAIN evicted' = Parties
      /\ DOMAIN keys' = Parties /\ keys'[q] = keys[q]
      /\ keys'[p] = IF t.myRatchetPub = <<p, k>> THEN k ELSE keys[p]
  BY <1>1, <1>2, <1>3, <1>4 DEF Counted
<1>8. /\ reach' \in [Parties -> Nat] /\ reach'[q] = reach[q]
      /\ \/ /\ Late(a, t, m) \/ OnChain(a, t, m, out) \/ Answers(p, a, t, m, <<p, k>>, out)
            /\ n1 = reach[p]
         \/ OnNewChain(a, t, m, out) /\ n1 = a.recvMsgNum
  <2>1. OnNewChain(a, t, m, out) => a # Nothing
    BY DEF OnNewChain
  <2> QED BY <1>2, <1>3, <1>5, <1>6, <2>1 DEF Counted
<1> HIDE DEF t, n1
<1>9. InTurn'
  <2>1. Placed(p, t, b, sent)
    BY <1>1, <1>8, ReadTurns
  <2>2. last'[q] = b
    BY <1>1, <1>2
  <2> QED BY <1>1, <2>1, <2>2, PlacedAgain DEF t
<1>10. ReadsWell(q, t, sent, opened[p] \cup {m}, out, n1)
  BY <1>1, <1>5, <1>8, ReadsOnWell
<1>11. SendsWell(p, t, sent) /\ Round(t) = keys'[p]
  <2>1. CASE Answers(p, a, t, m, <<p, k>>, out)
    <3>1. a = Nothing /\ t.myRatchetPub = <<p, k>>
      BY <2>1 DEF Answers
    <3>2. \A x \in sent : x.from # p
      BY <1>4, <3>1
    <3> QED BY <1>1, <1>7, <3>1, <3>2 DEF SendsWell, Round
  <2>2. CASE ~Answers(p, a, t, m, <<p, k>>, out)
    <3>1. a # Nothing /\ SameSending(a, t)
      BY <1>8, <2>2 DEF Late, OnChain, OnNewChain
    <3>2. SendsWell(p, a, sent) /\ keys[p] = Round(a)
      BY <1>3 DEF Talks
    <3>3. SendsWell(p, t, sent)
      BY <3>1, <3>2 DEF SendsWell, SameSending
    <3>4. keys[p] = a.myRatchetPub[2] /\ t.myRatchetPub = a.myRatchetPub /\ keys[p] \in Nat
      BY <1>4, <3>1, <3>2 DEF Round, SameSending
    <3>5. t.myRatchetPub # <<p, k>>
      BY <3>4
    <3> QED BY <1>1, <1>7, <3>3, <3>4, <3>5 DEF Round
  <2> QED BY <2>1, <2>2
<1>12. Talks(p)'
  <2>1. InOrder(p, sent)
    BY <1>3 DEF Talks
  <2> QED BY <1>1, <1>7, <1>10, <1>11, <2>1 DEF Talks, t, n1
<1>13. Talks(q)'
  <2>1. last'[q] = last[q]
    BY <1>1, <1>2
  <2> QED BY <1>1, <1>2, <1>3, <1>7, <1>8, <2>1 DEF Talks
<1>14. Counted'
  BY <1>7, <1>8 DEF Counted
<1> QED BY <1>2, <1>9, <1>12, <1>13, <1>14 DEF Talking

-----------------------------------------------------------------------------
(* The invariant, in its three parts.                                      *)

LEMMA TalkInit == Init => TalkInv
<1> SUFFICES ASSUME Init PROVE Talking
  BY DEF TalkInv
<1>1. /\ keys = [p \in Parties |-> 0] /\ last = [p \in Parties |-> Nothing] /\ sent = {}
      /\ opened = [p \in Parties |-> {}] /\ evicted = [p \in Parties |-> {}]
      /\ reach = [p \in Parties |-> 0]
  BY DEF Init
<1>2. Counted
  BY <1>1 DEF Counted
<1>3. InTurn
  BY <1>1 DEF InTurn
<1>4. ASSUME NEW p \in Parties PROVE Talks(p)
  BY <1>1 DEF Talks, Round, SendsWell, InOrder, ReadsWell
<1> QED BY <1>2, <1>3, <1>4 DEF Talking

LEMMA TalkStep == RatchetInv /\ ReadInv /\ TalkInv /\ [Next]_vars => TalkInv'
<1> SUFFICES ASSUME RatchetInv, ReadInv, TalkInv, [Next]_vars, ~lost', ~Crossed'
             PROVE  Talking'
  BY DEF TalkInv
<1>1. ASSUME UNCHANGED <<sent, last, keys, opened, reach, evicted>>, ~lost PROVE Talking'
  <2>1. ~Crossed
    BY <1>1 DEF Crossed
  <2>2. Talking
    BY <1>1, <2>1 DEF TalkInv
  <2> QED BY <1>1, <2>2 DEF Talking, Counted, InTurn, TurnOf, Talks
<1>2. CASE UNCHANGED vars
  BY <1>1, <1>2 DEF vars, history
<1>3. ASSUME NEW p \in Parties, NEW op, Begin(p, op) PROVE Talking'
  BY <1>1, <1>3 DEF Begin, LoadRatchetState
<1>4. ASSUME NEW p \in Parties, BeginEncrypt(p) PROVE Talking'
  <2>1. PICK op : op = [kind |-> "encrypt", m |-> [text |-> texts']]
    OBVIOUS
  <2> QED BY <1>3, <1>4, <2>1 DEF BeginEncrypt
<1>5. ASSUME NEW p \in Parties, NEW m \in sent, BeginDecrypt(p, m) PROVE Talking'
  <2>1. PICK op : op = [kind |-> "decrypt", m |-> m]
    OBVIOUS
  <2> QED BY <1>3, <1>5, <2>1 DEF BeginDecrypt
<1>6. ASSUME NEW p \in Parties, NEW i \in DOMAIN ops[p], RatchetEncrypt(p, i) PROVE Talking'
  <2>1. ~lost /\ sent \subseteq sent'
    BY <1>6 DEF RatchetEncrypt
  <2>2. ~Crossed
    BY <2>1 DEF Crossed
  <2> QED BY <1>6, <2>1, <2>2, EncryptTalks DEF RatchetInv, ReadInv, TalkInv
<1>7. ASSUME NEW p \in Parties, NEW i \in DOMAIN ops[p], NEW damaged \in BOOLEAN,
             RatchetDecrypt(p, i, damaged)
      PROVE  Talking'
  <2>1. lost' = lost
    BY <1>7, Zenon DEF RatchetDecrypt, Refused, history
  <2>2. Good /\ ReadOnce /\ DOMAIN last' = Parties
    <3>1. Good' /\ Good /\ ReadOnce
      BY <2>1, RatchetStep DEF RatchetInv, ReadInv
    <3> QED BY <3>1 DEF Good, Shape
  <2>3. CASE UNCHANGED <<sent, last, keys, opened, reach, evicted>>
    BY <1>1, <2>1, <2>3
  <2>4. ASSUME NEW m, NEW out, Opens(p, m, out) PROVE Talking'
    <3>1. sent' = sent
      BY <2>4 DEF Opens
    <3>2. Talking
      BY <2>1, <3>1 DEF Crossed, TalkInv
    <3> QED BY <2>2, <2>4, <3>2, DecryptTalks
  <2> QED BY <1>7, <2>2, <2>3, <2>4, Decrypts
<1>8. ASSUME NEW p \in Parties, NEW landed \in BOOLEAN, PutEnds(p, landed) PROVE Talking'
  BY <1>1, <1>8 DEF PutEnds, history
<1>9. ASSUME NEW p \in Parties, LateLands(p) PROVE Talking'
  BY <1>1, <1>9 DEF LateLands, history
<1>10. ASSUME NEW p \in Parties, Leave(p) PROVE Talking'
  BY <1>1, <1>10 DEF Leave, history
<1>11. ASSUME NEW p \in Parties, Reload(p) \/ SignOut(p) PROVE Talking'
  BY <1>10, <1>11 DEF Reload, SignOut
<1> QED BY <1>2, <1>4, <1>5, <1>6, <1>7, <1>8, <1>9, <1>11 DEF Next

LEMMA TalkInvariant == Spec => [](RatchetInv /\ ReadInv /\ TalkInv)
<1> QED BY ReadInvariant, TalkInit, TalkStep, PTL DEF Spec

-----------------------------------------------------------------------------
(* Every chain of a conversation starts with the same key agreement.       *)

\* All chains that session s of person p has, keeps keys of, has sent on and
\* has read on start as its root does.
FromOne(p, s, msgs, read) ==
    s # Nothing =>
    /\ s.sendChain[1] = s.rootKey[1]
    /\ s.recvChain # NoChain => s.recvChain[1] = s.rootKey[1]
    /\ \A k \in Buffer(s) : k.chain[1] = s.rootKey[1]
    /\ \A m \in msgs : m.from = p => m.chain[1] = s.rootKey[1]
    /\ \A m \in read : m.chain[1] = s.rootKey[1]

OneStart == \A p \in Parties : FromOne(p, last[p], sent, opened[p])
StartInv == ~lost => OneStart

LEMMA FirstStays ==
  ASSUME NEW root \in Seq(SUBSET Pairs), Len(root) >= 1, NEW k1 \in Pairs, NEW k2 \in Pairs
  PROVE  Append(root, {k1, k2})[1] = root[1]
<1>1. {k1, k2} \in SUBSET Pairs
  OBVIOUS
<1>2. 1 \in 1..Len(root)
  BY LenProperties
<1> QED BY <1>1, <1>2, AppendProperties

LEMMA WriteStarts ==
  ASSUME NEW p \in Parties, NEW s, NEW t, NEW m, NEW k \in Nat, Writes(p, s, t, m, k),
         NEW msgs, NEW read, FromOne(p, s, msgs, read),
         s # Nothing => IsState(p, s),
         s = Nothing => read = {} /\ \A x \in msgs : x.from # p
  PROVE  FromOne(p, t, msgs \cup {m}, read)
<1> DEFINE fresh == <<p, k>>
<1>1. m.chain = t.sendChain
  BY DEF Writes
<1>2. CASE Begins(p, s, t, fresh)
  <2>1. t.sendChain = t.rootKey /\ t.recvChain = NoChain /\ t.skippedKeys = <<>> /\ s = Nothing
    BY <1>2 DEF Begins
  <2>2. Buffer(t) = {}
    BY <2>1 DEF Buffer, ToSet
  <2> QED BY <1>1, <2>1, <2>2 DEF FromOne
<1>3. CASE StepsOn(s, t, fresh)
  <2>1. s # Nothing /\ t.sendChain = t.rootKey /\ SameReceiver(s, t)
        /\ t.rootKey = Append(s.rootKey, {fresh, s.theirRatchetPub})
    BY <1>3 DEF StepsOn
  <2>2. s.rootKey \in Seq(SUBSET Pairs) /\ Len(s.rootKey) >= 1 /\ s.theirRatchetPub \in Pairs
        /\ fresh \in Pairs
    BY <2>1, TwoPeople DEF IsState, Mine, Pairs
  <2>3. t.rootKey[1] = s.rootKey[1]
    BY <2>1, <2>2, FirstStays
  <2>4. Buffer(t) = Buffer(s) /\ t.recvChain = s.recvChain
    BY <2>1 DEF SameReceiver, Buffer
  <2> QED BY <1>1, <2>1, <2>3, <2>4 DEF FromOne
<1>4. CASE GoesOn(s, t, m)
  <2>1. s # Nothing /\ t.sendChain = s.sendChain /\ t.rootKey = s.rootKey /\ SameReceiver(s, t)
    BY <1>4 DEF GoesOn
  <2>2. Buffer(t) = Buffer(s) /\ t.recvChain = s.recvChain
    BY <2>1 DEF SameReceiver, Buffer
  <2> QED BY <1>1, <2>1, <2>2 DEF FromOne
<1> QED BY <1>2, <1>3, <1>4 DEF Writes

LEMMA OpenStarts ==
  ASSUME NEW p \in Parties, NEW s, NEW t, NEW m, NEW k \in Nat, NEW out,
         \/ Late(s, t, m)
         \/ OnChain(s, t, m, out)
         \/ Answers(p, s, t, m, <<p, k>>, out)
         \/ OnNewChain(s, t, m, out),
         m.pub \in Pairs, Mine(Peer(p), m.chain),
         NEW msgs, NEW read, FromOne(p, s, msgs, read),
         s # Nothing => IsState(p, s),
         s = Nothing => read = {} /\ \A x \in msgs : x.from # p
  PROVE  FromOne(p, t, msgs, read \cup {m})
<1> DEFINE fresh == <<p, k>>
<1>1. m.chain # NoChain /\ m.chain \in Seq(SUBSET Pairs) /\ Len(m.chain) >= 1
  BY DEF Mine, NoChain
<1>2. CASE Late(s, t, m)
  <2>1. /\ s # Nothing /\ t.rootKey = s.rootKey /\ t.sendChain = s.sendChain
        /\ t.recvChain = s.recvChain /\ Buffer(t) \subseteq Buffer(s)
    BY <1>2 DEF Late, SameSending
  <2>2. m.chain[1] = s.rootKey[1]
    BY <1>2, <2>1 DEF Late, FromOne
  <2> QED BY <2>1, <2>2 DEF FromOne
<1>3. CASE OnChain(s, t, m, out)
  <2>1. /\ s # Nothing /\ t.rootKey = s.rootKey /\ t.sendChain = s.sendChain
        /\ s.recvChain = m.chain /\ t.recvChain = m.chain
        /\ Buffer(t) \subseteq Buffer(s) \cup Run(m.pub, m.chain, s.recvMsgNum, m.n)
    BY <1>3 DEF OnChain, SameSending, Keeps
  <2>2. m.chain[1] = s.rootKey[1]
    BY <1>1, <2>1 DEF FromOne
  <2>3. \A x \in Buffer(t) : x.chain[1] = s.rootKey[1]
    BY <2>1, <2>2, InRun DEF FromOne
  <2> QED BY <2>1, <2>2, <2>3 DEF FromOne
<1>4. CASE OnNewChain(s, t, m, out)
  <2>1. /\ s # Nothing /\ t.rootKey = m.chain /\ t.sendChain = s.sendChain
        /\ m.chain = Append(s.rootKey, {m.pub, s.myRatchetPub}) /\ t.recvChain = m.chain
        /\ Buffer(t) \subseteq Ended(s, m.pn) \cup Run(m.pub, m.chain, 0, m.n)
    BY <1>4 DEF OnNewChain, SameSending, Keeps
  <2>2. s.rootKey \in Seq(SUBSET Pairs) /\ Len(s.rootKey) >= 1 /\ s.myRatchetPub \in Pairs
    BY <2>1 DEF IsState, Mine, MadeWith, Pairs
  <2>3. m.chain[1] = s.rootKey[1]
    BY <2>1, <2>2, FirstStays
  <2>4. \A x \in Ended(s, m.pn) : x.chain[1] = s.rootKey[1]
    BY <2>1, InRun DEF Ended, FromOne
  <2>5. ASSUME NEW x \in Buffer(t) PROVE x.chain[1] = s.rootKey[1]
    <3>1. CASE x \in Ended(s, m.pn)
      BY <2>4, <3>1
    <3>2. CASE x \in Run(m.pub, m.chain, 0, m.n)
      <4>1. x.chain = m.chain
        BY <3>2, InRun
      <4> QED BY <2>3, <4>1
    <3> QED BY <2>1, <3>1, <3>2
  <2> QED BY <2>1, <2>3, <2>5 DEF FromOne
<1>5. CASE Answers(p, s, t, m, fresh, out)
  <2>1. /\ s = Nothing /\ t.rootKey = Append(m.chain, {m.pub, fresh}) /\ t.sendChain = t.rootKey
        /\ t.recvChain = m.chain /\ Buffer(t) \subseteq Run(m.pub, m.chain, 0, m.n)
    BY <1>5 DEF Answers, Keeps
  <2>2. fresh \in Pairs
    BY DEF Pairs
  <2>3. t.rootKey[1] = m.chain[1]
    BY <1>1, <2>1, <2>2, FirstStays
  <2>4. \A x \in Buffer(t) : x.chain[1] = m.chain[1]
    BY <2>1, InRun
  <2> QED BY <2>1, <2>3, <2>4 DEF FromOne
<1> QED BY <1>2, <1>3, <1>4, <1>5

\* A person without a session has neither sent nor opened anything.
LEMMA NothingYet ==
  ASSUME Good, ReadOnce, NEW p \in Parties
  PROVE  /\ last[p] # Nothing => IsState(p, last[p])
         /\ last[p] = Nothing => opened[p] = {} /\ \A x \in sent : x.from # p
  BY DEF Good, Session, IsSaved, Passed, ReadOnce, Reader

LEMMA EncryptStarts ==
  ASSUME Good, ReadOnce, OneStart, NEW p \in Parties, NEW i \in DOMAIN ops[p], RatchetEncrypt(p, i)
  PROVE  OneStart'
<1>1. PICK m : sent' = sent \cup {m} /\ Writes(p, last[p], last'[p], m, keys[p] + 1)
  BY Encrypts
<1>2. opened' = opened /\ \A x \in Parties \ {p} : last'[x] = last[x]
  BY Encrypts
<1>3. keys[p] + 1 \in Nat
  BY DEF Good, Shape
<1>4. m.from = p
  BY <1>1 DEF Writes
<1>5. FromOne(p, last'[p], sent \cup {m}, opened[p])
  <2> DEFINE s == last[p]  t == last'[p]  k == keys[p] + 1  read == opened[p]
  <2>1. /\ s # Nothing => IsState(p, s)
        /\ s = Nothing => read = {} /\ \A x \in sent : x.from # p
    BY NothingYet
  <2>2. FromOne(p, s, sent, read) /\ Writes(p, s, t, m, k) /\ k \in Nat
    BY <1>1, <1>3 DEF OneStart
  <2> HIDE DEF s, t, k, read
  <2>3. FromOne(p, t, sent \cup {m}, read)
    BY <2>1, <2>2, WriteStarts
  <2> QED BY <2>3 DEF t, read
<1>6. ASSUME NEW x \in Parties, x # p PROVE FromOne(x, last'[x], sent \cup {m}, opened[x])
  <2>1. FromOne(x, last[x], sent, opened[x]) /\ last'[x] = last[x]
    BY <1>2, <1>6 DEF OneStart
  <2> QED BY <1>4, <1>6, <2>1 DEF FromOne
<1> QED BY <1>1, <1>2, <1>5, <1>6 DEF OneStart

LEMMA DecryptStarts ==
  ASSUME Good, ReadOnce, OneStart, NEW p \in Parties, NEW m, NEW out, Opens(p, m, out)
  PROVE  OneStart'
<1>1. /\ m \in sent /\ m.from = Peer(p) /\ sent' = sent
      /\ \A x \in Parties \ {p} : last'[x] = last[x]
      /\ opened' = [opened EXCEPT ![p] = @ \cup {m}]
  BY DEF Opens
<1>2. opened'[p] = opened[p] \cup {m} /\ \A x \in Parties \ {p} : opened'[x] = opened[x]
  BY <1>1 DEF ReadOnce
<1>3. m.pub \in Pairs /\ Mine(Peer(p), m.chain)
  BY <1>1, TwoPeople DEF Good, Passed, MadeWith, Pairs
<1>4. keys[p] + 1 \in Nat
  BY DEF Good, Shape
<1>5. FromOne(p, last'[p], sent, opened[p] \cup {m})
  <2> DEFINE s == last[p]  t == last'[p]  k == keys[p] + 1  read == opened[p]
  <2>1. /\ s # Nothing => IsState(p, s)
        /\ s = Nothing => read = {} /\ \A x \in sent : x.from # p
    BY NothingYet
  <2>2. FromOne(p, s, sent, read) /\ k \in Nat
    BY <1>4 DEF OneStart
  <2>3. \/ Late(s, t, m)
        \/ OnChain(s, t, m, out)
        \/ Answers(p, s, t, m, <<p, k>>, out)
        \/ OnNewChain(s, t, m, out)
    BY DEF Opens
  <2> HIDE DEF s, t, k, read
  <2>4. FromOne(p, t, sent, read \cup {m})
    BY <1>3, <2>1, <2>2, <2>3, OpenStarts
  <2> QED BY <2>4 DEF t, read
<1>6. ASSUME NEW x \in Parties, x # p PROVE FromOne(x, last'[x], sent, opened'[x])
  BY <1>1, <1>2, <1>6 DEF OneStart
<1> QED BY <1>1, <1>2, <1>5, <1>6 DEF OneStart

LEMMA StartStep == RatchetInv /\ ReadInv /\ StartInv /\ [Next]_vars => StartInv'
<1> SUFFICES ASSUME RatchetInv, ReadInv, StartInv, [Next]_vars, ~lost' PROVE OneStart'
  BY DEF StartInv
<1>1. ASSUME UNCHANGED <<sent, last, opened>>, ~lost PROVE OneStart'
  BY <1>1 DEF StartInv, OneStart
<1>2. CASE UNCHANGED vars
  BY <1>1, <1>2 DEF vars, history
<1>3. ASSUME NEW p \in Parties, NEW op, Begin(p, op) PROVE OneStart'
  BY <1>1, <1>3 DEF Begin, LoadRatchetState
<1>4. ASSUME NEW p \in Parties, BeginEncrypt(p) PROVE OneStart'
  <2>1. PICK op : op = [kind |-> "encrypt", m |-> [text |-> texts']]
    OBVIOUS
  <2> QED BY <1>3, <1>4, <2>1 DEF BeginEncrypt
<1>5. ASSUME NEW p \in Parties, NEW m \in sent, BeginDecrypt(p, m) PROVE OneStart'
  <2>1. PICK op : op = [kind |-> "decrypt", m |-> m]
    OBVIOUS
  <2> QED BY <1>3, <1>5, <2>1 DEF BeginDecrypt
<1>6. ASSUME NEW p \in Parties, NEW i \in DOMAIN ops[p], RatchetEncrypt(p, i) PROVE OneStart'
  <2>1. ~lost
    BY <1>6 DEF RatchetEncrypt
  <2> QED BY <1>6, <2>1, EncryptStarts DEF RatchetInv, ReadInv, StartInv
<1>7. ASSUME NEW p \in Parties, NEW i \in DOMAIN ops[p], NEW damaged \in BOOLEAN,
             RatchetDecrypt(p, i, damaged)
      PROVE  OneStart'
  <2>1. lost' = lost
    BY <1>7, Zenon DEF RatchetDecrypt, Refused, history
  <2>2. Good /\ ReadOnce /\ OneStart /\ ~lost
    BY <2>1 DEF RatchetInv, ReadInv, StartInv
  <2>3. CASE UNCHANGED <<sent, last, keys, opened, reach, evicted>>
    BY <1>1, <2>2, <2>3
  <2>4. ASSUME NEW m, NEW out, Opens(p, m, out) PROVE OneStart'
    BY <2>2, <2>4, DecryptStarts
  <2> QED BY <1>7, <2>2, <2>3, <2>4, Decrypts
<1>8. ASSUME NEW p \in Parties, NEW landed \in BOOLEAN, PutEnds(p, landed) PROVE OneStart'
  BY <1>1, <1>8 DEF PutEnds, history
<1>9. ASSUME NEW p \in Parties, LateLands(p) PROVE OneStart'
  BY <1>1, <1>9 DEF LateLands, history
<1>10. ASSUME NEW p \in Parties, Leave(p) PROVE OneStart'
  BY <1>1, <1>10 DEF Leave, history
<1>11. ASSUME NEW p \in Parties, Reload(p) \/ SignOut(p) PROVE OneStart'
  BY <1>10, <1>11 DEF Reload, SignOut
<1> QED BY <1>2, <1>4, <1>5, <1>6, <1>7, <1>8, <1>9, <1>11 DEF Next

LEMMA StartInvariant == Spec => [](RatchetInv /\ ReadInv /\ StartInv)
<1>1. Init => StartInv
  BY DEF Init, StartInv, OneStart, FromOne
<1> QED BY <1>1, ReadInvariant, StartStep, PTL DEF Spec

\* A new receiving chain is read from its start.
LEMMA NewChainStarts ==
  ASSUME NEW s, NEW pub, NEW pn, Fields \subseteq DOMAIN s
  PROVE  LET r == DhRatchetReceive(s, pub, pn) IN
         r.recvMsgNum = 0 /\ r.recvChain = Append(s.rootKey, {pub, s.myRatchetPub})
<1> DEFINE u == Retire(s, pn)
           root == Append(s.rootKey, {pub, s.myRatchetPub})
           t == [u EXCEPT !.rootKey = root, !.recvChain = root, !.recvMsgNum = 0,
                          !.theirRatchetPub = pub, !.pendingDhRatchet = TRUE]
<1>1. DhRatchetReceive(s, pub, pn) = t
  BY Zenon DEF DhRatchetReceive, KdfRk, Dh
<1>2. Fields \subseteq DOMAIN u
  BY RetireKeeps
<1> HIDE DEF u, root
<1>3. t.recvMsgNum = 0 /\ t.recvChain = root
  BY <1>2 DEF Fields
<1> QED BY <1>1, <1>3 DEF root

\* When a message for which no key was kept opens.
LEMMA OpensOnChain ==
  ASSUME NEW p, NEW s, NEW m, NEW fresh, s = Nothing \/ Kept(s, m) = {}
  PROVE  LET r == ReadState(p, s, m, fresh) IN
         /\ m.n >= r.recvMsgNum /\ m.n - r.recvMsgNum <= MaxSkip /\ r.recvChain = m.chain
            => Decrypted(p, s, m, fresh).opens
BY DEF Decrypted

-----------------------------------------------------------------------------
(* Types: also of sessions that were lost.                                 *)

\* A key kept for a late message, and a session.
LateKey == [pub : Keys, n : 0..MaxTexts, chain : Chains]
Sessions == [ver : Nat, rootKey : Chains, myRatchetPub : Keys, theirRatchetPub : Keys,
             pendingDhRatchet : BOOLEAN, sendChain : Chains, sendMsgNum : 0..MaxTexts,
             sendPrevLen : 0..MaxTexts, recvChain : Chains, recvMsgNum : 0..MaxTexts,
             skippedKeys : Seq(LateKey)]

\* A ratchet step keeps the types, and what the numbers of a chain are.
LEMMA RootTyped ==
  ASSUME NEW root \in Chains, NEW k \in Keys, NEW l \in Keys
  PROVE  KdfRk(root, Dh(k, l)) \in Chains /\ <<>> \in Chains
<1> DEFINE d == {k, l}
<1>1. d \in SUBSET Keys /\ root \in Seq(SUBSET Keys)
  BY DEF Chains
<1> HIDE DEF d
<1>2. Append(root, d) \in Seq(SUBSET Keys) /\ <<>> \in Seq(SUBSET Keys)
  BY <1>1
<1> QED BY <1>2 DEF Chains, KdfRk, Dh, d

LEMMA SkipTyped ==
  ASSUME NEW s \in Sessions, NEW stop \in 0..MaxTexts
  PROVE  LET t == SkipTo(s, stop) IN
         /\ t \in Sessions
         /\ t.recvMsgNum = IF s.recvMsgNum >= stop THEN s.recvMsgNum ELSE stop
         /\ t.sendMsgNum = s.sendMsgNum /\ t.myRatchetPub = s.myRatchetPub
<1> DEFINE n == s.recvMsgNum
           pub == s.theirRatchetPub
           chain == s.recvChain
           more == Between(pub, chain, n, stop)
           all == s.skippedKeys \o more
           t == [s EXCEPT !.recvMsgNum = stop, !.skippedKeys = all]
<1>1. /\ n \in 0..MaxTexts /\ pub \in Keys /\ chain \in Chains
      /\ s.skippedKeys \in Seq(LateKey) /\ MaxTexts \in Nat
  BY RatchetAssumption DEF Sessions
<1>2. CASE n >= stop
  BY <1>2 DEF SkipTo
<1>3. CASE ~(n >= stop)
  <2>1. SkipTo(s, stop) = t
    BY <1>3, Zenon DEF SkipTo, Between
  <2> HIDE DEF n, pub, chain
  <2>2. \A i \in 1..(stop - n) : Skipped(pub, n + i - 1, chain) \in LateKey
    <3> SUFFICES ASSUME NEW i \in 1..(stop - n)
                 PROVE  Skipped(pub, n + i - 1, chain) \in LateKey
      OBVIOUS
    <3> DEFINE j == n + i - 1
    <3>1. j \in 0..MaxTexts
      BY <1>1, <1>3
    <3> HIDE DEF j
    <3>2. Skipped(pub, j, chain) \in LateKey
      BY <1>1, <3>1 DEF Skipped, LateKey
    <3> QED BY <3>2 DEF j
  <2>3. more \in Seq(LateKey)
    <3> DEFINE S == LateKey
               len == stop - n
    <3>1. len \in Nat
      BY <1>1, <1>3
    <3> HIDE DEF S
    <3>2. more \in [1..len -> S]
      BY <2>2 DEF Between, S
    <3> HIDE DEF more, len
    <3>3. more \in Seq(S)
      BY <3>1, <3>2
    <3> QED BY <3>3 DEF S
  <2> HIDE DEF more
  <2>4. all \in Seq(LateKey)
    <3> DEFINE S == LateKey
               kept == s.skippedKeys
    <3>1. kept \in Seq(S) /\ more \in Seq(S)
      BY <1>1, <2>3
    <3> HIDE DEF S, kept
    <3>2. kept \o more \in Seq(S)
      BY <3>1
    <3> QED BY <3>2 DEF S, kept
  <2> HIDE DEF all
  <2>5. /\ t \in Sessions /\ t.recvMsgNum = stop /\ t.sendMsgNum = s.sendMsgNum
        /\ t.myRatchetPub = s.myRatchetPub
    BY <2>4 DEF Sessions
  <2> HIDE DEF t
  <2> QED BY <1>3, <2>1, <2>5 DEF n
<1> QED BY <1>2, <1>3

LEMMA CapTyped ==
  ASSUME NEW S, NEW kept \in Seq(S)
  PROVE  CapSkippedKeys(kept) \in Seq(S) /\ Len(CapSkippedKeys(kept)) <= MaxSkippedKeys
<1> DEFINE few == SubSeq(kept, Len(kept) - MaxSkippedKeys + 1, Len(kept))
<1>1. Len(kept) \in Nat /\ MaxSkippedKeys \in Nat
  BY LenProperties, RatchetAssumption
<1>2. CASE Len(kept) <= MaxSkippedKeys
  BY <1>2 DEF CapSkippedKeys
<1>3. CASE ~(Len(kept) <= MaxSkippedKeys)
  <2>1. \A i \in (Len(kept) - MaxSkippedKeys + 1)..Len(kept) : kept[i] \in S
    BY <1>1, <1>3, ElementOfSeq
  <2>2. few \in Seq(S) /\ Len(few) = MaxSkippedKeys
    BY <1>1, <1>3, <2>1, SubSeqProperties
  <2> HIDE DEF few
  <2>3. CapSkippedKeys(kept) = few
    BY <1>3 DEF CapSkippedKeys, few
  <2> QED BY <1>1, <2>2, <2>3
<1> QED BY <1>2, <1>3

LEMMA RetireTyped ==
  ASSUME NEW s \in Sessions, NEW pn \in 0..MaxTexts
  PROVE  /\ Retire(s, pn) \in Sessions /\ Retire(s, pn).sendMsgNum = s.sendMsgNum
         /\ Retire(s, pn).myRatchetPub = s.myRatchetPub
<1> DEFINE young == {k \in ToSet(s.skippedKeys) : k.pub = s.theirRatchetPub}
           few == Picked(s.skippedKeys, young)
           kept == [s EXCEPT !.skippedKeys = few]
           stop == Least(pn, s.recvMsgNum + MaxSkip)
<1>1. Retire(s, pn) = IF s.recvChain = NoChain THEN kept ELSE SkipTo(kept, stop)
  BY Zenon DEF Retire, Sessions
<1>2. few \in Seq(LateKey)
  <2>1. s.skippedKeys \in Seq(LateKey)
    BY DEF Sessions
  <2> QED BY <2>1, PickedElements
<1> HIDE DEF few
<1>3. kept \in Sessions /\ kept.sendMsgNum = s.sendMsgNum /\ kept.myRatchetPub = s.myRatchetPub
  BY <1>2 DEF Sessions
<1> HIDE DEF kept
<1>4. stop \in 0..MaxTexts
  <2> DEFINE far == s.recvMsgNum + MaxSkip
  <2>1. far \in Nat /\ MaxTexts \in Nat
    BY RatchetAssumption DEF Sessions
  <2> HIDE DEF far
  <2>2. Least(pn, far) \in 0..MaxTexts
    BY <2>1 DEF Least
  <2> QED BY <2>2 DEF far
<1> HIDE DEF stop
<1>5. /\ SkipTo(kept, stop) \in Sessions /\ SkipTo(kept, stop).sendMsgNum = kept.sendMsgNum
      /\ SkipTo(kept, stop).myRatchetPub = kept.myRatchetPub
  BY <1>3, <1>4, SkipTyped
<1> QED BY <1>1, <1>3, <1>5

LEMMA ReceiveTyped ==
  ASSUME NEW s \in Sessions, NEW pub \in Keys, NEW pn \in 0..MaxTexts
  PROVE  LET t == DhRatchetReceive(s, pub, pn) IN
         /\ t \in Sessions /\ t.sendMsgNum = s.sendMsgNum /\ t.recvMsgNum = 0
         /\ t.myRatchetPub = s.myRatchetPub
<1> DEFINE r == Retire(s, pn)
           root == KdfRk(s.rootKey, Dh(pub, s.myRatchetPub))
           t == [r EXCEPT !.rootKey = root, !.recvChain = root, !.recvMsgNum = 0,
                          !.theirRatchetPub = pub, !.pendingDhRatchet = TRUE]
<1>1. DhRatchetReceive(s, pub, pn) = t
  BY Zenon DEF DhRatchetReceive
<1>2. r \in Sessions /\ r.sendMsgNum = s.sendMsgNum /\ r.myRatchetPub = s.myRatchetPub
  BY RetireTyped
<1>3. root \in Chains
  <2>1. s.rootKey \in Chains /\ s.myRatchetPub \in Keys
    BY DEF Sessions
  <2> QED BY <2>1, RootTyped
<1> HIDE DEF r, root
<1>4. 0 \in 0..MaxTexts
  BY RatchetAssumption
<1>5. /\ t \in Sessions /\ t.sendMsgNum = r.sendMsgNum /\ t.recvMsgNum = 0
      /\ t.myRatchetPub = r.myRatchetPub
  BY <1>2, <1>3, <1>4 DEF Sessions
<1> HIDE DEF t
<1> QED BY <1>1, <1>2, <1>5

\* A session that was made for the first message, from either side.
LEMMA FirstTyped ==
  ASSUME NEW p \in Parties, NEW fresh \in Keys, NEW pub \in Keys
  PROVE  /\ InitSenderState(p, fresh) \in Sessions
         /\ InitReceiverState(p, pub, fresh) \in Sessions
<1> DEFINE theirs == Identity(Peer(p))
           root1 == KdfRk(ZeroRoot, Dh(fresh, theirs))
           root2 == KdfRk(ZeroRoot, Dh(pub, Identity(p)))
           next == KdfRk(root2, Dh(pub, fresh))
<1>1. Identity(p) \in Keys /\ theirs \in Keys
  BY TwoPeople, RatchetAssumption DEF Identity, Keys
<1>2. ZeroRoot \in Chains /\ 0 \in 0..MaxTexts
  BY RatchetAssumption DEF Chains, ZeroRoot
<1> HIDE DEF theirs
<1>3. root1 \in Chains /\ root2 \in Chains /\ NoChain \in Chains
  BY <1>1, <1>2, RootTyped DEF NoChain
<1> HIDE DEF root1, root2
<1>4. next \in Chains
  BY <1>3, RootTyped
<1> HIDE DEF next
<1>5. <<>> \in Seq(LateKey)
  BY EmptySeq
<1>6. [ver |-> 0, rootKey |-> root1, myRatchetPub |-> fresh,
       theirRatchetPub |-> theirs, pendingDhRatchet |-> FALSE,
       sendChain |-> root1, sendMsgNum |-> 0, sendPrevLen |-> 0,
       recvChain |-> NoChain, recvMsgNum |-> 0, skippedKeys |-> <<>>] \in Sessions
  BY <1>1, <1>2, <1>3, <1>5 DEF Sessions
<1>7. [ver |-> 0, rootKey |-> next, myRatchetPub |-> fresh,
       theirRatchetPub |-> pub, pendingDhRatchet |-> FALSE,
       sendChain |-> next, sendMsgNum |-> 0, sendPrevLen |-> 0,
       recvChain |-> root2, recvMsgNum |-> 0, skippedKeys |-> <<>>] \in Sessions
  BY <1>2, <1>3, <1>4, <1>5 DEF Sessions
<1> QED BY <1>6, <1>7, Zenon DEF InitSenderState, InitReceiverState, root1, root2, next, theirs

\* What a text is encrypted with.
LEMMA SendTyped ==
  ASSUME NEW p \in Parties, NEW s, s = Nothing \/ s \in Sessions, NEW fresh \in Keys,
         s # Nothing => Len(s.skippedKeys) <= MaxSkippedKeys
  PROVE  LET t == SendState(p, s, fresh) IN
         /\ t \in Sessions /\ Len(t.skippedKeys) <= MaxSkippedKeys
         /\ t.sendMsgNum = 0 \/ (s # Nothing /\ t.sendMsgNum = s.sendMsgNum)
         /\ t.myRatchetPub = fresh \/ (s # Nothing /\ t.myRatchetPub = s.myRatchetPub)
<1>1. CASE s = Nothing
  <2>1. SendState(p, s, fresh) = InitSenderState(p, fresh)
    BY <1>1 DEF SendState
  <2>2. /\ InitSenderState(p, fresh).skippedKeys = <<>>
        /\ InitSenderState(p, fresh).sendMsgNum = 0
        /\ InitSenderState(p, fresh).myRatchetPub = fresh
    BY DEF InitSenderState
  <2>3. Len(<<>>) <= MaxSkippedKeys
    BY RatchetAssumption
  <2> QED BY <2>1, <2>2, <2>3, FirstTyped
<1>2. CASE s # Nothing /\ s.pendingDhRatchet
  <2> DEFINE root == KdfRk(s.rootKey, Dh(fresh, s.theirRatchetPub))
             n == s.sendMsgNum
             t == [s EXCEPT !.sendPrevLen = n, !.sendChain = root, !.sendMsgNum = 0,
                            !.rootKey = root, !.myRatchetPub = fresh, !.pendingDhRatchet = FALSE]
  <2>1. SendState(p, s, fresh) = t
    BY <1>2, Zenon DEF SendState, DhRatchetSend
  <2>2. /\ s \in Sessions /\ s.rootKey \in Chains /\ s.theirRatchetPub \in Keys
        /\ n \in 0..MaxTexts /\ 0 \in 0..MaxTexts
    BY <1>2, RatchetAssumption DEF Sessions
  <2>3. root \in Chains
    BY <2>2, RootTyped
  <2> HIDE DEF root, n
  <2>4. /\ t \in Sessions /\ t.skippedKeys = s.skippedKeys /\ t.sendMsgNum = 0
        /\ t.myRatchetPub = fresh
    BY <2>2, <2>3 DEF Sessions
  <2> HIDE DEF t
  <2> QED BY <1>2, <2>1, <2>4
<1>3. CASE s # Nothing /\ ~s.pendingDhRatchet
  <2>1. SendState(p, s, fresh) = s
    BY <1>3 DEF SendState
  <2> QED BY <1>3, <2>1
<1> QED BY <1>1, <1>2, <1>3

\* What opening a message leaves.
LEMMA DecryptedTyped ==
  ASSUME NEW p \in Parties, NEW s, s = Nothing \/ s \in Sessions, NEW fresh,
         s = Nothing => fresh \in Keys,
         s # Nothing => Len(s.skippedKeys) <= MaxSkippedKeys,
         NEW m, m.pub \in Keys, m.n \in 0..MaxTexts, m.n + 1 <= MaxTexts, m.pn \in 0..MaxTexts,
         Decrypted(p, s, m, fresh).opens
  PROVE  LET d == Decrypted(p, s, m, fresh)
             t == d.state IN
         /\ t \in Sessions /\ Len(t.skippedKeys) <= MaxSkippedKeys
         /\ t.sendMsgNum = 0 \/ (s # Nothing /\ t.sendMsgNum = s.sendMsgNum)
         /\ s = Nothing => t.myRatchetPub = fresh
         /\ s # Nothing => t.myRatchetPub = s.myRatchetPub
         /\ d.dropped \subseteq LateKey
<1> DEFINE d == Decrypted(p, s, m, fresh)
           r == ReadState(p, s, m, fresh)
           u == SkipTo(r, m.n)
           cut == CapSkippedKeys(u.skippedKeys)
           num == u.recvMsgNum + 1
           t == [u EXCEPT !.recvMsgNum = num, !.skippedKeys = cut]
<1>1. MaxTexts \in Nat /\ 0 \in 0..MaxTexts
  BY RatchetAssumption
<1>2. CASE s # Nothing /\ Kept(s, m) # {}
  <2> DEFINE j == CHOOSE j \in Kept(s, m) : TRUE
             rest == RemoveAt(s.skippedKeys, j)
             v == [s EXCEPT !.skippedKeys = rest]
  <2>1. d.state = v /\ d.dropped = {}
    BY <1>2 DEF Decrypted, UseKept
  <2>2. s \in Sessions /\ s.skippedKeys \in Seq(LateKey)
    BY <1>2 DEF Sessions
  <2>3. j \in 1..Len(s.skippedKeys) /\ Len(s.skippedKeys) \in Nat
    <3>1. DOMAIN s.skippedKeys = 1..Len(s.skippedKeys) /\ Len(s.skippedKeys) \in Nat
      BY <2>2, LenProperties
    <3> QED BY <1>2, <3>1 DEF Kept
  <2>4. rest \in Seq(LateKey) /\ Len(rest) = Len(s.skippedKeys) - 1
    <3> HIDE DEF j
    <3> QED BY <2>2, <2>3, RemoveLeaves
  <2>5. Len(rest) \in Nat /\ Len(rest) <= MaxSkippedKeys
    <3>1. Len(rest) \in Nat
      BY <2>4, LenProperties
    <3> QED BY <1>2, <2>3, <2>4, <3>1, RatchetAssumption
  <2> HIDE DEF rest
  <2>6. /\ v \in Sessions /\ v.skippedKeys = rest /\ v.sendMsgNum = s.sendMsgNum
        /\ v.myRatchetPub = s.myRatchetPub
    BY <2>2, <2>4 DEF Sessions
  <2> HIDE DEF v
  <2> QED BY <1>2, <2>1, <2>5, <2>6
<1>3. CASE s = Nothing \/ Kept(s, m) = {}
  <2>1. /\ d.state = t /\ d.dropped = ToSet(u.skippedKeys) \ ToSet(cut)
        /\ m.n >= r.recvMsgNum
    BY <1>3, Zenon DEF Decrypted
  <2>2. /\ r \in Sessions /\ (r.sendMsgNum = 0 \/ (s # Nothing /\ r.sendMsgNum = s.sendMsgNum))
        /\ s = Nothing => r.myRatchetPub = fresh
        /\ s # Nothing => r.myRatchetPub = s.myRatchetPub
    <3>1. CASE s = Nothing
      <4>1. r = InitReceiverState(p, m.pub, fresh)
        BY <3>1 DEF ReadState
      <4>2. /\ InitReceiverState(p, m.pub, fresh).sendMsgNum = 0
            /\ InitReceiverState(p, m.pub, fresh).myRatchetPub = fresh
        BY DEF InitReceiverState
      <4> QED BY <3>1, <4>1, <4>2, FirstTyped
    <3>2. CASE s # Nothing /\ m.pub # s.theirRatchetPub
      <4>1. r = DhRatchetReceive(s, m.pub, m.pn)
        BY <3>2 DEF ReadState
      <4> QED BY <3>2, <4>1, ReceiveTyped
    <3>3. CASE s # Nothing /\ m.pub = s.theirRatchetPub
      <4>1. r = s
        BY <3>3 DEF ReadState
      <4> QED BY <3>3, <4>1
    <3> QED BY <3>1, <3>2, <3>3
  <2> HIDE DEF r
  <2>3. /\ u \in Sessions /\ u.sendMsgNum = r.sendMsgNum /\ u.recvMsgNum = m.n
        /\ u.myRatchetPub = r.myRatchetPub
    <3>1. u \in Sessions /\ u.sendMsgNum = r.sendMsgNum /\ u.myRatchetPub = r.myRatchetPub
          /\ u.recvMsgNum = IF r.recvMsgNum >= m.n THEN r.recvMsgNum ELSE m.n
      BY <2>2, SkipTyped
    <3>2. r.recvMsgNum \in Nat
      BY <2>2 DEF Sessions
    <3> QED BY <2>1, <3>1, <3>2
  <2>4. u.skippedKeys \in Seq(LateKey)
    BY <2>3 DEF Sessions
  <2> HIDE DEF u
  <2>5. cut \in Seq(LateKey) /\ Len(cut) <= MaxSkippedKeys
    BY <2>4, CapTyped
  <2> HIDE DEF cut
  <2>6. num \in 0..MaxTexts
    BY <1>1, <2>3
  <2> HIDE DEF num
  <2>7. /\ t \in Sessions /\ t.skippedKeys = cut /\ t.sendMsgNum = u.sendMsgNum
        /\ t.myRatchetPub = u.myRatchetPub
    BY <2>3, <2>5, <2>6 DEF Sessions
  <2> HIDE DEF t
  <2>8. ToSet(u.skippedKeys) \subseteq LateKey
    BY <2>4, ElementOfSeq, LenProperties DEF ToSet
  <2> QED BY <2>1, <2>2, <2>3, <2>5, <2>7, <2>8
<1> QED BY <1>2, <1>3

\* At most two writes of a copy wait.
Two(s) == s = <<>> \/ (\E a : s = <<a>>) \/ \E a, b : s = <<a, b>>

LEMMA TwoElements ==
  ASSUME NEW s, Two(s)
  PROVE  /\ Len(s) <= 2
         /\ s # <<>> => Head(s) \in ToSet(s) /\ Two(Tail(s)) /\ ToSet(Tail(s)) \subseteq ToSet(s)
<1>1. CASE s = <<>>
  BY <1>1
<1>2. ASSUME NEW a, s = <<a>>
      PROVE  Len(s) <= 2 /\ Head(s) \in ToSet(s) /\ Two(Tail(s)) /\ ToSet(Tail(s)) \subseteq ToSet(s)
  <2>1. Len(s) = 1 /\ s[1] = a /\ DOMAIN s = 1..1
    BY <1>2
  <2>2. Head(s) = a /\ Tail(s) = <<>>
    BY <1>2, OneOrTwo
  <2>3. ToSet(<<>>) = {} /\ a \in ToSet(s)
    BY <2>1 DEF ToSet
  <2>4. Len(s) <= 2 /\ Head(s) \in ToSet(s)
    BY <2>1, <2>2, <2>3
  <2>5. Two(Tail(s))
    BY <2>2 DEF Two
  <2>6. ToSet(Tail(s)) \subseteq ToSet(s)
    <3>1. ToSet(Tail(s)) = {}
      BY <2>2, <2>3
    <3> QED BY <3>1
  <2> QED BY <2>4, <2>5, <2>6
<1>3. ASSUME NEW a, NEW b, s = <<a, b>>
      PROVE  Len(s) <= 2 /\ Head(s) \in ToSet(s) /\ Two(Tail(s)) /\ ToSet(Tail(s)) \subseteq ToSet(s)
  <2>1. Len(s) = 2 /\ s[1] = a /\ s[2] = b /\ DOMAIN s = 1..2
    BY <1>3
  <2>2. Head(s) = a /\ Tail(s) = <<b>>
    BY <1>3, OneOrTwo
  <2>3. ToSet(<<b>>) = {b} /\ a \in ToSet(s) /\ b \in ToSet(s)
    BY <2>1 DEF ToSet
  <2>4. Len(s) <= 2 /\ Head(s) \in ToSet(s)
    BY <2>1, <2>2, <2>3
  <2>5. Two(Tail(s))
    BY <2>2 DEF Two
  <2>6. ToSet(Tail(s)) \subseteq ToSet(s)
    <3>1. ToSet(Tail(s)) = {b}
      BY <2>2, <2>3
    <3> QED BY <2>3, <3>1
  <2> QED BY <2>4, <2>5, <2>6
<1> QED BY <1>1, <1>2, <1>3 DEF Two

\* The write queue after one more write.
LEMMA EnqueueTwo ==
  ASSUME NEW p \in Parties, NEW s, Two(puts[p])
  PROVE  Two(Enqueue(p, s)) /\ ToSet(Enqueue(p, s)) \subseteq ToSet(puts[p]) \cup {s}
<1>1. CASE p \notin Podded
  BY <1>1 DEF Enqueue, Two, ToSet
<1>2. CASE p \in Podded /\ puts[p] = <<>>
  <2>1. Enqueue(p, s) = <<s>>
    BY <1>2 DEF Enqueue
  <2> QED BY <2>1 DEF Two, ToSet
<1>3. ASSUME p \in Podded, NEW a, puts[p] = <<a>>
      PROVE  Two(Enqueue(p, s)) /\ ToSet(Enqueue(p, s)) \subseteq ToSet(puts[p]) \cup {s}
  <2>1. Len(<<a>>) = 1 /\ Append(<<a>>, s) = <<a, s>>
    BY OneAndAnother, a \in {a, s}, s \in {a, s}
  <2>2. Enqueue(p, s) = <<a, s>>
    <3>1. Enqueue(p, s) = Append(puts[p], s)
      BY <1>3, <2>1 DEF Enqueue
    <3> QED BY <1>3, <2>1, <3>1, Zenon
  <2>3. a \in ToSet(puts[p])
    BY <1>3 DEF ToSet
  <2> QED BY <2>2, <2>3 DEF Two, ToSet
<1>4. ASSUME p \in Podded, NEW a, NEW b, puts[p] = <<a, b>>
      PROVE  Two(Enqueue(p, s)) /\ ToSet(Enqueue(p, s)) \subseteq ToSet(puts[p]) \cup {s}
  <2>1. Enqueue(p, s) = <<a, s>>
    BY <1>4 DEF Enqueue
  <2>2. a \in ToSet(puts[p])
    BY <1>4 DEF ToSet
  <2> QED BY <2>1, <2>2 DEF Two, ToSet
<1> QED BY <1>1, <1>2, <1>3, <1>4 DEF Two

\* The copies of p's session there are.
Copies(p) == {cache[p], stored[p], pod[p], last[p]} \cup late[p] \cup ToSet(puts[p])

\* A copy, of a session that has sent at most n messages on its chain, with
\* one of the first k ratchet pairs.
Fits(s, n, k) ==
    \/ s = Nothing
    \/ /\ s \in Sessions /\ s.ver # 0 /\ Len(s.skippedKeys) <= MaxSkippedKeys
       /\ s.sendMsgNum <= n /\ s.myRatchetPub[2] <= k

\* A text of p that is being encrypted has no number yet.
Begun(p) == IF \E i \in DOMAIN ops[p] : ops[p][i].kind = "encrypt" THEN 1 ELSE 0

Runs(p) ==
    \/ ops[p] = <<>>
    \/ \E op : /\ ops[p] = <<op>> /\ op.state = cache[p] /\ op.kind \in {"encrypt", "decrypt"}
               /\ op.kind = "decrypt" => op.m \in sent
               /\ op.kind = "encrypt" => op.m.text \in 1..texts

\* A new ratchet pair is for a text, or for a session that was not there.
PairsCounted(p) == keys[p] + Begun(p) <= texts + reloads + (IF cache[p] = Nothing THEN 0 ELSE 1)

Proper(p) ==
    /\ Two(puts[p]) /\ \A s \in Copies(p) : Fits(s, texts - Begun(p), keys[p])
    /\ Runs(p) /\ PairsCounted(p)
    /\ opened[p] \subseteq sent /\ evicted[p] \subseteq Keys \X (0..MaxTexts)

\* What is not about one party.
Rest ==
    /\ DOMAIN opened = Parties /\ DOMAIN evicted = Parties
    /\ reach \in [Parties -> 0..MaxTexts]
    /\ texts \in 0..MaxTexts /\ reloads \in 0..MaxReloads /\ lost \in BOOLEAN
    /\ sent \subseteq Message /\ \A m \in sent : m.n < texts
    /\ again \subseteq sent

Typed == Shape /\ Rest /\ \A p \in Parties : Proper(p)

LEMMA TypedInit == Init => Typed
<1> SUFFICES ASSUME Init PROVE Typed
  OBVIOUS
<1>1. ASSUME NEW p \in Parties PROVE Proper(p)
  <2>1. ops[p] = <<>> /\ puts[p] = <<>> /\ Copies(p) = {Nothing} /\ keys[p] = 0
        /\ cache[p] = Nothing /\ texts = 0 /\ reloads = 0
        /\ opened[p] = {} /\ evicted[p] = {}
    BY DEF Init, Copies, ToSet
  <2>2. Begun(p) = 0
    BY <2>1 DEF Begun
  <2> QED BY <2>1, <2>2 DEF Proper, Two, Fits, Runs, PairsCounted
<1>2. /\ Shape /\ DOMAIN opened = Parties /\ DOMAIN evicted = Parties
      /\ reach \in [Parties -> 0..MaxTexts]
  BY RatchetAssumption DEF Init, Shape
<1>3. /\ texts \in 0..MaxTexts /\ reloads \in 0..MaxReloads /\ lost \in BOOLEAN
      /\ sent = {} /\ again = {}
  <2>1. texts = 0 /\ reloads = 0 /\ lost = FALSE /\ sent = {} /\ again = {}
    BY DEF Init
  <2>2. MaxTexts \in Nat /\ MaxReloads \in Nat
    BY RatchetAssumption
  <2>3. 0 \in 0..MaxTexts /\ 0 \in 0..MaxReloads /\ FALSE \in BOOLEAN
    BY <2>2
  <2> QED BY <2>1, <2>3, Zenon
<1> QED BY <1>1, <1>2, <1>3 DEF Typed, Rest

LEMMA BegunNumber == \A p \in Parties : Begun(p) \in {0, 1}
BY DEF Begun

\* The invariant gives the types.
LEMMA TypedShows == Typed => TypeOK
<1> SUFFICES ASSUME Typed PROVE TypeOK
  OBVIOUS
<1>1. ASSUME NEW p \in Parties, NEW s \in Copies(p) PROVE IsSession(s)
  <2>1. Fits(s, texts - Begun(p), keys[p])
    BY <1>1 DEF Typed, Rest, Proper
  <2>2. CASE s = Nothing
    BY <2>2 DEF IsSession
  <2>3. CASE s \in Sessions /\ s.ver # 0 /\ Len(s.skippedKeys) <= MaxSkippedKeys
    <3>1. /\ s.ver \in Nat \ {0} /\ {s.rootKey, s.sendChain, s.recvChain} \subseteq Chains
          /\ {s.myRatchetPub, s.theirRatchetPub} \subseteq Keys
          /\ {s.sendMsgNum, s.sendPrevLen, s.recvMsgNum} \subseteq 0..MaxTexts
          /\ s.skippedKeys \in Seq(LateKey)
      BY <2>3 DEF Sessions
    <3>2. ToSet(s.skippedKeys) \subseteq LateKey
      BY <3>1, ElementOfSeq, LenProperties DEF ToSet
    <3>3. \A k \in LateKey : k.pub \in Keys /\ k.n \in 0..MaxTexts /\ k.chain \in Chains
      BY DEF LateKey
    <3>4. \A k \in ToSet(s.skippedKeys) :
             k.pub \in Keys /\ k.n \in 0..MaxTexts /\ k.chain \in Chains
      BY <3>2, <3>3
    <3> QED BY <2>3, <3>1, <3>4 DEF IsSession
  <2> QED BY <2>1, <2>2, <2>3 DEF Fits
<1>2. ASSUME NEW p \in Parties
      PROVE  /\ Len(puts[p]) <= 2 /\ opened[p] \subseteq sent
             /\ evicted[p] \subseteq Keys \X (0..MaxTexts)
  BY TwoElements DEF Typed, Rest, Proper
<1>3. keys \in [Parties -> 0..MaxTexts + MaxReloads + 1]
  <2>1. keys \in [Parties -> Nat]
    BY DEF Typed, Rest, Shape
  <2>2. ASSUME NEW p \in Parties PROVE keys[p] <= MaxTexts + MaxReloads + 1
    <3>1. keys[p] + Begun(p) <= texts + reloads + 1
      BY <2>1, BegunNumber, RatchetAssumption DEF Typed, Rest, Proper, PairsCounted
    <3> QED BY <2>1, <3>1, BegunNumber, RatchetAssumption DEF Typed, Rest
  <2> QED BY <2>1, <2>2, RatchetAssumption
<1> QED BY <1>1, <1>2, <1>3 DEF Typed, Rest, TypeOK, Copies

\* What a party holds is still proper when the copies are the ones there were,
\* none, or one more, and neither its texts nor its pairs went back.
LEMMA ProperAgain ==
  ASSUME Typed, NEW p \in Parties, NEW t,
         Copies(p)' \subseteq Copies(p) \cup {Nothing, t},
         Fits(t, texts' - Begun(p)', keys'[p]),
         Two(puts'[p]), Runs(p)', PairsCounted(p)',
         keys'[p] \in Nat, keys[p] <= keys'[p],
         texts' \in Nat, texts - Begun(p) <= texts' - Begun(p)',
         opened'[p] \subseteq sent', evicted'[p] \subseteq Keys \X (0..MaxTexts)
  PROVE  Proper(p)'
<1> DEFINE n == texts - Begun(p)
           n1 == texts' - Begun(p)'
           k == keys[p]
           k1 == keys'[p]
<1>1. n \in Int /\ n1 \in Int /\ k \in Nat /\ k1 \in Nat /\ n <= n1 /\ k <= k1
  <2>1. Begun(p)' \in {0, 1}
    BY DEF Begun
  <2> QED BY <2>1, BegunNumber, RatchetAssumption DEF Typed, Rest, Shape
<1>2. \A s \in Copies(p) : Fits(s, n, k)
  BY DEF Typed, Rest, Proper
<1> HIDE DEF n, n1, k, k1
<1>3. ASSUME NEW s, Fits(s, n, k) PROVE Fits(s, n1, k1)
  <2>1. CASE s = Nothing
    BY <2>1 DEF Fits
  <2>2. CASE s \in Sessions /\ s.sendMsgNum <= n /\ s.myRatchetPub[2] <= k
    <3>1. s.sendMsgNum \in Nat /\ s.myRatchetPub[2] \in Nat
      BY <2>2, RatchetAssumption DEF Sessions, Keys
    <3>2. s.sendMsgNum <= n1 /\ s.myRatchetPub[2] <= k1
      BY <1>1, <2>2, <3>1
    <3> QED BY <1>3, <3>2 DEF Fits
  <2> QED BY <1>3, <2>1, <2>2 DEF Fits
<1>4. Fits(t, n1, k1) /\ Fits(Nothing, n1, k1)
  BY DEF Fits, n1, k1
<1>5. \A s \in Copies(p)' : Fits(s, n1, k1)
  BY <1>2, <1>3, <1>4
<1>6. (\A s \in Copies(p) : Fits(s, texts - Begun(p), keys[p]))'
  BY <1>5 DEF n1, k1, Fits
<1> QED BY <1>6 DEF Proper

\* A party that does nothing but write to its pod.
LEMMA PartyStays ==
  ASSUME Typed, NEW p \in Parties, Copies(p)' \subseteq Copies(p), Two(puts'[p]),
         ops'[p] = ops[p], cache'[p] = cache[p], keys'[p] = keys[p],
         opened'[p] = opened[p], evicted'[p] = evicted[p],
         texts' \in Nat, reloads' \in Nat, texts <= texts', reloads <= reloads',
         sent \subseteq sent'
  PROVE  Proper(p)'
<1>1. texts \in Nat /\ reloads \in Nat /\ keys[p] \in Nat
  BY RatchetAssumption DEF Typed, Rest, Shape
<1>2. Begun(p)' = Begun(p) /\ Begun(p) \in {0, 1}
  BY DEF Begun
<1>3. Runs(p)'
  BY <1>1 DEF Typed, Rest, Proper, Runs
<1>4. PairsCounted(p)'
  <2> DEFINE there == IF cache[p] = Nothing THEN 0 ELSE 1
  <2>1. there \in {0, 1} /\ keys[p] + Begun(p) <= texts + reloads + there
    BY DEF Typed, Rest, Proper, PairsCounted
  <2> HIDE DEF there
  <2>2. keys[p] + Begun(p) <= texts' + reloads' + there
    BY <1>1, <1>2, <2>1
  <2> QED BY <1>2, <2>2 DEF PairsCounted, there
<1>5. opened'[p] \subseteq sent' /\ evicted'[p] \subseteq Keys \X (0..MaxTexts)
  BY DEF Typed, Rest, Proper
<1>6. texts - Begun(p) <= texts' - Begun(p)' /\ keys[p] <= keys'[p] /\ keys'[p] \in Nat
  BY <1>1, <1>2
<1>7. Fits(Nothing, texts' - Begun(p)', keys'[p])
  BY DEF Fits
<1> QED BY <1>3, <1>4, <1>5, <1>6, <1>7, ProperAgain

\* A party of which nothing changes.
LEMMA PartyRests ==
  ASSUME Typed, NEW p \in Parties,
         cache'[p] = cache[p], stored'[p] = stored[p], pod'[p] = pod[p], last'[p] = last[p],
         late'[p] = late[p], puts'[p] = puts[p], ops'[p] = ops[p], keys'[p] = keys[p],
         opened'[p] = opened[p], evicted'[p] = evicted[p],
         texts' \in Nat, reloads' \in Nat, texts <= texts', reloads <= reloads',
         sent \subseteq sent'
  PROVE  Proper(p)'
<1>1. Copies(p)' \subseteq Copies(p)
  BY DEF Copies
<1>2. Two(puts'[p])
  BY DEF Typed, Rest, Proper
<1> QED BY <1>1, <1>2, PartyStays

\* Saving a session.
LEMMA SaveTyped ==
  ASSUME Typed, NEW p \in Parties, NEW s \in Sessions, Len(s.skippedKeys) <= MaxSkippedKeys,
         SaveRatchetState(p, s), End(p, 1), ops[p] # <<>>,
         s.sendMsgNum <= texts, s.myRatchetPub[2] <= keys'[p],
         keys' \in [Parties -> Nat], keys[p] <= keys'[p], keys'[p] <= texts + reloads + 1,
         \A q \in Parties \ {p} : keys'[q] = keys[q] /\ opened'[q] = opened[q] /\ evicted'[q] = evicted[q],
         texts' = texts, reloads' = reloads, sent \subseteq sent',
         opened'[p] \subseteq sent', evicted'[p] \subseteq Keys \X (0..MaxTexts)
  PROVE  Shape' /\ \A q \in Parties : Proper(q)'
<1> DEFINE v == s.ver + 1
           t == [s EXCEPT !.ver = v]
<1>1. /\ cache' = [cache EXCEPT ![p] = t] /\ stored' = [stored EXCEPT ![p] = t]
      /\ puts' = [puts EXCEPT ![p] = Enqueue(p, t)] /\ last' = [last EXCEPT ![p] = t]
      /\ pod' = pod /\ late' = late
  BY DEF SaveRatchetState
<1>2. v \in Nat /\ v # 0
  BY DEF Sessions
<1> HIDE DEF v
<1>3. /\ t \in Sessions /\ t.ver = v /\ t.skippedKeys = s.skippedKeys
      /\ t.sendMsgNum = s.sendMsgNum /\ t.myRatchetPub = s.myRatchetPub
  BY <1>2 DEF Sessions
<1> HIDE DEF t
<1>4. texts \in Nat /\ reloads \in Nat /\ Shape /\ keys[p] \in Nat /\ keys'[p] \in Nat
  BY RatchetAssumption DEF Typed, Rest, Shape
<1>5. Shape'
  BY <1>1, <1>4 DEF Shape, End
<1>6. ops'[p] = <<>> /\ \A q \in Parties \ {p} : ops'[q] = ops[q]
  <2>1. PICK op : ops[p] = <<op>>
    BY DEF Typed, Rest, Proper, Runs
  <2>2. RemoveAt(ops[p], 1) = <<>>
    BY <2>1 DEF RemoveAt
  <2> QED BY <1>4, <2>2 DEF Shape, End
<1>7. ASSUME NEW q \in Parties \ {p} PROVE Proper(q)'
  <2>1. /\ cache'[q] = cache[q] /\ stored'[q] = stored[q] /\ puts'[q] = puts[q]
        /\ last'[q] = last[q] /\ pod'[q] = pod[q] /\ late'[q] = late[q] /\ ops'[q] = ops[q]
    BY <1>1, <1>4, <1>6 DEF Shape
  <2>2. texts' \in Nat /\ reloads' \in Nat /\ texts <= texts' /\ reloads <= reloads'
    BY <1>4
  <2>3. keys'[q] = keys[q] /\ opened'[q] = opened[q] /\ evicted'[q] = evicted[q]
    OBVIOUS
  <2> QED BY <2>1, <2>2, <2>3, PartyRests
<1>8. Proper(p)'
  <2>1. /\ cache'[p] = t /\ stored'[p] = t /\ puts'[p] = Enqueue(p, t) /\ last'[p] = t
        /\ pod'[p] = pod[p] /\ late'[p] = late[p]
    BY <1>1, <1>4 DEF Shape
  <2>2. Two(puts[p])
    BY DEF Typed, Rest, Proper
  <2>3. Two(puts'[p]) /\ ToSet(puts'[p]) \subseteq ToSet(puts[p]) \cup {t}
    BY <2>1, <2>2, EnqueueTwo
  <2>4. Copies(p)' \subseteq Copies(p) \cup {Nothing, t}
    BY <2>1, <2>3 DEF Copies
  <2>5. Begun(p)' = 0 /\ Runs(p)'
    BY <1>6 DEF Begun, Runs
  <2>6. t # Nothing
    BY <1>2, <1>3 DEF Nothing
  <2>7. PairsCounted(p)'
    <3>1. keys'[p] + 0 <= texts' + reloads' + 1
      BY <1>4
    <3> QED BY <2>1, <2>5, <2>6, <3>1 DEF PairsCounted
  <2>8. texts - Begun(p) <= texts' - Begun(p)' /\ texts' - Begun(p)' = texts /\ texts' \in Nat
    BY <1>4, <2>5, BegunNumber
  <2>9. Fits(t, texts' - Begun(p)', keys'[p])
    BY <1>2, <1>3, <2>8 DEF Fits
  <2> QED BY <1>4, <2>3, <2>4, <2>5, <2>7, <2>8, <2>9, ProperAgain
<1> QED BY <1>5, <1>7, <1>8

LEMMA PutEndsTyped ==
  ASSUME Typed, NEW p \in Parties, NEW landed \in BOOLEAN, PutEnds(p, landed)
  PROVE  Typed'
<1>1. /\ pod' = IF landed THEN [pod EXCEPT ![p] = Head(puts[p])] ELSE pod
      /\ puts' = [puts EXCEPT ![p] = Tail(puts[p])] /\ puts[p] # <<>>
      /\ UNCHANGED <<cache, ops, stored, late, keys, texts, reloads, sent,
                     opened, again, last, lost, reach, evicted>>
  BY DEF PutEnds, page, history
<1>2. Shape /\ Rest
  BY DEF Typed, Rest
<1>3. Shape'
  BY <1>1, <1>2 DEF Shape
<1>4. Rest'
  BY <1>1, <1>2 DEF Rest
<1>5. texts' \in Nat /\ reloads' \in Nat /\ texts <= texts' /\ reloads <= reloads'
  BY <1>1, RatchetAssumption DEF Typed, Rest
<1>6. ASSUME NEW q \in Parties PROVE Proper(q)'
  <2>1. CASE q # p
    <3>1. pod'[q] = pod[q] /\ puts'[q] = puts[q]
      BY <1>1, <1>2, <2>1 DEF Shape
    <3> QED BY <1>1, <1>5, <3>1, PartyRests
  <2>2. CASE q = p
    <3>1. pod'[p] \in {pod[p], Head(puts[p])} /\ puts'[p] = Tail(puts[p])
      BY <1>1, <1>2 DEF Shape
    <3>2. Two(puts[p])
      BY DEF Typed, Rest, Proper
    <3>3. Head(puts[p]) \in ToSet(puts[p]) /\ Two(puts'[p]) /\ ToSet(puts'[p]) \subseteq ToSet(puts[p])
      BY <1>1, <3>1, <3>2, TwoElements
    <3>4. Copies(p)' \subseteq Copies(p)
      BY <1>1, <3>1, <3>3 DEF Copies
    <3> QED BY <1>1, <1>5, <2>2, <3>3, <3>4, PartyStays
  <2> QED BY <2>1, <2>2
<1> QED BY <1>3, <1>4, <1>6 DEF Typed, Rest

LEMMA LateLandsTyped ==
  ASSUME Typed, NEW p \in Parties, LateLands(p)
  PROVE  Typed'
<1>1. PICK s \in late[p] :
        /\ pod' = [pod EXCEPT ![p] = s]
        /\ late' = [late EXCEPT ![p] = late[p] \ {s}]
        /\ UNCHANGED <<cache, ops, stored, puts, keys, texts, reloads, sent,
                       opened, again, last, lost, reach, evicted>>
  BY DEF LateLands, page, history
<1>2. Shape /\ Rest
  BY DEF Typed, Rest
<1>3. Shape'
  BY <1>1, <1>2 DEF Shape
<1>4. Rest'
  BY <1>1, <1>2 DEF Rest
<1>5. texts' \in Nat /\ reloads' \in Nat /\ texts <= texts' /\ reloads <= reloads'
  BY <1>1, RatchetAssumption DEF Typed, Rest
<1>6. ASSUME NEW q \in Parties PROVE Proper(q)'
  <2>1. pod'[q] = (IF q = p THEN s ELSE pod[q]) /\ late'[q] \subseteq late[q]
    BY <1>1, <1>2 DEF Shape
  <2>2. Copies(q)' \subseteq Copies(q)
    BY <1>1, <2>1 DEF Copies
  <2>3. Two(puts'[q])
    BY <1>1 DEF Typed, Rest, Proper
  <2> QED BY <1>1, <1>5, <2>2, <2>3, PartyStays
<1> QED BY <1>3, <1>4, <1>6 DEF Typed, Rest

LEMMA LeaveTyped ==
  ASSUME Typed, NEW p \in Parties, Leave(p),
         stored' = stored \/ stored' = [stored EXCEPT ![p] = Nothing]
  PROVE  Typed'
<1>1. /\ reloads < MaxReloads /\ reloads' = reloads + 1
      /\ cache' = [cache EXCEPT ![p] = Nothing] /\ ops' = [ops EXCEPT ![p] = <<>>]
      /\ late' = IF puts[p] = <<>> THEN late ELSE [late EXCEPT ![p] = late[p] \cup {Head(puts[p])}]
      /\ puts' = [puts EXCEPT ![p] = <<>>]
      /\ UNCHANGED <<pod, keys, texts, sent, opened, again, last, lost, reach, evicted>>
  BY DEF Leave, history
<1>2. Shape /\ Rest
  BY DEF Typed, Rest
<1>3. Shape'
  BY <1>1, <1>2 DEF Shape
<1>4. texts \in Nat /\ reloads \in Nat /\ MaxReloads \in Nat /\ texts' = texts
      /\ reloads' \in Nat /\ reloads <= reloads'
  BY <1>1, RatchetAssumption DEF Typed, Rest
<1>5. Rest'
  <2>1. reloads' \in 0..MaxReloads
    BY <1>1, <1>4
  <2> QED BY <1>1, <1>2, <2>1 DEF Rest
<1>6. ASSUME NEW q \in Parties, q # p PROVE Proper(q)'
  <2>1. /\ cache'[q] = cache[q] /\ stored'[q] = stored[q] /\ puts'[q] = puts[q]
        /\ late'[q] = late[q] /\ ops'[q] = ops[q]
    BY <1>1, <1>2, <1>6 DEF Shape
  <2>2. texts' \in Nat /\ texts <= texts'
    BY <1>4
  <2> QED BY <1>1, <1>4, <2>1, <2>2, PartyRests
<1>7. Proper(p)'
  <2>1. cache'[p] = Nothing /\ ops'[p] = <<>> /\ puts'[p] = <<>>
    BY <1>1, <1>2 DEF Shape
  <2>2. Two(puts[p])
    BY DEF Typed, Rest, Proper
  <2>3. puts[p] # <<>> => Head(puts[p]) \in ToSet(puts[p])
    BY <2>2, TwoElements
  <2>4. late'[p] \subseteq late[p] \cup ToSet(puts[p])
    BY <1>1, <1>2, <2>3 DEF Shape
  <2>5. stored'[p] \in {stored[p], Nothing}
    BY <1>1, <1>2 DEF Shape
  <2>6. ToSet(puts'[p]) = {} /\ Two(puts'[p]) /\ Begun(p)' = 0 /\ Runs(p)'
    BY <2>1 DEF ToSet, Two, Begun, Runs
  <2>7. Copies(p)' \subseteq Copies(p) \cup {Nothing, Nothing}
    BY <1>1, <2>1, <2>4, <2>5, <2>6 DEF Copies
  <2>8. keys[p] \in Nat /\ keys'[p] = keys[p]
    BY <1>1, <1>2 DEF Shape
  <2>9. PairsCounted(p)'
    <3> DEFINE there == IF cache[p] = Nothing THEN 0 ELSE 1
    <3>1. there \in {0, 1} /\ keys[p] + Begun(p) <= texts + reloads + there
      BY DEF Typed, Rest, Proper, PairsCounted
    <3> HIDE DEF there
    <3>2. keys'[p] + 0 <= texts' + reloads' + 0
      BY <1>1, <1>4, <2>8, <3>1, BegunNumber
    <3> QED BY <2>1, <2>6, <3>2 DEF PairsCounted
  <2>10. texts - Begun(p) <= texts' - Begun(p)' /\ texts' \in Nat /\ keys[p] <= keys'[p] /\ keys'[p] \in Nat
    BY <1>4, <2>6, <2>8, BegunNumber
  <2>11. Fits(Nothing, texts' - Begun(p)', keys'[p])
    BY DEF Fits
  <2>12. opened'[p] \subseteq sent' /\ evicted'[p] \subseteq Keys \X (0..MaxTexts)
    BY <1>1 DEF Typed, Rest, Proper
  <2> QED BY <2>6, <2>7, <2>9, <2>10, <2>11, <2>12, ProperAgain
<1> QED BY <1>3, <1>5, <1>6, <1>7 DEF Typed, Rest

LEMMA BeginTyped ==
  ASSUME Typed, NEW p \in Parties, NEW op, Begin(p, op),
         \/ op.kind = "encrypt" /\ texts < MaxTexts /\ texts' = texts + 1 /\ op.m.text = texts'
         \/ op.kind = "decrypt" /\ texts' = texts /\ op.m \in sent
  PROVE  Typed'
<1>1. PICK remote \in {pod[p], Nothing} :
        /\ LoadRatchetState(p, remote)
        /\ ops' = [ops EXCEPT ![p] = Append(@, [kind |-> op.kind, m |-> op.m,
                                               state |-> Loaded(p, remote)])]
  BY DEF Begin
<1> DEFINE s == Loaded(p, remote)
           run == [kind |-> op.kind, m |-> op.m, state |-> s]
           begun == IF op.kind = "encrypt" THEN 1 ELSE 0
<1>2. /\ ops[p] = <<>>
      /\ UNCHANGED <<stored, pod, late, keys, reloads, sent, opened, again, last, reach, evicted>>
  BY DEF Begin, Serialize
<1>3. Shape /\ Rest
  BY DEF Typed, Rest
<1>4. s \in Copies(p) \cup {Nothing} /\ (cache[p] # Nothing => s = cache[p])
  BY DEF Loaded, Newest, Copies
<1>5. /\ cache' = [cache EXCEPT ![p] = s]
      /\ lost' = (lost \/ s # last[p])
      /\ puts' = puts \/ puts' = [puts EXCEPT ![p] = Enqueue(p, s)]
      /\ ops' = [ops EXCEPT ![p] = <<run>>]
  BY <1>1, <1>2 DEF LoadRatchetState
<1> HIDE DEF s
<1>6. Shape'
  BY <1>2, <1>3, <1>5 DEF Shape
<1>7. /\ texts \in Nat /\ texts' \in 0..MaxTexts /\ texts' = texts + begun /\ texts <= texts'
      /\ texts' \in Nat /\ reloads \in Nat /\ begun \in {0, 1}
  BY <1>3, RatchetAssumption DEF Rest
<1>8. Rest'
  <2>1. lost' \in BOOLEAN
    BY <1>5
  <2>2. \A m \in sent' : m.n < texts'
    BY <1>2, <1>3, <1>7 DEF Rest, Message
  <2> QED BY <1>2, <1>3, <1>7, <2>1, <2>2 DEF Rest
<1>9. ASSUME NEW q \in Parties, q # p PROVE Proper(q)'
  <2>1. cache'[q] = cache[q] /\ puts'[q] = puts[q] /\ ops'[q] = ops[q]
    BY <1>3, <1>5, <1>9 DEF Shape
  <2>2. reloads' \in Nat /\ reloads <= reloads'
    BY <1>2, <1>7
  <2> QED BY <1>2, <1>7, <2>1, <2>2, PartyRests
<1>10. Proper(p)'
  <2>1. cache'[p] = s /\ ops'[p] = <<run>> /\ keys'[p] = keys[p] /\ keys[p] \in Nat
    BY <1>2, <1>3, <1>5 DEF Shape
  <2>2. Two(puts[p])
    BY DEF Typed, Rest, Proper
  <2>3. puts'[p] = puts[p] \/ puts'[p] = Enqueue(p, s)
    BY <1>3, <1>5 DEF Shape
  <2>4. Two(puts'[p]) /\ ToSet(puts'[p]) \subseteq ToSet(puts[p]) \cup {s}
    BY <2>2, <2>3, EnqueueTwo
  <2>5. Copies(p)' \subseteq Copies(p) \cup {Nothing, Nothing}
    BY <1>2, <1>4, <2>1, <2>4 DEF Copies
  <2>6. Begun(p)' = begun /\ Begun(p) = 0
    <3>1. DOMAIN <<run>> = {1} /\ <<run>>[1] = run /\ run.kind = op.kind
      OBVIOUS
    <3> HIDE DEF run
    <3>2. (\E i \in DOMAIN <<run>> : <<run>>[i].kind = "encrypt") <=> op.kind = "encrypt"
      BY <3>1
    <3>3. Begun(p)' = begun
      BY <2>1, <3>2, Zenon DEF Begun
    <3> QED BY <1>2, <3>3 DEF Begun
  <2>7. Runs(p)'
    <3>1. run.state = s /\ run.kind = op.kind /\ run.m = op.m
      OBVIOUS
    <3> HIDE DEF run
    <3>2. texts' \in 1..texts' \/ op.kind = "decrypt"
      BY <1>7
    <3>3. /\ run.state = cache'[p] /\ run.kind \in {"encrypt", "decrypt"}
          /\ run.kind = "decrypt" => run.m \in sent'
          /\ run.kind = "encrypt" => run.m.text \in 1..texts'
      BY <1>2, <2>1, <3>1, <3>2
    <3> QED BY <2>1, <3>3 DEF Runs
  <2>8. PairsCounted(p)'
    <3> DEFINE there == IF cache[p] = Nothing THEN 0 ELSE 1
               now == IF cache'[p] = Nothing THEN 0 ELSE 1
    <3>1. there \in {0, 1} /\ keys[p] + 0 <= texts + reloads + there
      BY <2>6 DEF Typed, Rest, Proper, PairsCounted
    <3>2. now \in {0, 1} /\ there <= now
      BY <1>4, <2>1
    <3> HIDE DEF there, now
    <3>3. keys'[p] + begun <= texts' + reloads + now
      <4> HIDE DEF begun
      <4> QED BY <1>7, <2>1, <3>1, <3>2
    <3> QED BY <1>2, <2>6, <3>3 DEF PairsCounted, now
  <2>9. /\ texts - Begun(p) <= texts' - Begun(p)' /\ keys[p] <= keys'[p] /\ keys'[p] \in Nat
    <3> HIDE DEF begun
    <3> QED BY <1>7, <2>1, <2>6
  <2>10. Fits(Nothing, texts' - Begun(p)', keys'[p])
    BY DEF Fits
  <2>11. opened'[p] \subseteq sent' /\ evicted'[p] \subseteq Keys \X (0..MaxTexts)
    BY <1>2 DEF Typed, Rest, Proper
  <2> QED BY <1>7, <2>4, <2>5, <2>7, <2>8, <2>9, <2>10, <2>11, ProperAgain
<1> QED BY <1>6, <1>8, <1>9, <1>10 DEF Typed, Rest

\* The session an operation was begun with.
LEMMA RunTyped ==
  ASSUME Typed, NEW p \in Parties, NEW i \in DOMAIN ops[p]
  PROVE  /\ i = 1 /\ ops[p] # <<>> /\ ops[p][1].state = cache[p]
         /\ ops[p][1].kind = "decrypt" => ops[p][1].m \in sent /\ Begun(p) = 0
         /\ ops[p][1].kind = "encrypt" => ops[p][1].m.text \in 1..texts /\ Begun(p) = 1
         /\ Fits(cache[p], texts - Begun(p), keys[p])
<1>1. Runs(p) /\ ops[p] # <<>> /\ Fits(cache[p], texts - Begun(p), keys[p])
  <2>1. Proper(p) /\ cache[p] \in Copies(p)
    BY DEF Typed, Rest, Copies
  <2>2. Runs(p) /\ Fits(cache[p], texts - Begun(p), keys[p])
    BY <2>1, Zenon DEF Proper
  <2>3. ops[p] # <<>>
    OBVIOUS
  <2> QED BY <2>2, <2>3
<1>2. PICK op : /\ ops[p] = <<op>> /\ op.state = cache[p] /\ op.kind \in {"encrypt", "decrypt"}
                /\ op.kind = "decrypt" => op.m \in sent
                /\ op.kind = "encrypt" => op.m.text \in 1..texts
  BY <1>1 DEF Runs
<1>3. DOMAIN ops[p] = {1} /\ ops[p][1] = op
  BY <1>2
<1>4. Begun(p) = IF op.kind = "encrypt" THEN 1 ELSE 0
  BY <1>3 DEF Begun
<1> QED BY <1>1, <1>2, <1>3, <1>4

LEMMA EncryptTyped ==
  ASSUME Typed, NEW p \in Parties, NEW i \in DOMAIN ops[p], RatchetEncrypt(p, i)
  PROVE  Typed'
<1> DEFINE op == ops[p][1]
           fresh == <<p, keys[p] + 1>>
           s == SendState(p, op.state, fresh)
           num == s.sendMsgNum + 1
           t == [s EXCEPT !.sendMsgNum = num]
           text == op.m.text
           x == [from |-> p, text |-> text, pub |-> s.myRatchetPub,
                 n |-> s.sendMsgNum, pn |-> s.sendPrevLen, chain |-> s.sendChain]
<1>1. /\ i = 1 /\ ops[p] # <<>> /\ op.state = cache[p]
      /\ op.kind = "encrypt" => text \in 1..texts /\ Begun(p) = 1
      /\ Fits(cache[p], texts - Begun(p), keys[p])
  BY RunTyped
<1>2. /\ op.kind = "encrypt" /\ sent' = sent \cup {x} /\ SaveRatchetState(p, t)
      /\ Made(p, fresh, s) /\ End(p, 1)
      /\ UNCHANGED <<texts, reloads, opened, again, lost, reach, evicted>>
  BY <1>1 DEF RatchetEncrypt
<1>3. Begun(p) = 1 /\ text \in 1..texts
  BY <1>1, <1>2
<1>4. Shape /\ Rest
  BY DEF Typed, Rest
<1>5. /\ texts \in Nat /\ reloads \in Nat /\ texts <= MaxTexts /\ reloads <= MaxReloads
      /\ MaxTexts \in Nat /\ MaxReloads \in Nat /\ keys[p] \in Nat
      /\ keys \in [Parties -> Nat]
  BY <1>4, RatchetAssumption DEF Rest, Shape
<1>6. keys[p] + 1 <= texts + reloads + 1
  <2> DEFINE there == IF cache[p] = Nothing THEN 0 ELSE 1
  <2>1. there \in {0, 1} /\ keys[p] + 1 <= texts + reloads + there
    BY <1>3 DEF Typed, Rest, Proper, PairsCounted
  <2> HIDE DEF there
  <2> QED BY <1>5, <2>1
<1>7. fresh \in Keys
  <2>1. keys[p] + 1 \in 0..MaxTexts + MaxReloads + 1
    BY <1>5, <1>6
  <2> QED BY <2>1 DEF Keys
<1>8. /\ s \in Sessions /\ Len(s.skippedKeys) <= MaxSkippedKeys
      /\ s.sendMsgNum = 0 \/ (op.state # Nothing /\ s.sendMsgNum = op.state.sendMsgNum)
      /\ s.myRatchetPub = fresh \/ (op.state # Nothing /\ s.myRatchetPub = op.state.myRatchetPub)
  <2>1. /\ op.state = Nothing \/ op.state \in Sessions
        /\ op.state # Nothing => Len(op.state.skippedKeys) <= MaxSkippedKeys
    BY <1>1 DEF Fits
  <2> HIDE DEF op, fresh
  <2> QED BY <1>7, <2>1, SendTyped
<1>9. op.state # Nothing => op.state.sendMsgNum <= texts - 1 /\ op.state.myRatchetPub[2] <= keys[p]
  BY <1>1, <1>3 DEF Fits
<1>10. /\ s.sendMsgNum \in 0..MaxTexts /\ s.sendPrevLen \in 0..MaxTexts
       /\ s.myRatchetPub \in Keys /\ s.myRatchetPub[2] \in Nat /\ s.sendChain \in Chains
  BY <1>5, <1>8 DEF Sessions, Keys
<1>11. s.sendMsgNum <= texts - 1
  <2> HIDE DEF s
  <2> QED BY <1>3, <1>5, <1>8, <1>9
<1>12. keys' \in [Parties -> Nat] /\ keys[p] <= keys'[p] /\ keys'[p] <= keys[p] + 1
       /\ s.myRatchetPub[2] <= keys'[p] /\ \A q \in Parties \ {p} : keys'[q] = keys[q]
  <2> DEFINE k == keys[p] + 1
  <2>1. CASE s.myRatchetPub = fresh
    <3>1. keys' = [keys EXCEPT ![p] = k] /\ s.myRatchetPub[2] = k /\ k \in Nat
      BY <1>2, <1>5, <2>1 DEF Made
    <3> HIDE DEF k
    <3>2. keys' \in [Parties -> Nat] /\ keys'[p] = k /\ \A q \in Parties \ {p} : keys'[q] = keys[q]
      BY <1>5, <3>1
    <3> HIDE DEF s
    <3> QED BY <1>5, <3>1, <3>2 DEF k
  <2>2. CASE s.myRatchetPub # fresh
    <3>1. keys' = keys
      BY <1>2, <2>2 DEF Made
    <3>2. s.myRatchetPub[2] <= keys[p]
      BY <1>8, <1>9, <2>2
    <3> HIDE DEF s
    <3> QED BY <1>5, <3>1, <3>2
  <2> QED BY <2>1, <2>2
<1> HIDE DEF s
<1>13. num \in 0..MaxTexts /\ num <= texts
  BY <1>5, <1>10, <1>11
<1> HIDE DEF num
<1>14. t \in Sessions /\ t.skippedKeys = s.skippedKeys /\ t.sendMsgNum = num
       /\ t.myRatchetPub = s.myRatchetPub
  BY <1>8, <1>13 DEF Sessions
<1> HIDE DEF t, op, fresh
<1>15. sent \subseteq sent' /\ opened'[p] \subseteq sent' /\ evicted'[p] \subseteq Keys \X (0..MaxTexts)
  BY <1>2 DEF Typed, Rest, Proper
<1>16. keys'[p] <= texts + reloads + 1
  BY <1>5, <1>6, <1>12
<1>17. \A q \in Parties \ {p} : keys'[q] = keys[q] /\ opened'[q] = opened[q] /\ evicted'[q] = evicted[q]
  BY <1>2, <1>12
<1>18. Len(t.skippedKeys) <= MaxSkippedKeys /\ t.sendMsgNum <= texts /\ t.myRatchetPub[2] <= keys'[p]
  BY <1>8, <1>12, <1>13, <1>14
<1>19. Shape' /\ \A q \in Parties : Proper(q)'
  BY <1>1, <1>2, <1>12, <1>14, <1>15, <1>16, <1>17, <1>18, SaveTyped
<1>20. x \in Message /\ x.n < texts
  <2>1. text \in 1..MaxTexts
    <3> HIDE DEF text
    <3> QED BY <1>3, <1>5
  <2> HIDE DEF text
  <2>2. x \in Message /\ x.n = s.sendMsgNum
    BY <1>10, <2>1 DEF Message
  <2> QED BY <1>5, <1>10, <1>11, <2>2
<1> HIDE DEF x
<1>21. Rest'
  BY <1>2, <1>4, <1>20 DEF Rest
<1> QED BY <1>19, <1>21 DEF Typed, Rest

\* An operation that is given up.
LEMMA RefusedTyped ==
  ASSUME Typed, NEW p \in Parties, NEW i \in DOMAIN ops[p], Refused(p, i), ops[p][1].kind = "decrypt"
  PROVE  Typed'
<1>1. /\ i = 1 /\ Begun(p) = 0
  BY RunTyped
<1>2. /\ ops' = [ops EXCEPT ![p] = RemoveAt(ops[p], 1)]
      /\ UNCHANGED <<cache, stored, pod, puts, late, keys, texts, reloads, sent,
                     opened, again, last, lost, reach, evicted>>
  BY <1>1 DEF Refused, End, disk, history
<1>3. Shape /\ Rest
  BY DEF Typed, Rest
<1>4. ops'[p] = <<>> /\ \A q \in Parties \ {p} : ops'[q] = ops[q]
  <2>1. PICK op : ops[p] = <<op>>
    BY DEF Typed, Rest, Proper, Runs
  <2>2. RemoveAt(ops[p], 1) = <<>>
    BY <2>1 DEF RemoveAt
  <2> QED BY <1>2, <1>3, <2>2 DEF Shape
<1>5. Shape' /\ Rest'
  BY <1>2, <1>3 DEF Shape, Rest
<1>6. texts' \in Nat /\ reloads' \in Nat /\ texts <= texts' /\ reloads <= reloads'
  BY <1>2, RatchetAssumption DEF Typed, Rest
<1>7. ASSUME NEW q \in Parties, q # p PROVE Proper(q)'
  BY <1>2, <1>4, <1>6, <1>7, PartyRests
<1>8. Proper(p)'
  <2>1. Begun(p)' = 0 /\ Runs(p)'
    BY <1>4 DEF Begun, Runs
  <2>2. PairsCounted(p)'
    BY <1>1, <1>2, <2>1 DEF Typed, Rest, Proper, PairsCounted
  <2>3. \A s \in Copies(p)' : s \in Copies(p)
    BY <1>2 DEF Copies
  <2>4. (\A s \in Copies(p) : Fits(s, texts - Begun(p), keys[p]))'
    BY <1>1, <1>2, <2>1, <2>3 DEF Typed, Rest, Proper, Fits
  <2> QED BY <1>2, <2>1, <2>2, <2>4 DEF Typed, Rest, Proper
<1> QED BY <1>5, <1>7, <1>8 DEF Typed, Rest

LEMMA DecryptTyped ==
  ASSUME Typed, NEW p \in Parties, NEW i \in DOMAIN ops[p], NEW damaged \in BOOLEAN,
         RatchetDecrypt(p, i, damaged)
  PROVE  Typed'
<1> DEFINE op == ops[p][1]
           m == op.m
           was == op.state
           fresh == <<p, keys[p] + 1>>
           d == Decrypted(p, was, m, fresh)
           s == d.state
           gone == {<<k.pub, k.n>> : k \in d.dropped}
           moves == was # Nothing /\ s.theirRatchetPub # was.theirRatchetPub
<1>1. /\ i = 1 /\ ops[p] # <<>> /\ was = cache[p]
      /\ op.kind = "decrypt" => m \in sent /\ Begun(p) = 0
      /\ Fits(cache[p], texts - Begun(p), keys[p])
  BY RunTyped
<1>2. op.kind = "decrypt" /\ m \in sent /\ Begun(p) = 0
  BY <1>1 DEF RatchetDecrypt
<1>3. CASE damaged \/ ~d.opens
  <2>1. Refused(p, i)
    BY <1>1, <1>3 DEF RatchetDecrypt
  <2> QED BY <1>1, <1>2, <2>1, RefusedTyped
<1>4. CASE ~damaged /\ d.opens
  <2>1. /\ SaveRatchetState(p, s) /\ Made(p, fresh, s) /\ End(p, 1)
        /\ opened' = [opened EXCEPT ![p] = opened[p] \cup {m}]
        /\ again' = again \cup (opened[p] \cap {m})
        /\ reach' = IF moves THEN [reach EXCEPT ![p] = was.recvMsgNum] ELSE reach
        /\ evicted' = [evicted EXCEPT ![p] = evicted[p] \cup gone]
        /\ UNCHANGED <<texts, reloads, sent, lost>>
    BY <1>1, <1>4 DEF RatchetDecrypt
  <2>2. Shape /\ Rest
    BY DEF Typed, Rest
  <2>3. /\ texts \in Nat /\ reloads \in Nat /\ texts <= MaxTexts /\ reloads <= MaxReloads
        /\ MaxTexts \in Nat /\ MaxReloads \in Nat /\ keys[p] \in Nat
        /\ keys \in [Parties -> Nat]
    BY <2>2, RatchetAssumption DEF Rest, Shape
  <2>4. /\ keys[p] <= texts + reloads + 1
        /\ was = Nothing => keys[p] + 1 <= texts + reloads + 1
    <3> DEFINE there == IF cache[p] = Nothing THEN 0 ELSE 1
    <3>1. there \in {0, 1} /\ keys[p] + 0 <= texts + reloads + there
      BY <1>2 DEF Typed, Rest, Proper, PairsCounted
    <3>2. was = Nothing => there = 0
      BY <1>1
    <3> HIDE DEF there, was
    <3> QED BY <2>3, <3>1, <3>2
  <2>5. was = Nothing => fresh \in Keys
    <3>1. was = Nothing => keys[p] + 1 \in 0..MaxTexts + MaxReloads + 1
      <4> HIDE DEF was
      <4> QED BY <2>3, <2>4
    <3> HIDE DEF was
    <3> QED BY <3>1 DEF Keys
  <2>6. /\ was = Nothing \/ was \in Sessions
        /\ was # Nothing => Len(was.skippedKeys) <= MaxSkippedKeys
        /\ was # Nothing => was.sendMsgNum <= texts /\ was.myRatchetPub[2] <= keys[p]
    <3>1. Fits(was, texts - 0, keys[p]) /\ texts - 0 = texts
      BY <1>1, <1>2, <2>3
    <3> HIDE DEF was
    <3> QED BY <3>1 DEF Fits
  <2>7. /\ m \in Message /\ m.pub \in Keys /\ m.n \in 0..MaxTexts /\ m.n + 1 <= MaxTexts
        /\ m.pn \in 0..MaxTexts
    <3>1. m \in Message /\ m.n < texts
      BY <1>2, <2>2 DEF Rest
    <3> HIDE DEF m
    <3>2. m.pub \in Keys /\ m.n \in 0..MaxTexts /\ m.pn \in 0..MaxTexts
      BY <3>1 DEF Message
    <3> QED BY <2>3, <3>1, <3>2
  <2> HIDE DEF op, m, was, fresh
  <2>8. /\ s \in Sessions /\ Len(s.skippedKeys) <= MaxSkippedKeys
        /\ s.sendMsgNum = 0 \/ (was # Nothing /\ s.sendMsgNum = was.sendMsgNum)
        /\ was = Nothing => s.myRatchetPub = fresh
        /\ was # Nothing => s.myRatchetPub = was.myRatchetPub
        /\ d.dropped \subseteq LateKey
    BY <1>4, <2>5, <2>6, <2>7, DecryptedTyped
  <2>9. keys' \in [Parties -> Nat] /\ keys[p] <= keys'[p] /\ keys'[p] <= texts + reloads + 1
        /\ s.myRatchetPub[2] <= keys'[p] /\ \A q \in Parties \ {p} : keys'[q] = keys[q]
    <3> DEFINE k == keys[p] + 1
    <3>1. k \in Nat /\ keys[p] < k /\ fresh[2] = k
      BY <2>3 DEF fresh
    <3>2. CASE was = Nothing
      <4>1. keys' = [keys EXCEPT ![p] = k] /\ s.myRatchetPub[2] = k /\ k <= texts + reloads + 1
        BY <2>1, <2>4, <2>8, <3>1, <3>2 DEF Made
      <4> HIDE DEF k
      <4>2. keys' \in [Parties -> Nat] /\ keys'[p] = k /\ \A q \in Parties \ {p} : keys'[q] = keys[q]
        BY <2>3, <3>1, <4>1
      <4> HIDE DEF s
      <4> QED BY <2>3, <3>1, <4>1, <4>2
    <3>3. CASE was # Nothing
      <4>1. s.myRatchetPub[2] <= keys[p]
        BY <2>6, <2>8, <3>3
      <4>2. s.myRatchetPub[2] \in Nat
        BY <2>8 DEF Sessions, Keys
      <4>3. s.myRatchetPub # fresh
        <5> HIDE DEF s, k
        <5> QED BY <2>3, <3>1, <4>1, <4>2
      <4>4. keys' = keys
        BY <2>1, <4>3 DEF Made
      <4> HIDE DEF s
      <4> QED BY <2>3, <2>4, <4>1, <4>4
    <3> QED BY <3>2, <3>3
  <2> HIDE DEF d
  <2>10. s.sendMsgNum <= texts
    <3> HIDE DEF s
    <3> QED BY <2>3, <2>6, <2>8
  <2>11. opened'[p] \subseteq sent' /\ \A q \in Parties \ {p} : opened'[q] = opened[q]
    BY <1>2, <2>1, <2>2 DEF Rest, Typed, Proper
  <2>12. evicted'[p] \subseteq Keys \X (0..MaxTexts)
         /\ \A q \in Parties \ {p} : evicted'[q] = evicted[q]
    <3>1. gone \subseteq Keys \X (0..MaxTexts)
      BY <2>8 DEF LateKey
    <3> HIDE DEF gone
    <3> QED BY <2>1, <2>2, <3>1 DEF Rest, Typed, Proper
  <2> HIDE DEF s, gone
  <2>13. Shape' /\ \A q \in Parties : Proper(q)'
    <3>1. texts' = texts /\ reloads' = reloads /\ sent \subseteq sent' /\ ops[p] # <<>>
      BY <1>1, <2>1
    <3>2. \A q \in Parties \ {p} :
             keys'[q] = keys[q] /\ opened'[q] = opened[q] /\ evicted'[q] = evicted[q]
      BY <2>9, <2>11, <2>12
    <3> QED BY <2>1, <2>8, <2>9, <2>10, <2>11, <2>12, <3>1, <3>2, SaveTyped
  <2>14. reach' \in [Parties -> 0..MaxTexts]
    <3>1. was # Nothing => was.recvMsgNum \in 0..MaxTexts
      BY <2>6 DEF Sessions
    <3> QED BY <2>1, <2>2, <3>1 DEF Rest
  <2>15. again' \subseteq sent' /\ DOMAIN opened' = Parties /\ DOMAIN evicted' = Parties
    BY <1>2, <2>1, <2>2 DEF Rest
  <2>16. Rest'
    BY <2>1, <2>2, <2>14, <2>15 DEF Rest
  <2> QED BY <2>13, <2>16 DEF Typed, Rest
<1> QED BY <1>3, <1>4

LEMMA TypedStep == Typed /\ [Next]_vars => Typed'
<1> SUFFICES ASSUME Typed, [Next]_vars PROVE Typed'
  OBVIOUS
<1>1. CASE UNCHANGED vars
  <2>1. UNCHANGED <<cache, ops, stored, pod, puts, late, keys, texts, reloads, sent,
                    opened, again, last, lost, reach, evicted>>
    BY <1>1 DEF vars, page, disk, history
  <2>2. texts' \in Nat /\ reloads' \in Nat /\ texts <= texts' /\ reloads <= reloads'
    BY <2>1, RatchetAssumption DEF Typed, Rest
  <2>3. \A q \in Parties : Proper(q)'
    BY <2>1, <2>2, PartyRests
  <2>4. Shape'
    BY <2>1 DEF Typed, Rest, Shape
  <2> QED BY <2>1, <2>3, <2>4 DEF Typed, Rest
<1>2. ASSUME NEW p \in Parties, BeginEncrypt(p) PROVE Typed'
  <2>1. PICK op : op = [kind |-> "encrypt", m |-> [text |-> texts']]
    OBVIOUS
  <2>2. /\ Begin(p, op) /\ op.kind = "encrypt" /\ texts < MaxTexts
        /\ texts' = texts + 1 /\ op.m.text = texts'
    BY <1>2, <2>1 DEF BeginEncrypt
  <2> QED BY <2>2, BeginTyped
<1>3. ASSUME NEW p \in Parties, NEW m \in sent, BeginDecrypt(p, m) PROVE Typed'
  <2>1. PICK op : op = [kind |-> "decrypt", m |-> m]
    OBVIOUS
  <2>2. Begin(p, op) /\ op.kind = "decrypt" /\ texts' = texts /\ op.m \in sent
    BY <1>3, <2>1 DEF BeginDecrypt
  <2> QED BY <2>2, BeginTyped
<1>4. ASSUME NEW p \in Parties, NEW i \in DOMAIN ops[p], RatchetEncrypt(p, i) PROVE Typed'
  BY <1>4, EncryptTyped
<1>5. ASSUME NEW p \in Parties, NEW i \in DOMAIN ops[p], NEW damaged \in BOOLEAN,
             RatchetDecrypt(p, i, damaged)
      PROVE  Typed'
  BY <1>5, DecryptTyped
<1>6. ASSUME NEW p \in Parties, NEW landed \in BOOLEAN, PutEnds(p, landed) PROVE Typed'
  BY <1>6, PutEndsTyped
<1>7. ASSUME NEW p \in Parties, LateLands(p) PROVE Typed'
  BY <1>7, LateLandsTyped
<1>8. ASSUME NEW p \in Parties, Reload(p) PROVE Typed'
  BY <1>8, LeaveTyped DEF Reload
<1>9. ASSUME NEW p \in Parties, SignOut(p) PROVE Typed'
  BY <1>9, LeaveTyped DEF SignOut
<1> QED BY <1>1, <1>2, <1>3, <1>4, <1>5, <1>6, <1>7, <1>8, <1>9 DEF Next

-----------------------------------------------------------------------------
(* The theorems.                                                           *)

\* Whatever PUTs were lost, overtaken or landed late, a reload that finds a copy
\* in localStorage goes on with the session saved last (loadRatchetState and
\* saveRatchetState of e2e.js), as long as no load has missed it before.
THEOREM RatchetLoadsNewest == Spec => []LoadsNewest
<1>1. RatchetInv => LoadsNewest
  <2> SUFFICES ASSUME RatchetInv, ~lost, NEW p \in Parties, stored[p] # Nothing
               PROVE  Newest(stored[p], pod[p]) = last[p]
    BY DEF LoadsNewest
  <2>1. Held(p) /\ Session(p)
    BY DEF RatchetInv, Good
  <2>2. stored[p] = last[p] /\ last[p].ver \in Nat \ {0}
    BY <2>1 DEF Held, Session, IsSaved
  <2>3. pod[p].ver \in Nat /\ pod[p].ver <= last[p].ver
    BY <2>1, <2>2 DEF Held, Old, Nothing
  <2> QED BY <2>2, <2>3 DEF Newest
<1> QED BY <1>1, RatchetInvariant, PTL

\* No two messages, of one person or of both, are encrypted under the same
\* message key, however their operations, reloads and PUTs interleave, as long
\* as no session was lost: ratchetEncrypt saves the step it took, and one
\* operation of a peer runs at a time.
THEOREM RatchetKeysAreFresh == Spec => []NoKeyIsReused
<1>1. RatchetInv => NoKeyIsReused
  <2> SUFFICES ASSUME RatchetInv, ~lost, NEW m1 \in sent, NEW m2 \in sent,
                      m1.chain = m2.chain, m1.n = m2.n
               PROVE  m1 = m2
    BY DEF NoKeyIsReused
  <2>1. Passed(m1) /\ Passed(m2) /\ Once
    BY DEF RatchetInv, Good
  <2>2. m1.from \in Parties /\ m2.from \in Parties
    BY <2>1 DEF Passed
  <2>3. MadeWith(m1.from, m1.chain, m1.pub) /\ MadeWith(m2.from, m1.chain, m2.pub)
    BY <2>1 DEF Passed
  <2>4. m1.from = m2.from
    <3>1. ~Mine(Peer(m1.from), m1.chain)
      BY <2>2, <2>3, ApartByTurn DEF MadeWith
    <3> QED BY <2>2, <2>3, <3>1, TwoPeople DEF MadeWith
  <2>5. m1.pub = m2.pub
    BY <2>2, <2>3, <2>4, ChainNamesKey
  <2> QED BY <2>1, <2>4, <2>5 DEF Once
<1> QED BY <1>1, RatchetInvariant, PTL

\* No message opens twice, however often it is delivered and whatever reloads,
\* lost PUTs and damaged copies come in between (ratchetDecrypt of e2e.js): a
\* key that was used, or passed over, is no longer there.
THEOREM RatchetOpensOnce == Spec => []NothingOpensTwice
<1>1. ReadInv => NothingOpensTwice
  BY DEF ReadInv, ReadOnce, NothingOpensTwice
<1> QED BY <1>1, ReadInvariant, PTL

\* A copy of the session saved last, without the identity key, opens nothing its
\* owner has sent or opened before (e2e.js), once the pair the first chain was
\* made with is gone: keys are stepped on or removed as they are used, the
\* chains to come are made from a root no earlier chain contains, and from the
\* root all sessions start from no chain is made without that pair.
THEOREM RatchetForwardSecrecy == Spec => []SpentKeysAreGone
<1>1. RatchetInv /\ ReadInv /\ StartInv => SpentKeysAreGone
  <2> SUFFICES ASSUME RatchetInv, ReadInv, StartInv, Intact, NEW p \in Parties,
                      Current(p) # Nothing, ~FirstPair(Current(p)),
                      NEW m \in opened[p] \cup {x \in sent : x.from = p}, Yields(Current(p), m)
               PROVE  FALSE
    BY DEF SpentKeysAreGone
  <2> DEFINE q == Peer(p)
             s == last[p]
  <2>1. Good /\ ReadOnce /\ OneStart /\ Current(p) = s
    BY DEF RatchetInv, ReadInv, StartInv, Intact
  <2>2. s # Nothing /\ ~FirstPair(s) /\ Yields(s, m) /\ m.chain[1] = s.rootKey[1]
    BY <2>1 DEF OneStart, FromOne
  <2> HIDE DEF s
  <2>3. IsState(p, s) /\ Reading(q, s, opened[p])
    BY <2>1, <2>2 DEF Good, Session, IsSaved, ReadOnce, Reader, s
  <2>4. q \in Parties /\ Peer(q) = p
    BY TwoPeople
  <2>5. s.rootKey \in Seq(SUBSET Pairs) /\ Len(s.rootKey) \in Nat
    BY <2>3, LenProperties DEF IsState, Mine
  <2>6. ASSUME Len(m.chain) \in Nat \ {0}, Len(m.chain) <= Len(s.rootKey)
        PROVE  ~(\E root \in {ZeroRoot, s.rootKey} : Remakes(s, root, m.chain))
    <3>1. ~Remakes(s, s.rootKey, m.chain)
      BY <2>5, <2>6 DEF Remakes
    <3>2. ~Remakes(s, ZeroRoot, m.chain)
      <4>1. Len(ZeroRoot) = 0 /\ 1 \in 1..Len(m.chain)
        BY <2>6 DEF ZeroRoot
      <4>2. s.myRatchetPub \notin m.chain[1]
        BY <2>2 DEF FirstPair
      <4> QED BY <4>1, <4>2 DEF Remakes
    <3> QED BY <3>1, <3>2
  <2>7. ASSUME NEW x \in Parties, Mine(x, m.chain) PROVE Len(m.chain) \in Nat \ {0}
    BY <2>7, LenProperties DEF Mine
  <2>8. \A k \in ToSet(s.skippedKeys) :
           \E i \in 1..Len(s.skippedKeys) : k = s.skippedKeys[i] /\ Mine(q, k.chain)
    <3>1. s.skippedKeys \in Seq(KeyOf(q))
      BY <2>3 DEF Reading, Reads
    <3>2. DOMAIN s.skippedKeys = 1..Len(s.skippedKeys)
      BY <3>1, LenProperties
    <3> QED BY <3>1, <3>2, KeptKeys DEF ToSet
  <2>9. CASE m \in opened[p]
    <3>1. /\ Mine(q, m.chain) /\ Behind(m, s.rootKey, s.recvChain, s.recvMsgNum)
          /\ \A i \in 1..Len(s.skippedKeys) : ~Same(s.skippedKeys[i], m)
          /\ m.n \in Nat /\ s.recvMsgNum \in Nat
      BY <2>3, <2>9 DEF Reading, Reads
    <3>2. m.chain # s.sendChain
      BY <2>3, <2>4, <3>1, ApartByTurn DEF IsState, MadeWith
    <3>3. ~(\E k \in ToSet(s.skippedKeys) : k.chain = m.chain /\ k.n = m.n)
      BY <2>8, <3>1 DEF Same
    <3>4. ~(m.chain = s.recvChain /\ m.n >= s.recvMsgNum)
      BY <3>1 DEF Behind
    <3>5. ~(\E root \in {ZeroRoot, s.rootKey} : Remakes(s, root, m.chain))
      BY <2>4, <2>6, <2>7, <3>1 DEF Behind
    <3> QED BY <2>2, <3>2, <3>3, <3>4, <3>5 DEF Yields
  <2>10. CASE m \in sent /\ m.from = p
    <3>1. /\ MadeWith(p, m.chain, m.pub) /\ m.n \in Nat /\ Len(m.chain) <= Len(s.rootKey)
          /\ m.pub = s.myRatchetPub => m.n < s.sendMsgNum
      BY <2>1, <2>10 DEF Good, Passed, s
    <3>2. Mine(p, m.chain) /\ ~Mine(q, m.chain)
      BY <3>1, ApartByTurn DEF MadeWith
    <3>3. ~(\E k \in ToSet(s.skippedKeys) : k.chain = m.chain /\ k.n = m.n)
      BY <2>8, <3>2
    <3>4. m.chain # s.recvChain
      <4>1. m.chain # NoChain
        BY <3>2 DEF Mine, NoChain
      <4> QED BY <2>3, <3>2, <4>1 DEF Reading, Reads
    <3>5. ~(m.chain = s.sendChain /\ m.n >= s.sendMsgNum)
      <4>1. m.chain = s.sendChain => m.pub = s.myRatchetPub
        BY <2>3, <3>1, ChainNamesKey DEF IsState
      <4> QED BY <2>3, <3>1, <4>1 DEF IsState
    <3>6. ~(\E root \in {ZeroRoot, s.rootKey} : Remakes(s, root, m.chain))
      BY <2>6, <2>7, <3>1, <3>2
    <3> QED BY <2>2, <3>3, <3>4, <3>5, <3>6 DEF Yields
  <2> QED BY <2>9, <2>10
<1> QED BY <1>1, StartInvariant, PTL

\* A message that has not been opened opens, late, out of order or after its
\* chain has ended, unless it is among those ratchetDecrypt of e2e.js gives up.
THEOREM RatchetOpensAll == Spec => []EveryMessageOpens
<1>1. ASSUME Good, ReadOnce, Talking, NEW q \in Parties, Current(q) = last[q],
             NEW m \in sent \ opened[q], m.from = Peer(q), ~GivenUp(q, m)
      PROVE  Decrypted(q, last[q], m, <<q, keys[q] + 1>>).opens
  <2> DEFINE p == Peer(q)
             a == last[p]
             b == last[q]
             fresh == <<q, keys[q] + 1>>
             now == IF b = Nothing THEN 0 ELSE b.theirRatchetPub[2]
             r == ReadState(q, b, m, fresh)
  <2>1. p \in Parties /\ Peer(p) = q
    BY TwoPeople
  <2>2. /\ m.n \in Nat /\ m.pub \in {p} \X (Nat \ {0}) /\ m.pub[2] <= a.myRatchetPub[2]
        /\ a # Nothing /\ a.myRatchetPub \in {p} \X (Nat \ {0})
    BY <1>1, <2>1, SentFits
  <2>3. /\ ~(m.pub[2] < now - 1)
        /\ ~(m.pub[2] = now - 1 /\ m.n >= reach[q] + MaxSkip)
        /\ ~(m.pub[2] = now /\ m.n > b.recvMsgNum + MaxSkip)
        /\ ~(m.pub[2] > now /\ m.n > MaxSkip)
        /\ Key(m) \notin evicted[q]
    BY <1>1 DEF GivenUp, Key
  <2>4. SendsWell(p, a, sent) /\ ReadsWell(p, b, sent, opened[q], evicted[q], reach[q])
        /\ reach[q] \in Nat
    BY <1>1, <2>1 DEF Talking, Talks, Counted
  <2> HIDE DEF a, now
  <2>5. CASE b = Nothing
    <3>1. Ahead(p, a, b, sent) /\ m.pub = a.myRatchetPub /\ m.chain = a.sendChain
      BY <1>1, <2>5, FirstFound DEF a
    <3>2. m.chain = <<{m.pub, Identity(q)}>>
      BY <2>1, <2>5, <3>1 DEF Ahead
    <3>3. r.recvMsgNum = 0 /\ r.recvChain = <<{m.pub, Identity(q)}>>
      BY <2>5 DEF ReadState, InitReceiverState, KdfRk, Dh, ZeroRoot
    <3>4. m.n <= MaxSkip
      BY <2>2, <2>3, <2>5, RatchetAssumption DEF now
    <3> HIDE DEF r
    <3>5. m.n >= r.recvMsgNum /\ m.n - r.recvMsgNum <= MaxSkip /\ r.recvChain = m.chain
      BY <2>2, <3>2, <3>3, <3>4, RatchetAssumption
    <3> QED BY <2>5, <3>5, OpensOnChain DEF r
  <2>6. CASE b # Nothing /\ Kept(b, m) # {}
    <3> DEFINE j == CHOOSE j \in Kept(b, m) : TRUE
    <3>1. j \in DOMAIN b.skippedKeys /\ b.skippedKeys[j].pub = m.pub
      BY <2>6 DEF Kept
    <3>2. b.skippedKeys[j] \in Buffer(b)
      BY <3>1 DEF Buffer, ToSet
    <3>3. b.skippedKeys[j].chain = m.chain
      BY <1>1, <2>4, <2>6, <3>1, <3>2 DEF ReadsWell
    <3> QED BY <2>6, <3>3 DEF Decrypted
  <2>7. CASE b # Nothing /\ Kept(b, m) = {}
    <3>1. /\ IsState(q, b) /\ Fields \subseteq DOMAIN b
          /\ Reading(p, b, opened[q]) /\ b.recvMsgNum \in Nat
      BY <1>1, <2>7 DEF Good, Session, IsSaved, IsState, ReadOnce, Reader, Reading, Reads
    <3>2. /\ b.theirRatchetPub \in {p} \X Nat /\ now = b.theirRatchetPub[2]
      BY <2>7, <3>1 DEF IsState, now
    <3>3. \A k \in Buffer(b) : Key(k) # Key(m)
      BY <2>7 DEF Kept, Buffer, ToSet, Key
    <3>4. ~Due(b, m, reach[q])
      BY <1>1, <2>3, <2>4, <2>7, <3>3 DEF ReadsWell
    <3>5. m.n >= r.recvMsgNum /\ m.n - r.recvMsgNum <= MaxSkip /\ r.recvChain = m.chain
      <4>1. CASE m.pub = b.theirRatchetPub
        <5>1. r = b
          BY <2>7, <4>1 DEF ReadState
        <5>2. b.recvChain = m.chain
          BY <1>1, <2>4, <2>7, <4>1 DEF ReadsWell
        <5>3. ~(m.n < b.recvMsgNum) /\ ~(m.n > b.recvMsgNum + MaxSkip)
          BY <2>3, <3>2, <3>4, <4>1 DEF Due
        <5> QED BY <2>2, <3>1, <5>1, <5>2, <5>3, RatchetAssumption
      <4>2. CASE m.pub # b.theirRatchetPub
        <5>1. m.pub[2] # now
          BY <2>2, <3>2, <4>2
        <5>2. m.pub[2] > now
          BY <2>2, <2>3, <2>4, <3>2, <3>4, <5>1, RatchetAssumption DEF Due
        <5>3. ~Follows(b, a)
          BY <2>2, <3>2, <5>2 DEF Follows
        <5>4. Ahead(p, a, b, sent)
          <6>1. Placed(q, b, a, sent)
            BY <1>1, <2>1, TurnPlaced DEF Talking, a
          <6> QED BY <2>2, <2>7, <5>3, <6>1 DEF Placed, Ahead, Level
        <5>5. /\ a.sendChain = a.rootKey /\ a.myRatchetPub[2] = now + 1
              /\ a.rootKey = Append(b.rootKey, {a.myRatchetPub, b.myRatchetPub})
          BY <2>7, <3>2, <5>4 DEF Ahead
        <5>6. m.pub = a.myRatchetPub
          BY <2>2, <3>2, <5>2, <5>5
        <5>7. m.chain = Append(b.rootKey, {m.pub, b.myRatchetPub})
          BY <1>1, <2>2, <2>4, <5>5, <5>6 DEF SendsWell
        <5>8. r = DhRatchetReceive(b, m.pub, m.pn)
          BY <2>7, <4>2 DEF ReadState
        <5> DEFINE pub == m.pub
                   pn == m.pn
        <5>9. r.recvMsgNum = 0 /\ r.recvChain = Append(b.rootKey, {m.pub, b.myRatchetPub})
          <6> HIDE DEF pub, pn, b, r
          <6>1. LET x == DhRatchetReceive(b, pub, pn) IN
                x.recvMsgNum = 0 /\ x.recvChain = Append(b.rootKey, {pub, b.myRatchetPub})
            BY <3>1, NewChainStarts
          <6> QED BY <5>8, <6>1 DEF pub, pn
        <5> HIDE DEF r
        <5> QED BY <2>2, <2>3, <5>2, <5>7, <5>9, RatchetAssumption
      <4> QED BY <4>1, <4>2
    <3> HIDE DEF r
    <3> QED BY <2>7, <3>5, OpensOnChain DEF r
  <2> QED BY <2>5, <2>6, <2>7
<1>2. RatchetInv /\ ReadInv /\ TalkInv => EveryMessageOpens
  BY <1>1 DEF RatchetInv, ReadInv, TalkInv, EveryMessageOpens, Intact
<1> QED BY <1>2, TalkInvariant, PTL

\* Every copy of a session, also of one that was lost, and every message that
\* leaves, has numbers and keys of its type; no more late keys are kept than
\* allowed and no more than two PUTs wait.
THEOREM RatchetTypes == Spec => []TypeOK
BY TypedInit, TypedStep, TypedShows, PTL DEF Spec
=============================================================================
