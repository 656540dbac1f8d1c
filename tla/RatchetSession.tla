---------------------------- MODULE RatchetSession ----------------------------
(***************************************************************************)
(* The end-to-end encryption session of two people (web/e2e.js): a double  *)
(* ratchet whose first sending chain is made from the other's identity     *)
(* key.  Messages may arrive in any order, twice, damaged or never.  The   *)
(* state is kept in memory, in localStorage and in a copy on the user's    *)
(* pod, whose write is not awaited; a page may reload at any moment, and   *)
(* signing out empties localStorage.                                       *)
(*                                                                         *)
(* Keys are terms.  A key pair is <<p, i>>: p's identity (i = 0) or p's    *)
(* i-th ratchet pair.  A root key is the sequence of the key agreements    *)
(* that went into it, a chain is named by the root made with it, and a     *)
(* message key by its chain and number; a message opens under no other.    *)
(* Every session starts from the same public root.                         *)
(***************************************************************************)
EXTENDS Integers, Sequences, SequencesExt, Picking

CONSTANTS
    Parties,         \* the two people
    Podded,          \* those of them signed in to a pod
    MaxSkip,         \* message keys one message may make its reader derive
    MaxSkippedKeys,  \* message keys kept for late messages
    MaxTexts,        \* bound: texts both of them send
    MaxReloads       \* bound: reloads and sign-outs of both

ASSUME RatchetAssumption ==
    /\ \E p, q \in Parties : p # q /\ Parties = {p, q}
    /\ Podded \subseteq Parties
    /\ MaxSkip \in Nat /\ MaxSkippedKeys \in Nat /\ MaxTexts \in Nat /\ MaxReloads \in Nat

VARIABLES
    cache,    \* _stateCache: the session in memory, or Nothing
    stored,   \* the copy in localStorage
    pod,      \* the copy on the pod
    puts,     \* _podWrites: the PUT that is running and the one behind it
    late,     \* PUTs of pages that are gone
    ops,      \* _peerQueues: the ratchet operation that runs
    keys,     \* the ratchet pairs each has made
    texts, reloads,
    sent,     \* every message that ever left: it may arrive whenever and again
    opened,   \* history: the messages each has opened
    again,    \* history: those opened more than once
    last,     \* history: the session each saved last
    lost,     \* history: a load did not find the session saved last
    reach,    \* history: how far each had read in the chain before this one
    evicted   \* history: the keys dropped because too many were kept

disk == <<stored, pod, puts, late>>
page == <<cache, ops>>
history == <<opened, again, last, lost, reach, evicted>>
vars == <<page, disk, keys, texts, reloads, sent, history>>

Peer(p) == CHOOSE q \in Parties : q # p
Identity(p) == <<p, 0>>
Nothing == [ver |-> 0]

\* X25519 of one's private and the other's public key.
Dh(k1, k2) == {k1, k2}

\* One output, halved into the next root key and a chain key.
KdfRk(root, dh) == Append(root, dh)

\* Thirty-two zero bytes: no key agreement has gone into it.
ZeroRoot == <<>>

NoChain == <<>>

Least(m, n) == IF m < n THEN m ELSE n

Init ==
    /\ cache = [p \in Parties |-> Nothing]
    /\ stored = [p \in Parties |-> Nothing]
    /\ pod = [p \in Parties |-> Nothing]
    /\ puts = [p \in Parties |-> <<>>]
    /\ late = [p \in Parties |-> {}]
    /\ ops = [p \in Parties |-> <<>>]
    /\ keys = [p \in Parties |-> 0]
    /\ texts = 0
    /\ reloads = 0
    /\ sent = {}
    /\ opened = [p \in Parties |-> {}]
    /\ again = {}
    /\ last = [p \in Parties |-> Nothing]
    /\ lost = FALSE
    /\ reach = [p \in Parties |-> 0]
    /\ evicted = [p \in Parties |-> {}]

-----------------------------------------------------------------------------
(* The ratchet, as functions of a session.                                 *)

InitSenderState(p, fresh) ==
    LET root == KdfRk(ZeroRoot, Dh(fresh, Identity(Peer(p)))) IN
    [ver |-> 0, rootKey |-> root, myRatchetPub |-> fresh,
     theirRatchetPub |-> Identity(Peer(p)), pendingDhRatchet |-> FALSE,
     sendChain |-> root, sendMsgNum |-> 0, sendPrevLen |-> 0,
     recvChain |-> NoChain, recvMsgNum |-> 0, skippedKeys |-> <<>>]

\* The answering side makes its own sending chain in the same go.
InitReceiverState(p, pub, fresh) ==
    LET root == KdfRk(ZeroRoot, Dh(pub, Identity(p)))
        next == KdfRk(root, Dh(pub, fresh)) IN
    [ver |-> 0, rootKey |-> next, myRatchetPub |-> fresh,
     theirRatchetPub |-> pub, pendingDhRatchet |-> FALSE,
     sendChain |-> next, sendMsgNum |-> 0, sendPrevLen |-> 0,
     recvChain |-> root, recvMsgNum |-> 0, skippedKeys |-> <<>>]

Skipped(pub, n, chain) == [pub |-> pub, n |-> n, chain |-> chain]

\* Step the receiving chain up to message `stop`, keeping the keys on the way.
SkipTo(s, stop) ==
    IF s.recvMsgNum >= stop THEN s
    ELSE [s EXCEPT !.recvMsgNum = stop,
                   !.skippedKeys = @ \o [i \in 1..(stop - s.recvMsgNum) |->
                        Skipped(s.theirRatchetPub, s.recvMsgNum + i - 1, s.recvChain)]]

\* Mutant: one key too many is kept.
CapOneMore(kept) == IF Len(kept) <= MaxSkippedKeys + 1 THEN kept
                    ELSE SubSeq(kept, Len(kept) - MaxSkippedKeys, Len(kept))

\* The oldest keys go first.
CapSkippedKeys(kept) == IF Len(kept) <= MaxSkippedKeys THEN kept
                        ELSE SubSeq(kept, Len(kept) - MaxSkippedKeys + 1, Len(kept))

\* Mutant: the keys of the chain that ends are dropped with the older ones.
RetireAll(s, pn) == [s EXCEPT !.skippedKeys = <<>>]

\* Before a new chain: forget the keys of chains older than the one that
\* ends, and keep those of its messages that have not come, as far as allowed.
Retire(s, pn) ==
    LET young == {k \in ToSet(s.skippedKeys) : k.pub = s.theirRatchetPub}
        kept == [s EXCEPT !.skippedKeys = Picked(@, young)] IN
    IF s.recvChain = NoChain THEN kept ELSE SkipTo(kept, Least(pn, s.recvMsgNum + MaxSkip))

DhRatchetReceive(s, pub, pn) ==
    LET r == Retire(s, pn)
        root == KdfRk(s.rootKey, Dh(pub, s.myRatchetPub)) IN
    [r EXCEPT !.rootKey = root, !.recvChain = root, !.recvMsgNum = 0,
              !.theirRatchetPub = pub, !.pendingDhRatchet = TRUE]

DhRatchetSend(s, fresh) ==
    LET root == KdfRk(s.rootKey, Dh(fresh, s.theirRatchetPub)) IN
    [s EXCEPT !.sendPrevLen = s.sendMsgNum, !.sendChain = root, !.sendMsgNum = 0,
              !.rootKey = root, !.myRatchetPub = fresh, !.pendingDhRatchet = FALSE]

\* The session a text is encrypted with.
SendState(p, s, fresh) ==
    IF s = Nothing THEN InitSenderState(p, fresh)
    ELSE IF s.pendingDhRatchet THEN DhRatchetSend(s, fresh) ELSE s

Kept(s, m) == {i \in DOMAIN s.skippedKeys :
                  s.skippedKeys[i].pub = m.pub /\ s.skippedKeys[i].n = m.n}

\* The session on whose receiving chain message m is looked for.
ReadState(p, s, m, fresh) ==
    IF s = Nothing THEN InitReceiverState(p, m.pub, fresh)
    ELSE IF m.pub # s.theirRatchetPub THEN DhRatchetReceive(s, m.pub, m.pn) ELSE s

\* Mutant: a key that has been used stays in the buffer.
UseKeptAgain(s, i) == s

UseKept(s, i) == [s EXCEPT !.skippedKeys = RemoveAt(@, i)]

\* What p's session s makes of message m: whether it finds the key, the session
\* it leaves, and the keys that found no room.  A key that was kept is tried
\* before any ratchet step.
Decrypted(p, s, m, fresh) ==
    IF s # Nothing /\ Kept(s, m) # {}
    THEN LET i == CHOOSE i \in Kept(s, m) : TRUE IN
         [opens |-> s.skippedKeys[i].chain = m.chain, state |-> UseKept(s, i), dropped |-> {}]
    ELSE LET r == ReadState(p, s, m, fresh)
             u == SkipTo(r, m.n)
             kept == CapSkippedKeys(u.skippedKeys) IN
         [opens |-> /\ m.n >= r.recvMsgNum
                    /\ m.n - r.recvMsgNum <= MaxSkip
                    /\ r.recvChain = m.chain,
          state |-> [u EXCEPT !.recvMsgNum = @ + 1, !.skippedKeys = kept],
          dropped |-> ToSet(u.skippedKeys) \ ToSet(kept)]

-----------------------------------------------------------------------------
(* Loading and saving.                                                     *)

\* Mutant: the copy on the pod goes before the one in localStorage.
PodFirst(local, remote) == IF remote # Nothing THEN remote ELSE local

\* The newest copy wins, on a tie the local one.
Newest(local, remote) == IF remote.ver > local.ver THEN remote ELSE local

\* A write that waits is replaced by a newer one; the running one goes on.
Enqueue(p, s) == IF p \notin Podded THEN <<>>
                 ELSE IF Len(puts[p]) < 2 THEN Append(puts[p], s) ELSE <<puts[p][1], s>>

\* The session of p when a read of the pod's copy gives `remote`.
Loaded(p, remote) == IF cache[p] # Nothing THEN cache[p] ELSE Newest(stored[p], remote)

\* What is found is kept in memory, and written to a pod that gave no copy.
LoadRatchetState(p, remote) ==
    LET s == Loaded(p, remote) IN
    /\ cache' = [cache EXCEPT ![p] = s]
    /\ puts' = IF cache[p] = Nothing /\ s # Nothing /\ remote = Nothing
               THEN [puts EXCEPT ![p] = Enqueue(p, s)] ELSE puts
    /\ lost' = (lost \/ s # last[p])

\* In memory, in localStorage and, some time, on the pod.
SaveRatchetState(p, s) ==
    LET t == [s EXCEPT !.ver = @ + 1] IN
    /\ cache' = [cache EXCEPT ![p] = t]
    /\ stored' = [stored EXCEPT ![p] = t]
    /\ puts' = [puts EXCEPT ![p] = Enqueue(p, t)]
    /\ last' = [last EXCEPT ![p] = t]
    /\ UNCHANGED <<pod, late>>

PutEnds(p, landed) ==
    /\ puts[p] # <<>>
    /\ pod' = IF landed THEN [pod EXCEPT ![p] = Head(puts[p])] ELSE pod
    /\ puts' = [puts EXCEPT ![p] = Tail(@)]
    /\ UNCHANGED <<page, stored, late, keys, texts, reloads, sent, history>>

\* A PUT of a page that is gone reaches the pod after all.
LateLands(p) ==
    \E s \in late[p] :
        /\ pod' = [pod EXCEPT ![p] = s]
        /\ late' = [late EXCEPT ![p] = @ \ {s}]
        /\ UNCHANGED <<page, stored, puts, keys, texts, reloads, sent, history>>

Leave(p) ==
    /\ reloads < MaxReloads
    /\ reloads' = reloads + 1
    /\ cache' = [cache EXCEPT ![p] = Nothing]
    /\ ops' = [ops EXCEPT ![p] = <<>>]
    /\ late' = IF puts[p] = <<>> THEN late ELSE [late EXCEPT ![p] = @ \cup {Head(puts[p])}]
    /\ puts' = [puts EXCEPT ![p] = <<>>]
    /\ UNCHANGED <<pod, keys, texts, sent, history>>

Reload(p) == Leave(p) /\ UNCHANGED stored

\* Sign out, and in again: the sessions in localStorage are cleared.
SignOut(p) == p \in Podded /\ Leave(p) /\ stored' = [stored EXCEPT ![p] = Nothing]

-----------------------------------------------------------------------------
(* The two operations, each from its load to its save.                     *)

\* Mutants: with a session, two operations of a kind do not wait for each other.
Overlap(p, op, kind) ==
    \/ ops[p] = <<>>
    \/ Len(ops[p]) = 1 /\ cache[p] # Nothing /\ op.kind = kind /\ ops[p][1].kind = kind
SerializeReads(p, op) == Overlap(p, op, "encrypt")
SerializeSends(p, op) == Overlap(p, op, "decrypt")

\* One operation of a peer at a time.
Serialize(p, op) == ops[p] = <<>>

Begin(p, op) ==
    /\ Serialize(p, op)
    /\ \E remote \in {pod[p], Nothing} :
        /\ LoadRatchetState(p, remote)
        /\ ops' = [ops EXCEPT ![p] = Append(@, [kind |-> op.kind, m |-> op.m, state |-> Loaded(p, remote)])]
    /\ UNCHANGED <<stored, pod, late, keys, reloads, sent, opened, again, last, reach, evicted>>

BeginEncrypt(p) ==
    /\ texts < MaxTexts
    /\ texts' = texts + 1
    /\ Begin(p, [kind |-> "encrypt", m |-> [text |-> texts']])

BeginDecrypt(p, m) ==
    /\ m.from = Peer(p)
    /\ Begin(p, [kind |-> "decrypt", m |-> m])
    /\ UNCHANGED texts

End(p, i) == ops' = [ops EXCEPT ![p] = RemoveAt(@, i)]

Made(p, fresh, s) == keys' = IF s.myRatchetPub = fresh THEN [keys EXCEPT ![p] = @ + 1] ELSE keys

RatchetEncrypt(p, i) ==
    LET op == ops[p][i]
        fresh == <<p, keys[p] + 1>>
        s == SendState(p, op.state, fresh) IN
    /\ op.kind = "encrypt"
    /\ sent' = sent \cup {[from |-> p, text |-> op.m.text, pub |-> s.myRatchetPub,
                           n |-> s.sendMsgNum, pn |-> s.sendPrevLen, chain |-> s.sendChain]}
    /\ SaveRatchetState(p, [s EXCEPT !.sendMsgNum = @ + 1])
    /\ Made(p, fresh, s)
    /\ End(p, i)
    /\ UNCHANGED <<texts, reloads, opened, again, lost, reach, evicted>>

\* Mutant: the ratchet steps of a message are saved whether it opens or not.
RefusedSaved(p, i) ==
    /\ End(p, i)
    /\ SaveRatchetState(p, Decrypted(p, ops[p][i].state, ops[p][i].m, <<p, keys[p] + 1>>).state)
    /\ UNCHANGED <<keys, texts, reloads, sent, opened, again, lost, reach, evicted>>

\* Nothing is kept of a session that did not open the message.
Refused(p, i) ==
    /\ End(p, i)
    /\ UNCHANGED <<cache, disk, keys, texts, reloads, sent, history>>

RatchetDecrypt(p, i, damaged) ==
    LET op == ops[p][i]
        m == op.m
        fresh == <<p, keys[p] + 1>>
        d == Decrypted(p, op.state, m, fresh)
        moves == op.state # Nothing /\ d.state.theirRatchetPub # op.state.theirRatchetPub IN
    /\ op.kind = "decrypt"
    /\ IF damaged \/ ~d.opens THEN Refused(p, i)
       ELSE /\ SaveRatchetState(p, d.state)
            /\ Made(p, fresh, d.state)
            /\ End(p, i)
            /\ opened' = [opened EXCEPT ![p] = @ \cup {m}]
            /\ again' = again \cup (opened[p] \cap {m})
            /\ reach' = IF moves THEN [reach EXCEPT ![p] = op.state.recvMsgNum] ELSE reach
            /\ evicted' = [evicted EXCEPT ![p] = @ \cup {<<k.pub, k.n>> : k \in d.dropped}]
            /\ UNCHANGED <<texts, reloads, sent, lost>>

Next ==
    \E p \in Parties :
        \/ BeginEncrypt(p)
        \/ \E m \in sent : BeginDecrypt(p, m)
        \/ \E i \in DOMAIN ops[p] : RatchetEncrypt(p, i)
        \/ \E i \in DOMAIN ops[p], damaged \in BOOLEAN : RatchetDecrypt(p, i, damaged)
        \/ \E landed \in BOOLEAN : PutEnds(p, landed)
        \/ LateLands(p)
        \/ Reload(p)
        \/ SignOut(p)

Spec == Init /\ [][Next]_vars

-----------------------------------------------------------------------------
Keys == Parties \X (0..MaxTexts + MaxReloads + 1)
Chains == Seq(SUBSET Keys)
Message == [from : Parties, text : 1..MaxTexts, pub : Keys, n : 0..MaxTexts, pn : 0..MaxTexts, chain : Chains]
IsSession(s) ==
    \/ s = Nothing
    \/ /\ s.ver \in Nat \ {0}
       /\ {s.rootKey, s.sendChain, s.recvChain} \subseteq Chains
       /\ {s.myRatchetPub, s.theirRatchetPub} \subseteq Keys
       /\ {s.sendMsgNum, s.sendPrevLen, s.recvMsgNum} \subseteq 0..MaxTexts
       /\ Len(s.skippedKeys) <= MaxSkippedKeys
       /\ \A k \in ToSet(s.skippedKeys) : k.pub \in Keys /\ k.n \in 0..MaxTexts /\ k.chain \in Chains

TypeOK ==
    /\ \A p \in Parties :
        /\ \A s \in {cache[p], stored[p], pod[p], last[p]} \cup late[p] \cup ToSet(puts[p]) : IsSession(s)
        /\ Len(puts[p]) <= 2
        /\ opened[p] \subseteq sent
        /\ evicted[p] \subseteq Keys \X (0..MaxTexts)
    /\ keys \in [Parties -> 0..MaxTexts + MaxReloads + 1]
    /\ texts \in 0..MaxTexts
    /\ reloads \in 0..MaxReloads
    /\ sent \subseteq Message
    /\ again \subseteq sent
    /\ lost \in BOOLEAN
    /\ reach \in [Parties -> 0..MaxTexts]

\* The session a party goes on with.
Current(p) == Loaded(p, pod[p])
Intact == ~lost /\ \A p \in Parties : Current(p) = last[p]

\* A reload never finds an older session than the one saved last, whichever
\* PUTs were lost or are still on their way; until a sign-out it does not
\* even need the pod.
LoadsNewest ==
    ~lost => \A p \in Parties :
        stored[p] # Nothing => Newest(stored[p], pod[p]) = last[p]

\* No two messages are encrypted under the same key.
NoKeyIsReused ==
    ~lost => \A m1, m2 \in sent :
        m1 # m2 => <<m1.chain, m1.n>> # <<m2.chain, m2.n>>

\* No message opens twice, however often it is delivered.
NothingOpensTwice == ~lost => again = {}

\* With root key `root`, the private key of the ratchet pair in s and every
\* public key one can make this chain.
Remakes(s, root, chain) ==
    /\ Len(root) < Len(chain) /\ IsPrefix(root, chain)
    /\ \A i \in Len(root) + 1 .. Len(chain) : s.myRatchetPub \in chain[i]

\* What a copy of session s gives of message m: its key when that is kept or
\* still ahead in a chain of s, or the chain, made again from the root key in s
\* or from the one all sessions start from.
Yields(s, m) ==
    \/ \E k \in ToSet(s.skippedKeys) : k.chain = m.chain /\ k.n = m.n
    \/ m.chain = s.recvChain /\ m.n >= s.recvMsgNum
    \/ m.chain = s.sendChain /\ m.n >= s.sendMsgNum
    \/ \E root \in {ZeroRoot, s.rootKey} : Remakes(s, root, m.chain)

\* Who began the session still has the pair the first chain was made with: up
\* to the first text after the first reply.
FirstPair(s) == s.myRatchetPub \in s.rootKey[1]

\* Forward secrecy: who copies the session of a party, without the identity
\* key it is kept apart from, cannot open what that party has sent or opened
\* before.  It begins with the first new pair of the party that began: until
\* then a copy of that party's session opens all it has sent and read.
SpentKeysAreGone ==
    Intact => \A p \in Parties : Current(p) # Nothing /\ ~FirstPair(Current(p)) =>
        \A m \in opened[p] \cup {x \in sent : x.from = p} : ~Yields(Current(p), m)

\* Both began, each before the other's first message arrived.
Crossed == \A p \in Parties : \E m \in sent : m.from = p /\ Len(m.chain) = 1

\* What a late message may be refused for: it is two chains old, further
\* ahead than one message may skip, of a chain that ended long before it, or
\* its key found no room.
GivenUp(q, m) ==
    LET s == Current(q)
        chain == m.pub[2]
        now == IF s = Nothing THEN 0 ELSE s.theirRatchetPub[2] IN
    \/ chain < now - 1
    \/ chain = now - 1 /\ m.n >= reach[q] + MaxSkip
    \/ chain = now /\ m.n > s.recvMsgNum + MaxSkip
    \/ chain > now /\ m.n > MaxSkip
    \/ <<m.pub, m.n>> \in evicted[q]

\* A message that arrives late, out of order, or after its chain has ended
\* opens, whatever has been delivered damaged or twice before it.
EveryMessageOpens ==
    Intact /\ ~Crossed => \A q \in Parties : \A m \in sent \ opened[q] :
        m.from = Peer(q) /\ ~GivenUp(q, m)
          => Decrypted(q, Current(q), m, <<q, keys[q] + 1>>).opens
=============================================================================
