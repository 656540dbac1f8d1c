------------------------ MODULE RelayDelivery_proofs ------------------------
(***************************************************************************)
(* The sending gateway by itself, and the two gateways with the wire       *)
(* between them, which keep the promise of AbstractDelivery.               *)
(*                                                                         *)
(* The sender's invariant is SenderOK: the verdict of a message that is    *)
(* first POSTed is still open, one with a row of pending_relays waits, and *)
(* what the holder of the lock has still to do was queued once.  Calm adds *)
(* what is lost when a removal of the contact fails rows without the lock. *)
(* Together adds the receiver: seen is taken unless something went wrong,  *)
(* and what is answered with success was seen.                             *)
(***************************************************************************)
EXTENDS RelayDelivery, RelayReceiver_proofs, Picking_proofs, FiniteSetTheorems

-----------------------------------------------------------------------------
(* The sender: types.                                                      *)

\* A worker after a step: what it has changed, and that it is one.
Now(v, kind, rows, awaits) ==
    v \in Worker /\ v.kind = kind /\ v.rows = rows /\ v.awaits = awaits

LEMMA WorkerFields ==
    ASSUME NEW w \in Worker, NEW m \in Msgs \cup {NoMsg}, NEW q \in Seq(Msgs),
           NEW kind \in {"sweep", "pass", "flush"}
    PROVE  /\ w.rows \in Seq(Msgs) /\ w.awaits \in Msgs \cup {NoMsg}
           /\ Now(Free, "free", <<>>, NoMsg)
           /\ Now([Free EXCEPT !.kind = kind, !.rows = q], kind, q, NoMsg)
           /\ Now([w EXCEPT !.rows = q], w.kind, q, w.awaits)
           /\ Now([w EXCEPT !.awaits = m], w.kind, w.rows, m)
           /\ Now([w EXCEPT !.awaits = m, !.rows = q], w.kind, q, m)
           /\ Now([w EXCEPT !.awaits = m, !.up = TRUE], w.kind, w.rows, m)
<1>1. w.rows \in Seq(Msgs) /\ w.awaits \in Msgs \cup {NoMsg}
  BY DEF Worker
<1>2. <<>> \in Seq(Msgs)
  OBVIOUS
<1>3. Now(Free, "free", <<>>, NoMsg)
  BY <1>2 DEF Worker, Free, Now
<1>4. Now([Free EXCEPT !.kind = kind, !.rows = q], kind, q, NoMsg)
  BY DEF Worker, Free, Now
<1>5. Now([w EXCEPT !.rows = q], w.kind, q, w.awaits)
  BY DEF Worker, Now
<1>6. Now([w EXCEPT !.awaits = m], w.kind, w.rows, m)
  BY DEF Worker, Now
<1>7. Now([w EXCEPT !.awaits = m, !.rows = q], w.kind, q, m)
  BY DEF Worker, Now
<1>8. Now([w EXCEPT !.awaits = m, !.up = TRUE], w.kind, w.rows, m)
  BY DEF Worker, Now
<1> QED
  BY <1>1, <1>3, <1>4, <1>5, <1>6, <1>7, <1>8

\* The rows a pass or a flush takes, and those it leaves.
LEMMA RowsTaken ==
    ASSUME SenderTypeOK, SenderAssumption
    PROVE  /\ Expired \in Seq(Msgs) /\ ToSet(Expired) \subseteq ToSet(pending)
           /\ \A n \in Nat :
                 Live(n) \in Seq(Msgs) /\ ToSet(Live(n)) \subseteq ToSet(pending)
           /\ Picked(pending, Msgs \ ToSet(Expired)) \in Seq(Msgs)
           /\ ToSet(Picked(pending, Msgs \ ToSet(Expired)))
                = ToSet(pending) \ ToSet(Expired)
<1>0. pending \in Seq(Msgs) /\ ToSet(pending) \subseteq Msgs
  BY DEF SenderTypeOK, ToSet
<1>1. ASSUME NEW q \in Seq(Msgs), NEW n \in Nat
      PROVE  /\ SubSeq(q, 1, IF Len(q) < n THEN Len(q) ELSE n) \in Seq(Msgs)
             /\ ToSet(SubSeq(q, 1, IF Len(q) < n THEN Len(q) ELSE n)) \subseteq ToSet(q)
  <2> DEFINE k == IF Len(q) < n THEN Len(q) ELSE n
  <2>1. k \in Nat /\ k <= Len(q) /\ \A i \in 1..k : q[i] \in Msgs
    OBVIOUS
  <2> HIDE DEF k
  <2>2. /\ SubSeq(q, 1, k) \in Seq(Msgs) /\ Len(SubSeq(q, 1, k)) = k
        /\ \A i \in 1..k : SubSeq(q, 1, k)[i] = q[i]
    BY <2>1
  <2>3. ToSet(SubSeq(q, 1, k)) \subseteq ToSet(q)
    BY <2>1, <2>2 DEF ToSet
  <2> QED
    BY <2>2, <2>3 DEF k
<1>2. ASSUME NEW T
      PROVE  /\ Picked(pending, T) \in Seq(Msgs)
             /\ ToSet(Picked(pending, T)) = ToSet(pending) \cap T
  BY <1>0, PickedElements
<1>3. PassLimit \in Nat
  BY DEF SenderAssumption
<1>4. Expired \in Seq(Msgs) /\ ToSet(Expired) \subseteq ToSet(pending)
  BY <1>1, <1>2, <1>3 DEF Expired
<1>5. \A n \in Nat : Live(n) \in Seq(Msgs) /\ ToSet(Live(n)) \subseteq ToSet(pending)
  BY <1>1, <1>2 DEF Live
<1> HIDE DEF Expired, Live
<1>6. ToSet(pending) \cap (Msgs \ ToSet(Expired)) = ToSet(pending) \ ToSet(Expired)
  BY <1>0
<1> QED
  BY <1>2, <1>4, <1>5, <1>6

LEMMA RowDropped ==
    ASSUME SenderTypeOK, NEW m
    PROVE  /\ WithoutRow(m) \in Seq(Msgs)
           /\ ToSet(WithoutRow(m)) = ToSet(pending) \ {m}
<1>1. pending \in Seq(Msgs) /\ ToSet(pending) \subseteq Msgs
  BY DEF SenderTypeOK, ToSet
<1> QED
  BY <1>1, PickedElements DEF WithoutRow

LEMMA SeqParts ==
    ASSUME NEW S, NEW q \in Seq(S)
    PROVE  /\ ToSet(q) \subseteq S
           /\ q # <<>> => /\ Head(q) \in ToSet(q) /\ Tail(q) \in Seq(S)
                          /\ ToSet(Tail(q)) \subseteq ToSet(q)
                          /\ ToSet(q) \subseteq ToSet(Tail(q)) \cup {Head(q)}
           /\ \A x \in S : Append(q, x) \in Seq(S) /\ ToSet(Append(q, x)) = ToSet(q) \cup {x}
           /\ ToSet(<<>>) = {}
<1>1. ToSet(q) \subseteq S /\ ToSet(<<>>) = {}
  BY DEF ToSet
<1>2. ASSUME q # <<>>
      PROVE  /\ Head(q) \in ToSet(q) /\ Tail(q) \in Seq(S)
             /\ ToSet(Tail(q)) \subseteq ToSet(q)
             /\ ToSet(q) \subseteq ToSet(Tail(q)) \cup {Head(q)}
  <2>1. /\ Len(q) >= 1 /\ Tail(q) \in Seq(S) /\ Len(Tail(q)) = Len(q) - 1
        /\ Head(q) = q[1] /\ \A i \in 1..Len(Tail(q)) : Tail(q)[i] = q[i + 1]
    BY <1>2
  <2>2. \A i \in 1..Len(q) : i = 1 \/ (i - 1 \in 1..Len(Tail(q)) /\ q[i] = Tail(q)[i - 1])
    BY <2>1
  <2>3. DOMAIN q = 1..Len(q) /\ DOMAIN Tail(q) = 1..Len(Tail(q)) /\ 1 \in 1..Len(q)
    BY <2>1
  <2>4. \A i \in 1..Len(Tail(q)) : i + 1 \in 1..Len(q)
    BY <2>1
  <2> DEFINE t == Tail(q)
             h == Head(q)
  <2> HIDE DEF t, h
  <2>5. h \in ToSet(q)
    BY <2>1, <2>3 DEF ToSet, h
  <2>6. ToSet(t) \subseteq ToSet(q)
    BY <2>1, <2>3, <2>4 DEF ToSet, t
  <2>7. ToSet(q) \subseteq ToSet(t) \cup {h}
    <3>1. \A i \in 1..Len(q) : q[i] = h \/ \E j \in 1..Len(t) : q[i] = t[j]
      BY <2>1, <2>2 DEF t, h
    <3> QED
      BY <2>3, <3>1 DEF ToSet, t
  <2> QED
    BY <2>1, <2>5, <2>6, <2>7 DEF t, h
<1>3. ASSUME NEW x \in S
      PROVE  Append(q, x) \in Seq(S) /\ ToSet(Append(q, x)) = ToSet(q) \cup {x}
  <2>1. /\ Append(q, x) \in Seq(S) /\ Len(Append(q, x)) = Len(q) + 1 /\ Len(q) \in Nat
        /\ Append(q, x)[Len(q) + 1] = x
        /\ \A i \in 1..Len(q) : Append(q, x)[i] = q[i]
    OBVIOUS
  <2> DEFINE a == Append(q, x)
             len == Len(q)
  <2>2. \A i \in 1..(len + 1) : i = len + 1 \/ i \in 1..len
    BY <2>1
  <2> HIDE DEF a, len
  <2>3. ToSet(a) = ToSet(q) \cup {x}
    BY <2>1, <2>2 DEF ToSet, a, len
  <2> QED
    BY <2>1, <2>3 DEF a
<1> QED
  BY <1>1, <1>2, <1>3

-----------------------------------------------------------------------------
(* The sender: the inductive invariant.                                    *)

\* A first POST that is awaited is of a message its client was told nothing of.
FirstTry ==
    \A m \in Msgs :
       /\ tries[m] = 0 => verdict[m] = "none"
       /\ m \in posting => tries[m] # 0 /\ verdict[m] = "none"

\* What the holder of the lock has still to do.
InHand == ToSet(worker.rows) \cup ({worker.awaits} \ {NoMsg})

\* It is of messages that were queued once; those of a sweep are no rows any more.
HandsOK ==
    /\ worker.awaits # NoMsg => worker.kind \in {"pass", "flush"}
    /\ worker.kind = "sweep" => ToSet(worker.rows) \cap ToSet(pending) = {}
    /\ \A m \in InHand \cup ToSet(failing) :
          verdict[m] \in {"waiting", "delivered", "expired"}

\* As long as no removal was heard of, a row is in the hands of one at a time.
Calm ==
    /\ failing = <<>> /\ ~notice
    /\ \A m \in InHand :
          verdict[m] # IF worker.kind = "sweep" THEN "delivered" ELSE "expired"

SenderOK ==
    /\ SenderTypeOK
    /\ FirstTry
    /\ RowsAreWaiting
    /\ HandsOK

\* What a step of the sender keeps.
KeepsOK == SenderOK' /\ (Calm => Calm')

LEMMA PostKeeps ==
    ASSUME SenderTypeOK, NEW m \in Msgs, Post(m)
    PROVE  /\ tries' \in [Msgs -> 0..MaxTries]
           /\ tries'[m] # 0 /\ \A n \in Msgs : tries[n] # 0 => tries'[n] # 0
           /\ \A n \in Msgs \ {m} : tries'[n] = tries[n]
<1>1. /\ tries[m] \in Nat /\ tries[m] < MaxTries
      /\ tries[m] + 1 \in 0..MaxTries /\ tries[m] + 1 # 0
  BY SenderAssumption DEF Post, SenderTypeOK
<1> QED
  BY <1>1 DEF Post, SenderTypeOK

LEMMA SendKeeps ==
    ASSUME SenderOK, NEW m \in Msgs, Send(m)
    PROVE  KeepsOK
<1>1. /\ tries' \in [Msgs -> 0..MaxTries]
      /\ tries'[m] # 0 /\ \A n \in Msgs : tries[n] # 0 => tries'[n] # 0
      /\ tries[m] = 0 /\ posting' = posting \cup {m}
      /\ UNCHANGED <<oldSign, pending, stale, worker, failing, notice, removed,
                     verdict, restarts>>
  BY PostKeeps DEF Send, SenderOK
<1>2. SenderTypeOK'
  BY <1>1 DEF SenderOK, SenderTypeOK
<1>3. FirstTry'
  BY <1>1 DEF SenderOK, FirstTry
<1>4. RowsAreWaiting' /\ HandsOK' /\ (Calm => Calm')
  BY <1>1 DEF SenderOK, RowsAreWaiting, HandsOK, InHand, Calm
<1> QED
  BY <1>2, <1>3, <1>4 DEF KeepsOK, SenderOK

LEMMA FirstKeeps ==
    ASSUME SenderOK, NEW m \in Msgs, FirstOk(m) \/ FirstFails(m)
    PROVE  KeepsOK
<1>0. SenderTypeOK /\ FirstTry /\ RowsAreWaiting /\ HandsOK /\ pending \in Seq(Msgs)
      /\ worker \in Worker
  BY DEF SenderOK, SenderTypeOK
<1>1. /\ m \in posting /\ posting' = posting \ {m}
      /\ \/ pending' = pending /\ verdict' = [verdict EXCEPT ![m] = "sent"]
         \/ pending' = Append(pending, m) /\ verdict' = [verdict EXCEPT ![m] = "waiting"]
      /\ UNCHANGED <<tries, oldSign, stale, worker, failing, notice, removed, restarts>>
  BY DEF FirstOk, FirstFails
<1>2. /\ pending' \in Seq(Msgs)
      /\ \/ ToSet(pending') = ToSet(pending) /\ verdict'[m] = "sent"
         \/ ToSet(pending') = ToSet(pending) \cup {m} /\ verdict'[m] = "waiting"
  <2>1. Append(pending, m) \in Seq(Msgs) /\ ToSet(Append(pending, m)) = ToSet(pending) \cup {m}
    BY <1>0, SeqParts
  <2>2. DOMAIN verdict = Msgs
    BY <1>0 DEF SenderTypeOK
  <2> QED
    BY <1>0, <1>1, <2>1, <2>2
<1>3. verdict[m] = "none" /\ tries[m] # 0
  BY <1>0, <1>1 DEF FirstTry
<1>4. verdict' \in [Msgs -> Verdict] /\ \A n \in Msgs \ {m} : verdict'[n] = verdict[n]
  BY <1>0, <1>1 DEF SenderTypeOK, Verdict
<1>5. ToSet(pending) \subseteq Msgs /\ ToSet(failing) \subseteq Msgs /\ InHand \subseteq Msgs
  <2>1. worker.rows \in Seq(Msgs) /\ worker.awaits \in Msgs \cup {NoMsg}
    BY <1>0 DEF Worker
  <2>2. failing \in Seq(Msgs)
    BY <1>0 DEF SenderTypeOK
  <2>3. \A q \in Seq(Msgs) : ToSet(q) \subseteq Msgs
    BY SeqParts
  <2> QED
    BY <1>0, <2>1, <2>2, <2>3 DEF InHand
<1>6. m \notin ToSet(pending) /\ m \notin InHand /\ m \notin ToSet(failing)
  BY <1>0, <1>3 DEF RowsAreWaiting, HandsOK
<1>7. SenderTypeOK'
  BY <1>0, <1>1, <1>2, <1>4 DEF SenderTypeOK
<1>8. FirstTry'
  BY <1>0, <1>1, <1>3, <1>4 DEF FirstTry
<1>9. RowsAreWaiting'
  BY <1>0, <1>2, <1>4, <1>5, <1>6 DEF RowsAreWaiting
<1>10. InHand' = InHand /\ ToSet(worker.rows) \subseteq InHand
  BY <1>1 DEF InHand
<1>11. HandsOK' /\ (Calm => Calm')
  <2>1. \A n \in InHand \cup ToSet(failing) : verdict'[n] = verdict[n]
    BY <1>4, <1>5, <1>6
  <2> QED
    BY <1>0, <1>1, <1>2, <1>6, <1>10, <2>1 DEF HandsOK, Calm
<1> QED
  BY <1>7, <1>8, <1>9, <1>11 DEF KeepsOK, SenderOK

\* The holder of the lock is told something else to do; no verdict changes, and no
\* row is added.
LEMMA WorkKeeps ==
    ASSUME SenderOK, worker' \in Worker, pending' \in Seq(Msgs),
           ToSet(pending') \subseteq ToSet(pending),
           tries' \in [Msgs -> 0..MaxTries], \A m \in Msgs : tries[m] # 0 => tries'[m] # 0,
           UNCHANGED <<posting, oldSign, stale, failing, notice, removed, verdict, restarts>>,
           \/ InHand' \subseteq ToSet(pending)
           \/ InHand' \subseteq InHand /\ worker'.kind = worker.kind,
           worker'.awaits # NoMsg => worker'.kind \in {"pass", "flush"},
           worker'.kind = "sweep" => ToSet(worker'.rows) \cap ToSet(pending') = {}
    PROVE  KeepsOK
<1>1. SenderTypeOK' /\ FirstTry'
  BY DEF SenderOK, SenderTypeOK, FirstTry
<1>2. RowsAreWaiting'
  BY DEF SenderOK, RowsAreWaiting
<1>3. \A m \in ToSet(pending) : verdict[m] = "waiting"
  BY DEF SenderOK, RowsAreWaiting
<1>4. HandsOK'
  <2>1. \A m \in InHand' \cup ToSet(failing) : verdict[m] \in {"waiting", "delivered", "expired"}
    BY <1>3 DEF SenderOK, HandsOK
  <2> QED
    BY <2>1 DEF HandsOK
<1>5. ASSUME Calm PROVE Calm'
  <2>1. CASE InHand' \subseteq ToSet(pending)
    BY <1>3, <1>5, <2>1 DEF Calm
  <2>2. CASE InHand' \subseteq InHand /\ worker'.kind = worker.kind
    BY <1>5, <2>2 DEF Calm
  <2> QED
    BY <2>1, <2>2
<1> QED
  BY <1>1, <1>2, <1>4, <1>5 DEF KeepsOK, SenderOK

LEMMA WorkQueueKeeps ==
    ASSUME SenderOK, WorkQueue, ~TellExpired, ~RowDelivered
    PROVE  KeepsOK
<1>0. SenderTypeOK /\ SenderAssumption /\ worker \in Worker /\ pending \in Seq(Msgs)
      /\ tries \in [Msgs -> 0..MaxTries] /\ HandsOK /\ NoMsg \notin Msgs
  BY SenderAssumption DEF SenderOK, SenderTypeOK
<1>1. worker.rows \in Seq(Msgs) /\ worker.awaits \in Msgs \cup {NoMsg}
  BY <1>0 DEF Worker
<1>2. <<>> \in Seq(Msgs) /\ ToSet(<<>>) = {}
  BY DEF ToSet
<1>3. Now(Free, "free", <<>>, NoMsg)
  BY <1>2 DEF Worker, Free, Now
<1>4. ASSUME NEW kind \in {"sweep", "pass", "flush"}, NEW q \in Seq(Msgs),
             worker' = [Free EXCEPT !.kind = kind, !.rows = q]
      PROVE  Now(worker', kind, q, NoMsg)
  BY <1>0, <1>4, WorkerFields
<1>5. CASE StartPass
  <2>1. /\ Now(worker', "sweep", Expired, NoMsg) /\ ToSet(Expired) \subseteq ToSet(pending)
        /\ pending' \in Seq(Msgs) /\ ToSet(pending') = ToSet(pending) \ ToSet(Expired)
    BY <1>0, <1>4, <1>5, RowsTaken DEF StartPass
  <2>2. InHand' \subseteq ToSet(pending)
    BY <2>1 DEF InHand, Now
  <2> QED
    BY <1>0, <1>5, <2>1, <2>2, WorkKeeps DEF StartPass, Now
<1>6. CASE TakeRows \/ StartFlush
  <2>1. PICK n \in Nat : \/ worker' = [Free EXCEPT !.kind = "pass", !.rows = Live(n)]
                         \/ worker' = [Free EXCEPT !.kind = "flush", !.rows = Live(n)]
    BY <1>0, <1>6 DEF TakeRows, StartFlush, SenderAssumption
  <2>2. Live(n) \in Seq(Msgs) /\ ToSet(Live(n)) \subseteq ToSet(pending)
    BY <1>0, RowsTaken
  <2>3. Now(worker', "pass", Live(n), NoMsg) \/ Now(worker', "flush", Live(n), NoMsg)
    BY <1>4, <2>1, <2>2
  <2>4. InHand' \subseteq ToSet(pending)
    BY <2>2, <2>3 DEF InHand, Now
  <2> QED
    BY <1>0, <1>6, <2>3, <2>4, WorkKeeps DEF TakeRows, StartFlush, Now
<1>7. CASE SkipRow \/ AttemptRow
  <2>1. HasTurn /\ worker.rows # <<>> /\ worker.kind \in {"pass", "flush"}
    BY <1>7 DEF SkipRow, AttemptRow, HasTurn
  <2>2. /\ Head(worker.rows) \in ToSet(worker.rows) /\ Tail(worker.rows) \in Seq(Msgs)
        /\ ToSet(Tail(worker.rows)) \subseteq ToSet(worker.rows)
        /\ Head(worker.rows) \in Msgs
    BY <1>1, <2>1, SeqParts
  <2>3. \/ Now(worker', worker.kind, Tail(worker.rows), worker.awaits)
        \/ Now(worker', worker.kind, Tail(worker.rows), Head(worker.rows))
    <3> DEFINE head == Head(worker.rows)
               tail == Tail(worker.rows)
    <3>1. \/ worker' = [worker EXCEPT !.rows = tail]
          \/ worker' = [worker EXCEPT !.awaits = head, !.rows = tail]
      BY <1>0, <1>7 DEF SkipRow, AttemptRow, Worker
    <3>2. head \in Msgs /\ tail \in Seq(Msgs)
      BY <2>2
    <3> HIDE DEF head, tail
    <3>3. \/ Now(worker', worker.kind, tail, worker.awaits)
          \/ Now(worker', worker.kind, tail, head)
      <4>1. /\ Now([worker EXCEPT !.rows = tail], worker.kind, tail, worker.awaits)
            /\ Now([worker EXCEPT !.awaits = head, !.rows = tail], worker.kind, tail, head)
        BY <1>0, <3>2, WorkerFields
      <4> QED
        BY <3>1, <4>1
    <3> QED
      BY <3>3 DEF head, tail
  <2>4. InHand' \subseteq InHand /\ worker'.kind = worker.kind
    BY <2>2, <2>3 DEF InHand, Now
  <2>5. tries' \in [Msgs -> 0..MaxTries] /\ \A m \in Msgs : tries[m] # 0 => tries'[m] # 0
    BY <1>0, <1>7, <2>2, PostKeeps DEF SkipRow, AttemptRow
  <2>6. UNCHANGED <<posting, oldSign, pending, stale, failing, notice, removed, verdict, restarts>>
    BY <1>7 DEF SkipRow, AttemptRow
  <2> QED
    BY <1>0, <2>1, <2>3, <2>4, <2>5, <2>6, WorkKeeps DEF Now
<1>8. CASE RowFailed \/ EndWork
  <2>1. \/ Now(worker', "free", <<>>, NoMsg)
        \/ Now(worker', worker.kind, worker.rows, NoMsg)
    BY <1>0, <1>3, <1>8, WorkerFields DEF RowFailed, EndWork
  <2>2. InHand' \subseteq ToSet(pending) \/ (InHand' \subseteq InHand /\ worker'.kind = worker.kind)
    BY <1>2, <2>1 DEF InHand, Now
  <2>3. worker'.kind = "sweep" => worker.kind = "sweep" /\ worker'.rows = worker.rows
    BY <2>1 DEF Now
  <2>4. UNCHANGED <<posting, tries, oldSign, pending, stale, failing, notice, removed,
                    verdict, restarts>>
    BY <1>8 DEF RowFailed, EndWork
  <2>5. worker' \in Worker /\ worker'.awaits = NoMsg
    BY <2>1 DEF Now
  <2>6. worker'.kind = "sweep" => ToSet(worker'.rows) \cap ToSet(pending') = {}
    BY <1>0, <2>3, <2>4 DEF HandsOK
  <2> QED
    BY <1>0, <2>2, <2>4, <2>5, <2>6, WorkKeeps
<1> QED
  BY <1>5, <1>6, <1>7, <1>8 DEF WorkQueue

\* The outcome of m is told: it is no row any more, and out of the hands it was in.
LEMMA ToldKeeps ==
    ASSUME SenderOK, NEW m \in InHand \cup ToSet(failing),
           NEW v \in {"delivered", "expired"}, verdict' = [verdict EXCEPT ![m] = v],
           worker' \in Worker, pending' \in Seq(Msgs),
           ToSet(pending') \subseteq ToSet(pending) \ {m},
           failing' \in Seq(Msgs), ToSet(failing') \subseteq ToSet(failing),
           InHand' \subseteq InHand, worker'.kind = worker.kind,
           worker'.awaits \in {worker.awaits, NoMsg}, ToSet(worker'.rows) \subseteq ToSet(worker.rows),
           UNCHANGED <<posting, tries, oldSign, stale, notice, removed, restarts>>,
           Calm => /\ failing' = failing
                   /\ v # IF worker.kind = "sweep" THEN "delivered" ELSE "expired"
    PROVE  KeepsOK
<1>0. SenderTypeOK /\ FirstTry /\ RowsAreWaiting /\ HandsOK
  BY DEF SenderOK
<1>1. m \in Msgs /\ verdict[m] \in {"waiting", "delivered", "expired"}
  <2>1. worker.rows \in Seq(Msgs) /\ worker.awaits \in Msgs \cup {NoMsg} /\ failing \in Seq(Msgs)
    BY <1>0 DEF SenderTypeOK, Worker
  <2>2. \A q \in Seq(Msgs) : ToSet(q) \subseteq Msgs
    BY SeqParts
  <2> QED
    BY <1>0, <2>1, <2>2 DEF HandsOK, InHand
<1>2. /\ verdict' \in [Msgs -> Verdict] /\ verdict'[m] = v
      /\ \A n \in Msgs \ {m} : verdict'[n] = verdict[n]
  <2>1. v \in Verdict
    BY DEF Verdict
  <2> QED
    BY <1>0, <1>1, <2>1 DEF SenderTypeOK
<1>3. SenderTypeOK'
  BY <1>0, <1>2 DEF SenderTypeOK
<1>4. FirstTry'
  BY <1>0, <1>1, <1>2 DEF FirstTry
<1>5. ToSet(pending) \subseteq Msgs /\ InHand \cup ToSet(failing) \subseteq Msgs
  <2>1. worker.rows \in Seq(Msgs) /\ worker.awaits \in Msgs \cup {NoMsg} /\ failing \in Seq(Msgs)
        /\ pending \in Seq(Msgs)
    BY <1>0 DEF SenderTypeOK, Worker
  <2>2. \A q \in Seq(Msgs) : ToSet(q) \subseteq Msgs
    BY SeqParts
  <2> QED
    BY <2>1, <2>2 DEF InHand
<1>6. RowsAreWaiting'
  BY <1>0, <1>2, <1>5 DEF RowsAreWaiting
<1>7. HandsOK'
  <2>1. \A n \in InHand' \cup ToSet(failing') : verdict'[n] \in {"waiting", "delivered", "expired"}
    BY <1>0, <1>2, <1>5 DEF HandsOK
  <2> QED
    BY <1>0, <2>1 DEF HandsOK
<1>8. Calm => Calm'
  BY <1>2, <1>5 DEF Calm
<1> QED
  BY <1>3, <1>4, <1>6, <1>7, <1>8 DEF KeepsOK, SenderOK

LEMMA ToldSteps ==
    ASSUME SenderOK, TellExpired \/ RowDelivered \/ FailRow
    PROVE  KeepsOK
<1>0. SenderTypeOK /\ worker \in Worker /\ pending \in Seq(Msgs) /\ failing \in Seq(Msgs)
      /\ HandsOK
  BY DEF SenderOK, SenderTypeOK
<1>1. worker.rows \in Seq(Msgs) /\ worker.awaits \in Msgs \cup {NoMsg}
  BY <1>0 DEF Worker
<1>2. CASE TellExpired
  <2> DEFINE head == Head(worker.rows)
             tail == Tail(worker.rows)
  <2>1. /\ head \in ToSet(worker.rows) /\ tail \in Seq(Msgs)
        /\ ToSet(tail) \subseteq ToSet(worker.rows)
    BY <1>1, <1>2, SeqParts DEF TellExpired
  <2>2. /\ worker.kind = "sweep" /\ worker' = [worker EXCEPT !.rows = tail]
        /\ verdict' = [verdict EXCEPT ![head] = "expired"]
        /\ UNCHANGED <<posting, tries, oldSign, pending, stale, failing, notice, removed, restarts>>
    BY <1>0, <1>2 DEF TellExpired, Worker
  <2> HIDE DEF head, tail
  <2>3. Now(worker', worker.kind, tail, worker.awaits)
    BY <1>0, <2>1, <2>2, WorkerFields
  <2>4. head \notin ToSet(pending)
    BY <1>0, <2>1, <2>2 DEF HandsOK
  <2>5. InHand' \subseteq InHand /\ head \in InHand
    BY <2>1, <2>3 DEF InHand, Now
  <2> QED
    BY <1>0, <2>1, <2>2, <2>3, <2>4, <2>5, ToldKeeps DEF Now
<1>3. CASE RowDelivered
  <2> DEFINE m == worker.awaits
  <2>1. /\ m \in Msgs /\ worker.kind \in {"pass", "flush"}
        /\ pending' = WithoutRow(m) /\ verdict' = [verdict EXCEPT ![m] = "delivered"]
        /\ worker' = [worker EXCEPT !.awaits = NoMsg, !.up = TRUE]
        /\ UNCHANGED <<posting, tries, oldSign, stale, failing, notice, removed, restarts>>
    BY <1>0, <1>1, <1>3 DEF RowDelivered, HandsOK
  <2>2. pending' \in Seq(Msgs) /\ ToSet(pending') = ToSet(pending) \ {m}
    BY <1>0, <2>1, RowDropped
  <2>3. m \in InHand
    BY <1>3 DEF RowDelivered, InHand
  <2> HIDE DEF m
  <2>4. Now(worker', worker.kind, worker.rows, NoMsg)
    BY <1>0, <2>1, WorkerFields
  <2>5. InHand' \subseteq InHand
    BY <2>4 DEF InHand, Now
  <2> QED
    BY <1>0, <2>1, <2>2, <2>3, <2>4, <2>5, ToldKeeps DEF Now
<1>4. CASE FailRow
  <2> DEFINE m == Head(failing)
             tail == Tail(failing)
  <2>1. /\ failing # <<>> /\ m \in ToSet(failing) /\ tail \in Seq(Msgs)
        /\ ToSet(tail) \subseteq ToSet(failing)
    BY <1>0, <1>4, SeqParts DEF FailRow
  <2>2. /\ pending' = WithoutRow(m) /\ verdict' = [verdict EXCEPT ![m] = "expired"]
        /\ failing' = tail
        /\ UNCHANGED <<posting, tries, oldSign, stale, worker, notice, removed, restarts>>
    BY <1>4 DEF FailRow
  <2> HIDE DEF m, tail
  <2>3. pending' \in Seq(Msgs) /\ ToSet(pending') = ToSet(pending) \ {m}
    BY <1>0, <2>2, RowDropped
  <2>4. InHand' = InHand /\ ~Calm
    BY <2>1, <2>2 DEF InHand, Calm
  <2> QED
    BY <1>0, <2>1, <2>2, <2>3, <2>4, ToldKeeps
<1> QED
  BY <1>2, <1>3, <1>4

\* A removal is heard of: the rows queued now are to be failed.
LEMMA RemovalKeeps ==
    ASSUME SenderOK, HearRemoval \/ IgnoreRemoval \/ ReAddPeer
    PROVE  KeepsOK
<1>1. /\ failing' = failing \/ (failing' = pending /\ notice)
      /\ notice' \in BOOLEAN /\ removed' \in BOOLEAN /\ (~notice => ~notice')
      /\ UNCHANGED <<posting, tries, oldSign, pending, stale, worker, verdict, restarts>>
  <2>1. notice \in BOOLEAN /\ removed \in BOOLEAN
    BY DEF SenderOK, SenderTypeOK
  <2>2. CASE HearRemoval
    BY <2>1, <2>2 DEF HearRemoval
  <2>3. CASE IgnoreRemoval
    BY <2>1, <2>3 DEF IgnoreRemoval
  <2>4. CASE ReAddPeer
    BY <2>1, <2>4 DEF ReAddPeer
  <2> QED
    BY <2>2, <2>3, <2>4
<1>2. SenderTypeOK'
  BY <1>1 DEF SenderOK, SenderTypeOK
<1>3. FirstTry' /\ RowsAreWaiting' /\ InHand' = InHand
  BY <1>1 DEF SenderOK, FirstTry, RowsAreWaiting, InHand
<1>4. HandsOK'
  BY <1>1, <1>3 DEF SenderOK, RowsAreWaiting, HandsOK
<1>5. Calm => Calm'
  BY <1>1, <1>3 DEF Calm
<1> QED
  BY <1>2, <1>3, <1>4, <1>5 DEF KeepsOK, SenderOK

LEMMA TimeKeeps ==
    ASSUME SenderOK, TimePasses
    PROVE  KeepsOK
<1>1. /\ oldSign' \subseteq Msgs /\ stale' \subseteq Msgs
      /\ UNCHANGED <<posting, tries, pending, worker, failing, notice, removed, verdict, restarts>>
  BY DEF TimePasses, SignatureAges, RowAges, SenderOK, SenderTypeOK
<1> QED
  BY <1>1 DEF SenderOK, SenderTypeOK, FirstTry, RowsAreWaiting, HandsOK, InHand, Calm, KeepsOK

LEMMA RestartKeeps ==
    ASSUME SenderOK, Restart
    PROVE  KeepsOK
<1>1. <<>> \in Seq(Msgs) /\ ToSet(<<>>) = {} /\ Now(Free, "free", <<>>, NoMsg)
  BY DEF ToSet, Worker, Free, Now
<1>2. restarts' \in 0..MaxRestarts
  BY SenderAssumption DEF Restart, SenderOK, SenderTypeOK
<1>3. /\ posting' = {} /\ worker' = Free /\ failing' = <<>>
      /\ UNCHANGED <<tries, oldSign, pending, stale, notice, removed, verdict>>
  BY DEF Restart
<1>4. InHand' = {}
  BY <1>1, <1>3 DEF InHand, Now
<1>5. SenderTypeOK'
  BY <1>1, <1>2, <1>3 DEF SenderOK, SenderTypeOK, Now
<1>6. FirstTry' /\ RowsAreWaiting'
  BY <1>3 DEF SenderOK, FirstTry, RowsAreWaiting
<1>7. HandsOK' /\ (Calm => Calm')
  BY <1>1, <1>3, <1>4 DEF HandsOK, Calm, Now
<1> QED
  BY <1>5, <1>6, <1>7 DEF KeepsOK, SenderOK

LEMMA SenderKeeps ==
    ASSUME SenderOK, SenderNext
    PROVE  KeepsOK
<1>1. CASE SendMessage
  BY <1>1, SendKeeps, FirstKeeps DEF SendMessage
<1>2. CASE WorkQueue
  BY <1>2, WorkQueueKeeps, ToldSteps
<1>3. CASE ContactRemoved
  BY <1>3, ToldSteps, RemovalKeeps DEF ContactRemoved
<1> QED
  BY <1>1, <1>2, <1>3, TimeKeeps, RestartKeeps DEF SenderNext

LEMMA SenderSame ==
    ASSUME SenderOK, UNCHANGED senderVars
    PROVE  KeepsOK
  BY DEF senderVars, SenderOK, SenderTypeOK, FirstTry, RowsAreWaiting, HandsOK, InHand,
         Calm, KeepsOK

LEMMA SenderStarts ==
    ASSUME SenderInit
    PROVE  SenderOK /\ Calm
<1>1. <<>> \in Seq(Msgs) /\ ToSet(<<>>) = {} /\ Now(Free, "free", <<>>, NoMsg)
  BY DEF ToSet, Worker, Free, Now
<1>2. SenderTypeOK
  <2>1. 0 \in 0..MaxTries /\ 0 \in 0..MaxRestarts
    BY SenderAssumption DEF SenderAssumption
  <2>2. /\ tries \in [Msgs -> 0..MaxTries] /\ restarts \in 0..MaxRestarts
        /\ verdict \in [Msgs -> Verdict]
    BY <2>1 DEF SenderInit, Verdict
  <2> QED
    BY <1>1, <2>2 DEF SenderInit, SenderTypeOK, Now
<1>3. FirstTry /\ RowsAreWaiting
  BY <1>1 DEF SenderInit, FirstTry, RowsAreWaiting
<1>4. HandsOK /\ Calm
  BY <1>1 DEF SenderInit, HandsOK, InHand, Calm, Now
<1> QED
  BY <1>2, <1>3, <1>4 DEF SenderOK

-----------------------------------------------------------------------------
(* The sender by itself.                                                   *)

\* A request carries a nonce of its own message.
OwnNonce(r) == r.nonce[1] = r.id

\* What the sender does to the wire.
LEMMA SenderOnWire ==
    ASSUME SenderOK, SenderNext
    PROVE  /\ replies' \subseteq replies
           /\ \A r \in requests' \ requests : r \in Request /\ OwnNonce(r)
<1>1. ASSUME NEW m \in Msgs, Post(m)
      PROVE  /\ replies' = replies
             /\ \A r \in requests' \ requests : r \in Request /\ OwnNonce(r)
  <2>1. /\ requests' = requests \cup {[id |-> m, nonce |-> Nonce(m, tries[m] + 1),
                                       try |-> tries[m] + 1]}
        /\ replies' = replies /\ tries[m] < MaxTries
    BY <1>1 DEF Post
  <2>2. tries[m] + 1 \in Tries /\ 1 \in Tries
    BY <2>1, SenderAssumption DEF SenderAssumption, SenderOK, SenderTypeOK
  <2>3. Nonce(m, tries[m] + 1) \in Nonces /\ Nonce(m, tries[m] + 1)[1] = m
    BY <2>2, SenderAssumption DEF SenderAssumption, Nonce
  <2> DEFINE r == [id |-> m, nonce |-> Nonce(m, tries[m] + 1), try |-> tries[m] + 1]
  <2>4. r \in Request /\ OwnNonce(r)
    BY <2>2, <2>3 DEF Request, OwnNonce
  <2> QED
    BY <2>1, <2>4
<1>2. ASSUME replies' \subseteq replies, requests' = requests
      PROVE  /\ replies' \subseteq replies
             /\ \A r \in requests' \ requests : r \in Request /\ OwnNonce(r)
  BY <1>2
<1>3. ASSUME NEW m, Close(m)
      PROVE  replies' \subseteq replies /\ requests' = requests
  BY <1>3 DEF Close
<1>4. CASE SendMessage
  BY <1>1, <1>2, <1>3, <1>4 DEF SendMessage, Send, FirstOk, FirstFails, GotAnswer, NoAnswer
<1>5. CASE AttemptRow
  <2>1. worker.rows \in Seq(Msgs) /\ worker.rows # <<>>
    BY <1>5 DEF AttemptRow, HasTurn, SenderOK, SenderTypeOK, Worker
  <2>2. Head(worker.rows) \in Msgs
    BY <2>1
  <2> QED
    BY <1>1, <1>5, <2>2 DEF AttemptRow
<1>6. CASE RowDelivered \/ RowFailed
  BY <1>2, <1>3, <1>6 DEF RowDelivered, RowFailed, GotAnswer, NoAnswer
<1>7. CASE StartPass \/ TellExpired \/ TakeRows \/ StartFlush \/ SkipRow \/ EndWork
  BY <1>2, <1>7 DEF StartPass, TellExpired, TakeRows, StartFlush, SkipRow, EndWork
<1>8. CASE ContactRemoved \/ Restart
  BY <1>2, <1>8 DEF ContactRemoved, HearRemoval, IgnoreRemoval, FailRow, ReAddPeer, Restart
<1>9. CASE TimePasses
  BY <1>2, <1>9 DEF TimePasses, SignatureAges, RowAges
<1> QED
  BY <1>4, <1>5, <1>6, <1>7, <1>8, <1>9 DEF SenderNext, WorkQueue

Alone == WireTypeOK /\ SenderOK /\ Calm /\ WaitingIsKept

LEMMA AloneTypes ==
    ASSUME WireTypeOK, SenderOK, Calm, [SenderOpenNext]_senderOpenVars
    PROVE  WireTypeOK' /\ SenderOK' /\ Calm'
<1>1. CASE SenderNext
  <2>1. WireTypeOK'
    BY <1>1, SenderOnWire DEF WireTypeOK
  <2> QED
    BY <1>1, <2>1, SenderKeeps DEF KeepsOK
<1>2. CASE PeerAnswers
  <2>1. WireTypeOK'
    BY <1>2, AnswerType DEF PeerAnswers, WireTypeOK
  <2> QED
    BY <1>2, <2>1, SenderSame DEF KeepsOK, PeerAnswers
<1>3. CASE UNCHANGED senderOpenVars
  BY <1>3, SenderSame DEF KeepsOK, senderOpenVars, wireVars, WireTypeOK
<1> QED
  BY <1>1, <1>2, <1>3 DEF SenderOpenNext, SenderNext

\* What waits is a row, or in the hands of the sweep.
LEMMA WaitingKept ==
    ASSUME Alone, [SenderOpenNext]_senderOpenVars
    PROVE  WaitingIsKept'
<1>0. SenderOK /\ SenderTypeOK /\ WaitingIsKept /\ worker \in Worker /\ pending \in Seq(Msgs)
      /\ DOMAIN verdict = Msgs
  BY DEF Alone, SenderOK, SenderTypeOK
<1>1. worker.rows \in Seq(Msgs) /\ worker.awaits \in Msgs \cup {NoMsg}
  BY <1>0 DEF Worker
<1>2. ASSUME UNCHANGED <<pending, worker, verdict>>  PROVE WaitingIsKept'
  BY <1>0, <1>2 DEF WaitingIsKept
<1>3. ASSUME NEW m \in Msgs, FirstOk(m)  PROVE WaitingIsKept'
  BY <1>0, <1>3 DEF FirstOk, WaitingIsKept
<1>4. ASSUME NEW m \in Msgs, FirstFails(m)  PROVE WaitingIsKept'
  <2>1. ToSet(pending') = ToSet(pending) \cup {m}
    BY <1>0, <1>4, SeqParts DEF FirstFails
  <2> QED
    BY <1>0, <1>4, <2>1 DEF FirstFails, WaitingIsKept
<1>5. CASE SendMessage
  BY <1>2, <1>3, <1>4, <1>5 DEF SendMessage, Send
<1>6. CASE StartPass
  <2>1. /\ Expired \in Seq(Msgs) /\ ToSet(pending') = ToSet(pending) \ ToSet(Expired)
        /\ worker.kind # "sweep"
    BY <1>0, <1>6, RowsTaken, SenderAssumption DEF StartPass, Free
  <2>2. Now(worker', "sweep", Expired, NoMsg)
    BY <1>0, <1>6, <2>1, WorkerFields DEF StartPass
  <2> QED
    BY <1>0, <1>6, <2>1, <2>2 DEF StartPass, WaitingIsKept, Now
<1>7. CASE TellExpired
  <2> DEFINE head == Head(worker.rows)
             tail == Tail(worker.rows)
  <2>1. /\ head \in Msgs /\ tail \in Seq(Msgs)
        /\ ToSet(worker.rows) \subseteq ToSet(tail) \cup {head}
    BY <1>1, <1>7, SeqParts DEF TellExpired
  <2>2. /\ worker.kind = "sweep" /\ worker' = [worker EXCEPT !.rows = tail]
        /\ verdict' = [verdict EXCEPT ![head] = "expired"] /\ pending' = pending
    BY <1>0, <1>7 DEF TellExpired, Worker
  <2> HIDE DEF head, tail
  <2>3. Now(worker', worker.kind, tail, worker.awaits)
    BY <1>0, <2>1, <2>2, WorkerFields
  <2> QED
    BY <1>0, <2>1, <2>2, <2>3 DEF WaitingIsKept, Now
<1>8. CASE RowDelivered
  <2> DEFINE m == worker.awaits
  <2>1. /\ m \in Msgs /\ worker.kind \in {"pass", "flush"}
        /\ pending' = WithoutRow(m) /\ verdict' = [verdict EXCEPT ![m] = "delivered"]
    BY <1>0, <1>1, <1>8 DEF RowDelivered, HandsOK, SenderOK
  <2>2. ToSet(pending') = ToSet(pending) \ {m}
    BY <1>0, <2>1, RowDropped
  <2> HIDE DEF m
  <2> QED
    BY <1>0, <2>1, <2>2 DEF WaitingIsKept
<1>9. CASE TakeRows
  <2>1. worker.rows = <<>> /\ pending' = pending /\ verdict' = verdict
    BY <1>9 DEF TakeRows
  <2>2. ToSet(worker.rows) = {}
    BY <2>1 DEF ToSet
  <2> QED
    BY <1>0, <2>1, <2>2 DEF WaitingIsKept
<1>10. CASE StartFlush \/ SkipRow \/ AttemptRow \/ RowFailed \/ EndWork
  <2>1. worker.kind # "sweep"
    <3>1. Free.kind = "free"
      BY DEF Free
    <3>2. worker.awaits # NoMsg => worker.kind \in {"pass", "flush"}
      BY <1>0 DEF SenderOK, HandsOK
    <3> QED
      BY <1>10, <3>1, <3>2
      DEF StartFlush, SkipRow, AttemptRow, RowFailed, EndWork, HasTurn
  <2>2. pending' = pending /\ verdict' = verdict
    BY <1>10 DEF StartFlush, SkipRow, AttemptRow, RowFailed, EndWork
  <2> QED
    BY <1>0, <2>1, <2>2 DEF WaitingIsKept
<1>11. CASE TimePasses
  BY <1>2, <1>11 DEF TimePasses, SignatureAges, RowAges
<1>12. CASE PeerAnswers \/ UNCHANGED senderOpenVars
  BY <1>2, <1>12 DEF PeerAnswers, senderOpenVars, senderVars
<1> QED
  BY <1>5, <1>6, <1>7, <1>8, <1>9, <1>10, <1>11, <1>12 DEF SenderOpenNext, WorkQueue

LEMMA SenderAlone == SenderSpec => []Alone
<1>1. SenderOpenInit => Alone
  <2> SUFFICES ASSUME SenderOpenInit  PROVE Alone
    OBVIOUS
  <2>1. WireTypeOK
    BY DEF SenderOpenInit, WireInit, WireTypeOK
  <2>2. WaitingIsKept
    BY DEF SenderOpenInit, SenderInit, WaitingIsKept
  <2> QED
    BY <2>1, <2>2, SenderStarts DEF Alone, SenderOpenInit
<1>2. Alone /\ [SenderOpenNext]_senderOpenVars => Alone'
  BY AloneTypes, WaitingKept DEF Alone
<1> QED
  BY <1>1, <1>2, PTL DEF SenderSpec

\* The sender's variables and the wire keep to their types, whatever the peer
\* answers: RelaySender's actions on pending_relays and the lock.
THEOREM SenderTypes == SenderSpec => []SenderOpenTypeOK
<1>1. Alone => SenderOpenTypeOK
  BY DEF Alone, SenderOK, SenderOpenTypeOK
<1> QED
  BY <1>1, SenderAlone, PTL

\* As long as the gateway runs, a message shown as queued is a row of
\* pending_relays, or one the sweep is about to call expired.
THEOREM SenderKeepsWaiting == SenderSpec => []WaitingIsKept
<1>1. Alone => WaitingIsKept
  BY DEF Alone
<1> QED
  BY <1>1, SenderAlone, PTL

\* Who changes a verdict has the message in hand or on its first try.
LEMMA VerdictStep ==
    ASSUME SenderOK, Calm, [SenderOpenNext]_senderOpenVars, NEW m \in Msgs,
           verdict[m] \in {"delivered", "expired"}
    PROVE  verdict'[m] = verdict[m]
<1>0. /\ SenderTypeOK /\ FirstTry /\ HandsOK /\ DOMAIN verdict = Msgs
      /\ worker \in Worker
  BY DEF SenderOK, SenderTypeOK
<1>1. ASSUME NEW n \in Msgs, FirstOk(n) \/ FirstFails(n)  PROVE verdict'[m] = verdict[m]
  BY <1>0, <1>1 DEF FirstOk, FirstFails, FirstTry
<1>2. CASE SendMessage
  BY <1>1, <1>2 DEF SendMessage, Send
<1>3. CASE TellExpired
  <2>1. worker.rows \in Seq(Msgs)
    BY <1>0 DEF Worker
  <2>2. Head(worker.rows) \in InHand /\ worker.kind = "sweep"
    BY <1>3, <2>1, SeqParts DEF TellExpired, InHand
  <2>3. verdict[Head(worker.rows)] # "delivered"
    BY <2>2 DEF Calm
  <2> QED
    BY <1>0, <1>3, <2>3 DEF TellExpired
<1>4. CASE RowDelivered
  <2>1. worker.awaits \in InHand /\ worker.kind # "sweep"
    BY <1>0, <1>4 DEF RowDelivered, InHand, HandsOK
  <2>2. verdict[worker.awaits] # "expired"
    BY <2>1 DEF Calm
  <2> QED
    BY <1>0, <1>4, <2>2 DEF RowDelivered
<1>5. CASE StartPass \/ TakeRows \/ StartFlush \/ SkipRow \/ AttemptRow \/ RowFailed \/ EndWork
  BY <1>5 DEF StartPass, TakeRows, StartFlush, SkipRow, AttemptRow, RowFailed, EndWork
<1>6. CASE TimePasses
  BY <1>6 DEF TimePasses, SignatureAges, RowAges
<1>7. CASE PeerAnswers \/ UNCHANGED senderOpenVars
  BY <1>7 DEF PeerAnswers, senderOpenVars, senderVars
<1> QED
  BY <1>2, <1>3, <1>4, <1>5, <1>6, <1>7 DEF SenderOpenNext, WorkQueue

\* As long as the gateway runs, a client that was told delivered or expired is
\* told nothing else of the message: no row of it is left, in the queue or in
\* the hands of a pass or a flush.
THEOREM SenderOutcomeFinal == SenderSpec => OutcomeIsFinal
<1> DEFINE Final == \A m \in Msgs : verdict[m] \in {"delivered", "expired"} => verdict'[m] = verdict[m]
<1>1. Alone /\ [SenderOpenNext]_senderOpenVars => [Final]_verdict
  BY VerdictStep DEF Alone
<1> QED
  BY <1>1, SenderAlone, PTL DEF SenderSpec, OutcomeIsFinal

-----------------------------------------------------------------------------
(* The two gateways.                                                       *)

\* Every recipient's queue takes one more message: no relay is refused with 507.
RoomForAll == \A u \in Users : HasRoom(u)

Faulty == kills > 0 \/ revokes > 0

SeenOK ==
    /\ Taken \subseteq seenIds
    /\ \A n \in seenNonces : n[1] \in seenIds
    /\ Faulty \/ seenIds \subseteq Taken

\* What is answered with success was seen, and so was what the client is told of.
AnswersOK ==
    /\ \A r \in requests : OwnNonce(r)
    /\ \A p \in replies : p.ok => p.id \in seenIds
    /\ \A m \in Msgs : verdict[m] \in {"sent", "delivered"} => m \in seenIds

RemovalOK ==
    /\ revokes > 0 \/ Calm
    /\ revoked => revokes > 0

Together ==
    /\ WireTypeOK /\ ReceiverTypeOK /\ SenderOK
    /\ SeenOK /\ AnswersOK /\ RemovalOK

\* The messages in the handlers H.
InHandlers(H) == {h.req.id : h \in H}

LEMMA HandlerAdded ==
    ASSUME NEW H, NEW g
    PROVE  InHandlers(H \cup {g}) = InHandlers(H) \cup {g.req.id}
  BY DEF InHandlers

\* Handler h after socket s is gone.
Less(h, s) == [h EXCEPT !.targets = @ \ {s}]

LEMMA HandlersLess ==
    ASSUME NEW H, H \subseteq Handler, NEW s
    PROVE  InHandlers({Less(h, s) : h \in H}) = InHandlers(H)
<1>1. \A h \in H : Less(h, s).req.id = h.req.id
  BY HandlerLess DEF Less
<1>2. ASSUME NEW m \in InHandlers({Less(h, s) : h \in H})
      PROVE  m \in InHandlers(H)
  <2>1. PICK x \in {Less(h, s) : h \in H} : m = x.req.id
    BY <1>2 DEF InHandlers
  <2>2. PICK h \in H : x = Less(h, s)
    BY <2>1
  <2> QED
    BY <1>1, <2>1, <2>2 DEF InHandlers
<1>3. ASSUME NEW m \in InHandlers(H)
      PROVE  m \in InHandlers({Less(h, s) : h \in H})
  <2>1. PICK h \in H : m = h.req.id
    BY <1>3 DEF InHandlers
  <2>2. Less(h, s) \in {Less(k, s) : k \in H}
    BY <2>1
  <2>3. m = Less(h, s).req.id
    BY <1>1, <2>1
  <2> QED
    BY <2>2, <2>3 DEF InHandlers
<1> QED
  BY <1>2, <1>3

LEMMA SavedElements ==
    ASSUME NEW h \in Seq(Msgs), NEW m \in Msgs
    PROVE  ToSet(Saved(h, m)) = ToSet(h) \cup {m}
  BY SeqParts DEF Saved

LEMMA FaultCounts ==
    ASSUME ReceiverTypeOK
    PROVE  kills \in Nat /\ revokes \in Nat /\ kills + 1 > 0 /\ revokes + 1 > 0
  BY ReceiverAssumption DEF ReceiverTypeOK, ReceiverAssumption

\* What a step of the receiver does to the messages it has and has seen.
SeesNothing == UNCHANGED <<seenIds, seenNonces, kills, revokes>> /\ Taken' = Taken
Takes(m) ==
    /\ m \in Msgs \ seenIds /\ seenIds' = seenIds \cup {m}
    /\ \A n \in seenNonces' \ seenNonces : n[1] = m
    /\ Taken' = Taken \cup {m}
    /\ UNCHANGED <<kills, revokes>>
Fails ==
    /\ Faulty' /\ Taken' \subseteq Taken
    /\ seenIds \subseteq seenIds'
    /\ \A n \in seenNonces' \ seenNonces : n[1] \in seenIds'
Effect == SeesNothing \/ Fails \/ \E m \in Msgs : Takes(m)

\* And to the wire.
Answered ==
    /\ requests' \subseteq requests
    /\ \A p \in replies' \ replies : p.ok => p.id \in seenIds'

LEMMA AnswerAnswers ==
    ASSUME NEW r, NEW ok, Answer(r, ok), ok => r.id \in seenIds'
    PROVE  Answered
  BY DEF Answer, Answered

LEMMA FreshSees ==
    ASSUME Together, NEW r \in requests, Fresh(r)
    PROVE  /\ r.id \in Msgs \ seenIds /\ seenIds' = seenIds \cup {r.id}
           /\ \A n \in seenNonces' \ seenNonces : n[1] = r.id
<1>1. r \in Request
  BY DEF Together, WireTypeOK
<1> QED
  BY <1>1 DEF Fresh, Request, Together, AnswersOK, OwnNonce

LEMMA HandleEffect ==
    ASSUME Together, RoomForAll, HandleRelay
    PROVE  Effect /\ Answered
<1> PICK r \in requests :
        \/ RateLimit(r) \/ AnswerDuplicate(r) \/ AnswerReplay(r)
        \/ RefuseRevoked(r) \/ DropBlocked(r) \/ StartLive(r)
        \/ StoreOffline(r) \/ RefuseFull(r) \/ KillAfterRecord(r)
  BY DEF HandleRelay
<1>0. /\ r \in Request /\ ReceiverTypeOK /\ history \in Seq(Msgs) /\ OwnNonce(r)
      /\ r.id \in Msgs /\ Dest[r.id] \in Users
  BY ReceiverAssumption, RequestParts DEF Together, WireTypeOK, ReceiverTypeOK, AnswersOK
<1>1. CASE RateLimit(r) \/ AnswerDuplicate(r)
  <2>1. SeesNothing
    BY <1>1 DEF RateLimit, AnswerDuplicate, receiverVars, SeesNothing, Taken
  <2>2. Answered
    BY <1>1, <2>1, AnswerAnswers DEF RateLimit, AnswerDuplicate, SeesNothing
  <2> QED
    BY <2>1, <2>2 DEF Effect
<1>2. CASE AnswerReplay(r)
  BY <1>0, <1>2 DEF AnswerReplay, Together, SeenOK, OwnNonce
<1>3. CASE RefuseRevoked(r)
  <2>1. revokes > 0 /\ UNCHANGED <<kills, revokes, handling, history, dropped>>
    BY <1>3 DEF RefuseRevoked, Together, RemovalOK
  <2>2. Fails
    BY <1>3, <2>1, FreshSees DEF RefuseRevoked, Fails, Faulty, Taken
  <2>3. Answered
    BY <1>3, AnswerAnswers DEF RefuseRevoked
  <2> QED
    BY <2>2, <2>3 DEF Effect
<1>4. CASE DropBlocked(r)
  <2>1. Taken' = Taken \cup {r.id} /\ UNCHANGED <<kills, revokes>>
    BY <1>4 DEF DropBlocked, Taken
  <2>2. Takes(r.id)
    BY <1>4, <2>1, FreshSees DEF DropBlocked, Takes
  <2>3. Answered
    BY <1>4, <2>2, AnswerAnswers DEF DropBlocked, Takes
  <2> QED
    BY <1>0, <2>2, <2>3 DEF Effect
<1>5. CASE StartLive(r)
  <2> DEFINE g == [req |-> r, targets |-> SocketsFor(Dest[r.id]), sent |-> FALSE]
  <2>1. g.req = r
    OBVIOUS
  <2>2. handling' = handling \cup {g} /\ UNCHANGED <<history, dropped, kills, revokes>>
    BY <1>5 DEF StartLive
  <2> HIDE DEF g
  <2>3. Taken' = Taken \cup {r.id} /\ UNCHANGED <<kills, revokes>>
    BY <2>1, <2>2, HandlerAdded DEF Taken, InHandlers
  <2>4. Takes(r.id)
    BY <1>5, <2>3, FreshSees DEF StartLive, Takes
  <2>5. Answered
    BY <1>5 DEF StartLive, Accept, Answered
  <2> QED
    BY <1>0, <2>4, <2>5 DEF Effect
<1>6. CASE StoreOffline(r)
  <2>1. ToSet(history') = ToSet(history) \cup {r.id}
    BY <1>0, <1>6, SavedElements DEF StoreOffline
  <2>2. Taken' = Taken \cup {r.id} /\ UNCHANGED <<kills, revokes>>
    BY <1>6, <2>1 DEF StoreOffline, Taken
  <2>3. Takes(r.id)
    BY <1>6, <2>2, FreshSees DEF StoreOffline, Takes
  <2>4. Answered
    BY <1>6, <2>3, AnswerAnswers DEF StoreOffline, Takes
  <2> QED
    BY <1>0, <2>3, <2>4 DEF Effect
<1>7. CASE RefuseFull(r)
  BY <1>0, <1>7 DEF RefuseFull, RoomForAll
<1>8. CASE KillAfterRecord(r)
  <2>1. /\ kills' = kills + 1 /\ handling' = {} /\ UNCHANGED <<history, dropped, revokes>>
        /\ kills + 1 > 0
    BY <1>0, <1>8, FaultCounts DEF KillAfterRecord, LoseMemory
  <2>2. Taken' \subseteq Taken
    BY <2>1 DEF Taken
  <2>3. Fails
    BY <1>8, <2>1, <2>2, FreshSees DEF KillAfterRecord, Fails, Faulty
  <2>4. Answered
    BY <1>8 DEF KillAfterRecord, Accept, Answered
  <2> QED
    BY <2>3, <2>4 DEF Effect
<1> QED
  BY <1>1, <1>2, <1>3, <1>4, <1>5, <1>6, <1>7, <1>8

LEMMA LiveEffect ==
    ASSUME Together, RoomForAll, LiveDelivery
    PROVE  Effect /\ Answered
<1> PICK h \in handling : LiveSend(h) \/ LiveSave(h) \/ LiveFailStore(h) \/ LiveFailFull(h)
  BY DEF LiveDelivery
<1>0. /\ h \in Handler /\ ReceiverTypeOK /\ history \in Seq(Msgs)
      /\ h.req \in Request /\ h.req.id \in Msgs /\ Dest[h.req.id] \in Users
      /\ h.req.id \in Taken
  <2>1. h \in Handler /\ ReceiverTypeOK /\ history \in Seq(Msgs)
    BY DEF Together, ReceiverTypeOK
  <2>2. h.req \in Request
    BY <2>1, HandlerParts
  <2> QED
    BY <2>1, <2>2, RequestParts, ReceiverAssumption DEF Taken
<1>1. h.req.id \in seenIds
  BY <1>0 DEF Together, SeenOK
<1>2. CASE LiveSend(h)
  <2> DEFINE g == [h EXCEPT !.sent = TRUE]
  <2>1. g.req = h.req
    BY <1>0, HandlerSent
  <2> HIDE DEF g
  <2>2. /\ handling' = (handling \ {h}) \cup {g}
        /\ UNCHANGED <<seenIds, seenNonces, kills, revokes, history, dropped, requests, replies>>
    BY <1>2 DEF LiveSend, g
  <2>3. {x.req.id : x \in handling'} = {x.req.id : x \in handling}
    BY <2>1, <2>2
  <2>4. SeesNothing /\ Answered
    BY <2>2, <2>3 DEF SeesNothing, Taken, Answered
  <2> QED
    BY <2>4 DEF Effect
<1>3. CASE LiveSave(h) \/ LiveFailStore(h)
  <2>1. /\ Reply2(h, TRUE) /\ history' = Saved(history, h.req.id)
        /\ UNCHANGED <<seenIds, seenNonces, kills, revokes, dropped>>
    BY <1>3 DEF LiveSave, LiveFailStore
  <2>2. ToSet(history') = ToSet(history) \cup {h.req.id}
    BY <1>0, <2>1, SavedElements
  <2>3. handling' = handling \ {h}
    BY <2>1 DEF Reply2
  <2>4. {x.req.id : x \in handling'} \cup {h.req.id} = {x.req.id : x \in handling}
    BY <2>3
  <2>5. Taken' = Taken
    BY <2>1, <2>2, <2>4 DEF Taken
  <2>6. Answered
    BY <1>1, <2>1 DEF Reply2, Answered
  <2> QED
    BY <2>1, <2>5, <2>6 DEF Effect, SeesNothing
<1>4. CASE LiveFailFull(h)
  BY <1>0, <1>4 DEF LiveFailFull, RoomForAll
<1> QED
  BY <1>2, <1>3, <1>4

LEMMA SocketsEffect ==
    ASSUME Together, Sockets
    PROVE  Effect /\ Answered
<1> PICK s \in Socks : Register(s) \/ DrainOne(s) \/ DrainFail(s) \/ Disconnect(s)
  BY DEF Sockets
<1>1. CASE Register(s) \/ DrainOne(s) \/ DrainFail(s)
  BY <1>1 DEF Register, DrainOne, DrainFail, Effect, SeesNothing, Taken, Answered
<1>2. CASE Disconnect(s)
  <2>1. handling \subseteq Handler /\ handling' = {Less(h, s) : h \in handling}
    BY <1>2 DEF Together, ReceiverTypeOK, Disconnect, Less
  <2>2. InHandlers({Less(h, s) : h \in handling}) = InHandlers(handling)
    BY <2>1, HandlersLess
  <2>3. {x.req.id : x \in handling'} = {x.req.id : x \in handling}
    BY <2>1, <2>2, Zenon DEF InHandlers
  <2> QED
    BY <1>2, <2>3 DEF Disconnect, Effect, SeesNothing, Taken, Answered
<1> QED
  BY <1>1, <1>2

LEMMA ReceiverEffect ==
    ASSUME Together, RoomForAll, ReceiverStep \/ RemoveContact
    PROVE  Effect /\ Answered
<1>1. CASE ReceiverStep /\ (HandleRelay \/ LiveDelivery \/ Sockets)
  BY <1>1, HandleEffect, LiveEffect, SocketsEffect
<1>2. CASE ReAddSender \/ \E u \in MayBlock : ToggleBlock(u)
  BY <1>2 DEF ReAddSender, ToggleBlock, Effect, SeesNothing, Taken, Answered
<1>3. CASE Kill
  <2>1. kills' = kills + 1 /\ kills + 1 > 0
    BY <1>3, FaultCounts DEF Together, Kill, LoseMemory
  <2>2. Taken' \subseteq Taken
    BY <1>3 DEF Kill, LoseMemory, Taken
  <2>3. Fails /\ Answered
    BY <1>3, <2>1, <2>2 DEF Kill, Fails, Faulty, Answered
  <2> QED
    BY <2>3 DEF Effect
<1>4. CASE RemoveContact
  <2>1. revokes' = revokes + 1 /\ revokes + 1 > 0
    BY <1>4, FaultCounts DEF Together, RemoveContact, RevokeSender
  <2>2. Fails /\ Answered
    BY <1>4, <2>1 DEF RemoveContact, RevokeSender, Fails, Faulty, Answered, Taken
  <2> QED
    BY <2>2 DEF Effect
<1> QED
  BY <1>1, <1>2, <1>3, <1>4 DEF ReceiverStep
\* The types are the receiver's, whoever is at the other end of the wire.
LEMMA ReceiverKeepsTypes ==
    ASSUME WireTypeOK, ReceiverTypeOK, ReceiverStep \/ RemoveContact
    PROVE  WireTypeOK' /\ ReceiverTypeOK'
<1>1. [ReceiverOpenNext]_receiverOpenVars
  BY DEF ReceiverStep, RemoveContact, ReceiverOpenNext, ReceiverNext, OwnerActs
<1> QED
  BY <1>1, TypeStep, ReceiverAssumption DEF ReceiverOpenTypeOK

\* A removal of the contact is heard of and nothing more.
LEMMA RemovalKeepsSender ==
    ASSUME SenderOK, RemoveContact
    PROVE  SenderOK'
<1>1. UNCHANGED <<posting, tries, oldSign, pending, stale, worker, failing,
                  removed, verdict, restarts>> /\ notice' = TRUE
  BY DEF RemoveContact
<1>2. SenderTypeOK'
  BY <1>1 DEF SenderOK, SenderTypeOK
<1> QED
  BY <1>1, <1>2 DEF SenderOK, FirstTry, RowsAreWaiting, HandsOK, InHand

\* What the client is told of a success, the peer said.
LEMMA ToldWhatWasSaid ==
    ASSUME SenderOK, SenderNext, NEW m \in Msgs,
           verdict'[m] \in {"sent", "delivered"}, verdict'[m] # verdict[m]
    PROVE  \E p \in replies : p.id = m /\ p.ok
<1>0. verdict \in [Msgs -> Verdict]
  BY DEF SenderOK, SenderTypeOK
<1>1. CASE SendMessage
  <2> PICK k \in Msgs : Send(k) \/ FirstOk(k) \/ FirstFails(k)
    BY <1>1 DEF SendMessage
  <2>1. CASE FirstOk(k)
    <3>1. m = k /\ [id |-> k, try |-> tries[k], ok |-> TRUE] \in replies
      BY <1>0, <2>1 DEF FirstOk, GotAnswer
    <3> QED
      BY <3>1
  <2> QED
    BY <1>0, <2>1 DEF Send, FirstFails
<1>2. CASE RowDelivered
  <2>1. /\ m = worker.awaits
        /\ [id |-> worker.awaits, try |-> tries[worker.awaits], ok |-> TRUE] \in replies
    BY <1>0, <1>2 DEF RowDelivered, GotAnswer
  <2> QED
    BY <2>1
<1>3. CASE WorkQueue /\ ~RowDelivered
  <2>1. CASE TellExpired
    BY <1>0, <2>1 DEF TellExpired
  <2> QED
    BY <1>3, <2>1 DEF WorkQueue, StartPass, TakeRows, StartFlush, SkipRow,
                      AttemptRow, RowFailed, EndWork
<1>4. CASE ContactRemoved
  BY <1>0, <1>4 DEF ContactRemoved, HearRemoval, IgnoreRemoval, FailRow, ReAddPeer
<1>5. CASE TimePasses \/ Restart
  BY <1>5 DEF TimePasses, SignatureAges, RowAges, Restart
<1> QED
  BY <1>1, <1>2, <1>3, <1>4, <1>5 DEF SenderNext, WorkQueue

LEMMA TogetherStarts ==
    ASSUME Init
    PROVE  Together
<1>1. WireTypeOK /\ ReceiverTypeOK
  BY TypeInit, ReceiverAssumption DEF Init, ReceiverOpenInit, ReceiverOpenTypeOK
<1>2. SenderOK /\ Calm
  BY SenderStarts DEF Init
<1>3. Taken = {}
  BY DEF Init, ReceiverInit, Taken, ToSet
<1>4. SeenOK /\ AnswersOK /\ RemovalOK
  BY <1>2, <1>3 DEF Init, WireInit, ReceiverInit, SenderInit, SeenOK, AnswersOK, RemovalOK
<1> QED
  BY <1>1, <1>2, <1>4 DEF Together

LEMMA TogetherSender ==
    ASSUME Together, SenderStep
    PROVE  Together'
<1>0. SenderOK /\ SenderNext /\ UNCHANGED receiverVars
  BY DEF Together, SenderStep
<1>1. SenderOK' /\ (Calm => Calm')
  BY <1>0, SenderKeeps DEF KeepsOK
<1>2. /\ replies' \subseteq replies
      /\ \A r \in requests' \ requests : r \in Request /\ OwnNonce(r)
  BY <1>0, SenderOnWire
<1>3. WireTypeOK' /\ ReceiverTypeOK'
  BY <1>0, <1>2 DEF Together, WireTypeOK, receiverVars, ReceiverTypeOK
<1>4. SeenOK' /\ RemovalOK'
  BY <1>0, <1>1 DEF Together, SeenOK, RemovalOK, receiverVars, Taken, Faulty
<1>5. \A r \in requests' : OwnNonce(r)
  BY <1>2 DEF Together, AnswersOK
<1>6. \A p \in replies' : p.ok => p.id \in seenIds'
  BY <1>0, <1>2 DEF Together, AnswersOK, receiverVars
<1>7. ASSUME NEW m \in Msgs, verdict'[m] \in {"sent", "delivered"}
      PROVE  m \in seenIds'
  <2>1. CASE verdict'[m] = verdict[m]
    BY <1>0, <1>7, <2>1 DEF Together, AnswersOK, receiverVars
  <2>2. CASE verdict'[m] # verdict[m]
    <3>1. PICK p \in replies : p.id = m /\ p.ok
      BY <1>0, <1>7, <2>2, ToldWhatWasSaid
    <3> QED
      BY <1>0, <3>1 DEF Together, AnswersOK, receiverVars
  <2> QED
    BY <2>1, <2>2
<1>8. AnswersOK'
  BY <1>5, <1>6, <1>7 DEF AnswersOK, OwnNonce
<1> QED
  BY <1>1, <1>3, <1>4, <1>8 DEF Together

LEMMA TogetherReceiver ==
    ASSUME Together, RoomForAll, ReceiverStep \/ RemoveContact
    PROVE  Together'
<1>1. Effect /\ Answered
  BY ReceiverEffect
<1>2. WireTypeOK' /\ ReceiverTypeOK'
  BY ReceiverKeepsTypes DEF Together
<1>3. SenderOK' /\ verdict' = verdict
  <2>1. CASE ReceiverStep
    <3>1. UNCHANGED senderVars
      BY <2>1 DEF ReceiverStep
    <3> QED
      BY <3>1, SenderSame DEF Together, KeepsOK, senderVars
  <2>2. CASE RemoveContact
    BY <2>2, RemovalKeepsSender DEF Together, RemoveContact
  <2> QED
    BY <2>1, <2>2
<1>4. seenIds \subseteq seenIds'
  BY <1>1 DEF Effect, SeesNothing, Takes, Fails
<1>5. SeenOK'
  <2>1. CASE SeesNothing
    BY <2>1 DEF SeesNothing, Together, SeenOK, Faulty
  <2>2. CASE Fails
    BY <2>2 DEF Fails, Together, SeenOK
  <2>3. ASSUME NEW m \in Msgs, Takes(m)
        PROVE  SeenOK'
    BY <2>3 DEF Takes, Together, SeenOK, Faulty
  <2> QED
    BY <1>1, <2>1, <2>2, <2>3 DEF Effect
<1>6. AnswersOK'
  BY <1>1, <1>3, <1>4 DEF Answered, Together, AnswersOK, OwnNonce
<1>7. RemovalOK'
  <2>1. CASE RemoveContact
    BY <2>1, FaultCounts DEF RemoveContact, RevokeSender, Together, RemovalOK
  <2>2. CASE ReceiverStep
    <3>1. UNCHANGED senderVars
      BY <2>2 DEF ReceiverStep
    <3>2. Calm => Calm'
      BY <3>1, SenderSame DEF Together, KeepsOK
    <3>3. revokes' = revokes /\ revoked' \in {revoked, FALSE}
      <4>1. CASE HandleRelay
        BY <4>1 DEF HandleRelay, RateLimit, AnswerDuplicate, AnswerReplay, RefuseRevoked,
                    DropBlocked, StartLive, StoreOffline, RefuseFull, KillAfterRecord,
                    LoseMemory, receiverVars
      <4>2. CASE LiveDelivery
        BY <4>2 DEF LiveDelivery, LiveSend, LiveSave, LiveFailStore, LiveFailFull
      <4>3. CASE Sockets
        BY <4>3 DEF Sockets, Register, DrainOne, DrainFail, Disconnect
      <4>4. CASE ReAddSender \/ Kill \/ \E u \in MayBlock : ToggleBlock(u)
        BY <4>4 DEF ReAddSender, Kill, LoseMemory, ToggleBlock
      <4> QED
        BY <2>2, <4>1, <4>2, <4>3, <4>4 DEF ReceiverStep
    <3>4. revoked' => revokes' > 0
      <4>1. CASE revoked' = FALSE
        BY <4>1
      <4>2. CASE revoked' = revoked
        BY <3>3, <4>2 DEF Together, RemovalOK
      <4> QED
        BY <3>3, <4>1, <4>2
    <3> QED
      BY <3>2, <3>3, <3>4 DEF Together, RemovalOK
  <2> QED
    BY <2>1, <2>2
<1> QED
  BY <1>2, <1>3, <1>5, <1>6, <1>7 DEF Together

LEMMA TogetherStep ==
    ASSUME Together, RoomForAll, [Next]_vars
    PROVE  Together'
<1>1. CASE UNCHANGED vars
  <2>1. UNCHANGED <<wireVars, senderVars, receiverVars>>
    BY <1>1 DEF vars
  <2>2. SenderOK' /\ (Calm => Calm')
    BY <2>1, SenderSame DEF Together, KeepsOK
  <2>3. WireTypeOK' /\ ReceiverTypeOK'
    BY <2>1 DEF Together, WireTypeOK, ReceiverTypeOK, wireVars, receiverVars
  <2>4. SeenOK' /\ RemovalOK'
    BY <2>1, <2>2 DEF Together, SeenOK, RemovalOK, receiverVars, Taken, Faulty
  <2>5. AnswersOK'
    BY <2>1 DEF Together, AnswersOK, wireVars, receiverVars, senderVars, OwnNonce
  <2> QED
    BY <2>2, <2>3, <2>4, <2>5 DEF Together
<1> QED
  BY <1>1, TogetherSender, TogetherReceiver DEF Next
\* The step of AbstractDelivery that a step of the two gateways is.
Promised == [Delivery!Next]_<<Taken, Lost, verdict, Faulty>>

LEMMA WhatIsLost ==
    ASSUME SeenOK
    PROVE  Lost = seenIds \ Taken
  BY DEF SeenOK, Lost

LEMMA ReceiverPromised ==
    ASSUME Together, RoomForAll, ReceiverStep \/ RemoveContact
    PROVE  Promised
<1>1. Effect /\ Together' /\ verdict' = verdict
  BY ReceiverEffect, TogetherReceiver DEF ReceiverStep, RemoveContact, senderVars
<1>2. Lost = seenIds \ Taken
  BY WhatIsLost DEF Together
<1>3. Lost' = seenIds' \ Taken'
  BY <1>1 DEF Together, SeenOK, Lost
<1>4. CASE SeesNothing
  BY <1>1, <1>2, <1>3, <1>4 DEF SeesNothing, Promised, Faulty
<1>5. CASE Fails
  <2>1. Lost' \in SUBSET Msgs /\ Lost \subseteq Lost' /\ Taken' = Taken \ Lost'
    BY <1>1, <1>2, <1>3, <1>5 DEF Fails, Together, SeenOK, ReceiverTypeOK
  <2> QED
    BY <1>1, <1>5, <2>1 DEF Fails, Promised, Faulty, Delivery!Next, Delivery!Fault
<1>6. ASSUME NEW m \in Msgs, Takes(m)
      PROVE  Promised
  <2>1. m \notin Taken \cup Lost /\ Taken' = Taken \cup {m} /\ Lost' = Lost
    BY <1>2, <1>3, <1>6 DEF Takes, Together, SeenOK
  <2> QED
    BY <1>1, <1>6, <2>1 DEF Takes, Promised, Faulty, Delivery!Next, Delivery!Take
<1> QED
  BY <1>1, <1>4, <1>5, <1>6 DEF Effect

\* What the sender may come to say of a message.
Says(m) ==
    \/ verdict[m] = "none" /\ verdict' = [verdict EXCEPT ![m] = "waiting"]
    \/ /\ m \in seenIds
       /\ \/ verdict[m] = "none" /\ verdict' = [verdict EXCEPT ![m] = "sent"]
          \/ /\ verdict[m] = "waiting" \/ (Faulty /\ verdict[m] = "expired")
             /\ verdict' = [verdict EXCEPT ![m] = "delivered"]
    \/ /\ verdict[m] = "waiting" \/ (Faulty /\ verdict[m] = "delivered")
       /\ verdict' = [verdict EXCEPT ![m] = "expired"]

LEMMA SenderSays ==
    ASSUME Together, SenderNext
    PROVE  verdict' = verdict \/ \E m \in Msgs : Says(m)
<1>0. /\ verdict \in [Msgs -> Verdict] /\ worker \in Worker /\ failing \in Seq(Msgs)
      /\ FirstTry /\ HandsOK /\ (Faulty \/ Calm)
  BY FaultCounts DEF Together, SenderOK, SenderTypeOK, RemovalOK, Faulty
<1>1. ASSUME NEW m \in Msgs, GotAnswer(m, TRUE)
      PROVE  m \in seenIds
  BY <1>1 DEF GotAnswer, Together, AnswersOK
<1>2. CASE SendMessage
  <2> PICK k \in Msgs : Send(k) \/ FirstOk(k) \/ FirstFails(k)
    BY <1>2 DEF SendMessage
  <2>1. CASE FirstOk(k)
    BY <1>0, <1>1, <2>1 DEF FirstOk, FirstTry, Says
  <2>2. CASE FirstFails(k)
    BY <1>0, <2>2 DEF FirstFails, FirstTry, Says
  <2> QED
    BY <2>1, <2>2 DEF Send
<1>3. CASE RowDelivered
  <2> DEFINE m == worker.awaits
  <2>1. m \in Msgs /\ m \in InHand
    BY <1>0, <1>3 DEF RowDelivered, Worker, InHand
  <2>2. m \in seenIds
    BY <1>1, <1>3, <2>1 DEF RowDelivered
  <2>3. verdict[m] \in {"waiting", "delivered", "expired"}
    BY <1>0, <2>1 DEF HandsOK
  <2>4. worker.kind # "sweep"
    BY <1>0, <1>3 DEF RowDelivered, HandsOK
  <2>5. Faulty \/ verdict[m] # "expired"
    BY <1>0, <2>1, <2>4 DEF Calm
  <2>6. verdict' = [verdict EXCEPT ![m] = "delivered"]
    BY <1>3 DEF RowDelivered
  <2>7. CASE verdict[m] = "delivered"
    BY <1>0, <2>1, <2>6, <2>7
  <2> QED
    BY <2>1, <2>2, <2>3, <2>5, <2>6, <2>7 DEF Says
<1>4. CASE TellExpired
  <2> DEFINE m == Head(worker.rows)
  <2>1. worker.rows \in Seq(Msgs) /\ worker.rows # <<>> /\ worker.kind = "sweep"
    BY <1>0, <1>4 DEF TellExpired, Worker
  <2>2. m \in Msgs /\ m \in InHand
    BY <2>1, SeqParts DEF InHand
  <2>3. verdict[m] \in {"waiting", "delivered", "expired"}
    BY <1>0, <2>2 DEF HandsOK
  <2>4. Faulty \/ verdict[m] # "delivered"
    BY <1>0, <2>1, <2>2 DEF Calm
  <2>5. verdict' = [verdict EXCEPT ![m] = "expired"]
    BY <1>4 DEF TellExpired
  <2>6. CASE verdict[m] = "expired"
    BY <1>0, <2>2, <2>5, <2>6
  <2> QED
    BY <2>2, <2>3, <2>4, <2>5, <2>6 DEF Says
<1>5. CASE FailRow
  <2> DEFINE m == Head(failing)
  <2>1. failing # <<>> /\ verdict' = [verdict EXCEPT ![m] = "expired"]
    BY <1>5 DEF FailRow
  <2>2. m \in Msgs /\ m \in ToSet(failing)
    BY <1>0, <2>1, SeqParts
  <2>3. verdict[m] \in {"waiting", "delivered", "expired"} /\ Faulty
    BY <1>0, <2>1, <2>2 DEF HandsOK, Calm
  <2>4. CASE verdict[m] = "expired"
    BY <1>0, <2>1, <2>2, <2>4
  <2> QED
    BY <2>1, <2>2, <2>3, <2>4 DEF Says
<1>6. CASE WorkQueue /\ ~RowDelivered /\ ~TellExpired
  BY <1>6 DEF WorkQueue, StartPass, TakeRows, StartFlush, SkipRow, AttemptRow, RowFailed,
              EndWork
<1>7. CASE ContactRemoved /\ ~FailRow
  BY <1>7 DEF ContactRemoved, HearRemoval, IgnoreRemoval, ReAddPeer
<1>8. CASE TimePasses \/ Restart
  BY <1>8 DEF TimePasses, SignatureAges, RowAges, Restart
<1> QED
  BY <1>2, <1>3, <1>4, <1>5, <1>6, <1>7, <1>8 DEF SenderNext

LEMMA SenderPromised ==
    ASSUME Together, SenderStep
    PROVE  Promised
<1>1. SenderNext /\ UNCHANGED receiverVars
  BY DEF SenderStep
<1>2. UNCHANGED <<Taken, Lost, Faulty>>
  BY <1>1 DEF receiverVars, Taken, Lost, Faulty
<1>3. seenIds \subseteq Taken \cup Lost
  BY DEF Lost
<1>4. CASE verdict' = verdict
  BY <1>2, <1>4 DEF Promised
<1>5. ASSUME NEW m \in Msgs, Says(m)
      PROVE  Delivery!Next
  BY <1>2, <1>3, <1>5 DEF Says, Faulty, Delivery!Next, Delivery!Wait, Delivery!Confirm,
                          Delivery!GiveUp
<1> QED
  BY <1>1, <1>4, <1>5, SenderSays DEF Promised

LEMMA StepPromised ==
    ASSUME Together, RoomForAll, [Next]_vars
    PROVE  Promised
<1>1. CASE UNCHANGED vars
  BY <1>1 DEF vars, senderVars, receiverVars, wireVars, Promised, Taken, Lost, Faulty
<1> QED
  BY <1>1, SenderPromised, ReceiverPromised DEF Next

LEMMA SenderAlways == Spec => []SenderOK
<1>1. Init => SenderOK
  BY SenderStarts DEF Init
<1>2. SenderOK /\ [Next]_vars => SenderOK'
  <2> SUFFICES ASSUME SenderOK, [Next]_vars
               PROVE  SenderOK'
    OBVIOUS
  <2>1. CASE SenderStep
    BY <2>1, SenderKeeps DEF SenderStep, KeepsOK
  <2>2. CASE ReceiverStep \/ UNCHANGED vars
    BY <2>2, SenderSame DEF ReceiverStep, KeepsOK, vars
  <2> QED
    BY <2>1, <2>2, RemovalKeepsSender DEF Next
<1> QED
  BY <1>1, <1>2, PTL DEF Spec

\* With the receiver, restarts and removals of the contact too, a row of
\* pending_relays is of a message whose client was told that it waits.
THEOREM WaitingRows == Spec => []RowsAreWaiting
<1>1. SenderOK => RowsAreWaiting
  BY DEF SenderOK
<1> QED
  BY <1>1, SenderAlways, PTL

\* The two gateways and the wire keep to their types.
THEOREM DeliveryTypes == Spec => []TypeOK
<1>1. Init => TypeOK
  BY SenderStarts, TypeInit, ReceiverAssumption
     DEF Init, ReceiverOpenInit, ReceiverOpenTypeOK, SenderOK, TypeOK
<1>2. SenderOK /\ TypeOK /\ [Next]_vars => TypeOK'
  <2> SUFFICES ASSUME SenderOK, TypeOK, [Next]_vars
               PROVE  TypeOK'
    OBVIOUS
  <2>1. CASE SenderStep
    <3>1. SenderTypeOK' /\ UNCHANGED receiverVars
      BY <2>1, SenderKeeps DEF SenderStep, KeepsOK, SenderOK
    <3>2. WireTypeOK'
      BY <2>1, SenderOnWire DEF SenderStep, TypeOK, WireTypeOK
    <3>3. ReceiverTypeOK'
      BY <3>1 DEF TypeOK, ReceiverTypeOK, receiverVars
    <3> QED
      BY <3>1, <3>2, <3>3 DEF TypeOK
  <2>2. CASE ReceiverStep \/ RemoveContact
    <3>1. WireTypeOK' /\ ReceiverTypeOK'
      BY <2>2, ReceiverKeepsTypes DEF TypeOK
    <3>2. SenderTypeOK'
      BY <2>2, SenderSame, RemovalKeepsSender DEF ReceiverStep, KeepsOK, SenderOK
    <3> QED
      BY <3>1, <3>2 DEF TypeOK
  <2>3. CASE UNCHANGED vars
    <3>1. UNCHANGED <<wireVars, senderVars, receiverVars>>
      BY <2>3 DEF vars
    <3>2. SenderTypeOK'
      BY <3>1, SenderSame DEF KeepsOK, SenderOK
    <3>3. WireTypeOK' /\ ReceiverTypeOK'
      BY <3>1 DEF TypeOK, WireTypeOK, ReceiverTypeOK, wireVars, receiverVars
    <3> QED
      BY <3>2, <3>3 DEF TypeOK
  <2> QED
    BY <2>1, <2>2, <2>3 DEF Next
<1> QED
  BY <1>1, <1>2, SenderAlways, PTL DEF Spec

\* DeliveredIsTaken, as long as nothing is killed and no contact is removed.
DeliveredUnlessFaulty == Faulty \/ DeliveredIsTaken

\* A relay that was answered with success, or called a duplicate, is one the
\* receiver has, as long as no recipient's queue is ever full.
THEOREM DeliveredWasTaken == Spec /\ []RoomForAll => []DeliveredUnlessFaulty
<1>1. Init => Together
  BY TogetherStarts
<1>2. Together /\ RoomForAll /\ [Next]_vars => Together'
  BY TogetherStep
<1>3. Together => DeliveredUnlessFaulty
  BY DEF Together, SeenOK, AnswersOK, DeliveredUnlessFaulty, DeliveredIsTaken
<1> QED
  BY <1>1, <1>2, <1>3, PTL DEF Spec

\* The two gateways keep the promise of AbstractDelivery, as long as no
\* recipient's queue is ever full: a relay refused with 507 has its nonce
\* recorded and its id forgotten, and the retry is then called a duplicate.
THEOREM GatewaysDeliver == Spec /\ []RoomForAll => DeliveryPromise
<1>1. Init => Together
  BY TogetherStarts
<1>2. Together /\ RoomForAll /\ [Next]_vars => Together' /\ Promised
  BY TogetherStep, StepPromised
<1>3. Init => Delivery!Init
  BY DEF Init, ReceiverInit, SenderInit, Delivery!Init, Taken, Lost, ToSet
<1> QED
  BY <1>1, <1>2, <1>3, PTL DEF Spec, DeliveryPromise, Delivery!Spec, Promised, Faulty
-----------------------------------------------------------------------------
(* There is room in queues that could take every message.                  *)

\* There are fewer messages than total_cap and no more users than recipient_cap.
QueuesSuffice ==
    /\ IsFiniteSet(Msgs) /\ Cardinality(Msgs) < TotalCap
    /\ IsFiniteSet(Users) /\ Cardinality(Users) <= RecipientCap

AnyOf(s) == CHOOSE x \in s : TRUE

\* A step of the sum that TotalQueued is, over the queues q of the users in s.
Adds(q, s, g) ==
    IF s = {} THEN 0 ELSE Len(q[AnyOf(s)]) + g[s \ {AnyOf(s)}]

Small(n) == {s \in SUBSET Users : Cardinality(s) <= n}

LEMMA SmallSets ==
    ASSUME IsFiniteSet(Users)
    PROVE  /\ \A s \in Small(0) : s = {}
           /\ \A n \in Nat : Small(n) \subseteq Small(n + 1)
           /\ \A n \in Nat : \A s \in Small(n + 1) :
                 s # {} => AnyOf(s) \in s /\ s \ {AnyOf(s)} \in Small(n)
           /\ Cardinality(Users) \in Nat /\ Small(Cardinality(Users)) = SUBSET Users
<1>1. ASSUME NEW s \in SUBSET Users
      PROVE  /\ IsFiniteSet(s) /\ Cardinality(s) \in Nat
             /\ Cardinality(s) <= Cardinality(Users)
             /\ Cardinality(s) = 0 => s = {}
  BY FS_Subset, FS_CardinalityType, FS_EmptySet
<1>2. Cardinality(Users) \in Nat
  BY FS_CardinalityType
<1>3. ASSUME NEW n \in Nat, NEW s \in Small(n + 1), s # {}
      PROVE  AnyOf(s) \in s /\ s \ {AnyOf(s)} \in Small(n)
  <2>1. AnyOf(s) \in s
    BY <1>3 DEF AnyOf
  <2>2. Cardinality(s \ {AnyOf(s)}) = Cardinality(s) - 1
    BY <1>1, <2>1, FS_RemoveElement DEF Small
  <2>3. Cardinality(s) \in Nat
    BY <1>1 DEF Small
  <2> QED
    BY <2>1, <2>2, <2>3 DEF Small
<1>4. \A s \in Small(0) : s = {}
  BY <1>1 DEF Small
<1>5. ASSUME NEW n \in Nat
      PROVE  Small(n) \subseteq Small(n + 1)
  BY <1>1 DEF Small
<1>6. Small(Cardinality(Users)) = SUBSET Users
  BY <1>1 DEF Small
<1> QED
  BY <1>2, <1>3, <1>4, <1>5, <1>6

LEMMA SumsExist ==
    ASSUME IsFiniteSet(Users), NEW q \in [Users -> Seq(Msgs)]
    PROVE  \E g \in [SUBSET Users -> Nat] :
              \A s \in SUBSET Users : g[s] = Adds(q, s, g)
<1> DEFINE Sums(n) == {g \in [Small(n) -> Nat] : \A s \in Small(n) : g[s] = Adds(q, s, g)}
           N == {n \in Nat : Sums(n) # {}}
<1>1. 0 \in N
  <2> DEFINE g == [s \in Small(0) |-> 0]
  <2>1. \A s \in Small(0) : Adds(q, s, g) = 0
    BY SmallSets DEF Adds
  <2>2. g \in Sums(0)
    BY <2>1
  <2> QED
    BY <2>2
<1>2. ASSUME NEW n \in Nat, n \in N
      PROVE  n + 1 \in N
  <2>1. PICK f : f \in Sums(n)
    BY <1>2
  <2>2. f \in [Small(n) -> Nat] /\ \A s \in Small(n) : f[s] = Adds(q, s, f)
    BY <2>1
  <2> DEFINE g == [s \in Small(n + 1) |-> Adds(q, s, f)]
  <2>3. ASSUME NEW s \in Small(n + 1)
        PROVE  Adds(q, s, f) \in Nat /\ Adds(q, s, g) = Adds(q, s, f)
    <3>1. CASE s = {}
      BY <3>1 DEF Adds
    <3>2. CASE s # {}
      <4> DEFINE t == s \ {AnyOf(s)}
      <4>1. AnyOf(s) \in Users /\ t \in Small(n)
        BY <3>2, SmallSets DEF Small
      <4>2. Len(q[AnyOf(s)]) \in Nat /\ f[t] \in Nat
        BY <2>2, <4>1
      <4>3. t \in Small(n + 1) /\ f[t] = Adds(q, t, f)
        BY <2>2, <4>1, SmallSets
      <4>4. g[t] = f[t]
        BY <4>3
      <4> HIDE DEF g
      <4> QED
        BY <3>2, <4>2, <4>4 DEF Adds
    <3> QED
      BY <3>1, <3>2
  <2>4. g \in [Small(n + 1) -> Nat] /\ \A s \in Small(n + 1) : g[s] = Adds(q, s, f)
    BY <2>3
  <2> HIDE DEF g
  <2>5. g \in Sums(n + 1)
    BY <2>3, <2>4
  <2> QED
    BY <2>5
<1> HIDE DEF N
<1>3. Cardinality(Users) \in Nat
  BY SmallSets
<1>4. \A n \in 0..(Cardinality(Users) - 1) : n \in N => n + 1 \in N
  BY <1>2
<1>5. 0..Cardinality(Users) \subseteq N
  BY <1>1, <1>3, <1>4, UpTo
<1>6. Cardinality(Users) \in N
  BY <1>3, <1>5
<1> QED
  BY <1>6, SmallSets DEF N

\* The messages in the queues q of the users in s.
HeldBy(q, s) == {m \in Msgs : \E u \in s : m \in ToSet(q[u])}

LEMMA DistinctLength ==
    ASSUME NEW q \in Seq(Msgs), Distinct(q)
    PROVE  IsFiniteSet(ToSet(q)) /\ Cardinality(ToSet(q)) = Len(q)
<1>1. q \in Bijection(1..Len(q), ToSet(q))
  <2>1. q \in [1..Len(q) -> ToSet(q)] /\ DOMAIN q = 1..Len(q)
    BY DEF ToSet
  <2>2. \A m \in ToSet(q) : \E i \in 1..Len(q) : q[i] = m
    BY DEF ToSet
  <2>3. \A i, j \in 1..Len(q) : q[i] = q[j] => i = j
    BY <2>1 DEF Distinct
  <2>4. q \in Injection(1..Len(q), ToSet(q))
    BY <2>1, <2>3 DEF Injection, IsInjective
  <2>5. q \in Surjection(1..Len(q), ToSet(q))
    BY <2>1, <2>2 DEF Surjection
  <2> QED
    BY <2>4, <2>5 DEF Bijection
<1>2. IsFiniteSet(1..Len(q)) /\ Cardinality(1..Len(q)) = Len(q)
  <2> DEFINE n == Len(q)
  <2>1. n \in Nat
    OBVIOUS
  <2> HIDE DEF n
  <2>2. IsFiniteSet(1..n) /\ Cardinality(1..n) = IF 1 > n THEN 0 ELSE n - 1 + 1
    BY <2>1, FS_Interval
  <2>3. IsFiniteSet(1..n) /\ Cardinality(1..n) = n
    BY <2>1, <2>2
  <2> QED
    BY <2>3 DEF n
<1>3. ExistsBijection(1..Len(q), ToSet(q))
  BY <1>1 DEF ExistsBijection
<1> QED
  BY <1>2, <1>3, FS_Bijection

LEMMA SumsCount ==
    ASSUME IsFiniteSet(Users), IsFiniteSet(Msgs), NEW q \in [Users -> Seq(Msgs)],
           \A u \in Users : Distinct(q[u]),
           \A u, v \in Users : u # v => ToSet(q[u]) \cap ToSet(q[v]) = {},
           NEW g, \A s \in SUBSET Users : g[s] = Adds(q, s, g)
    PROVE  g[Users] = Cardinality(HeldBy(q, Users))
<1> DEFINE N == {n \in Nat : \A s \in Small(n) : g[s] = Cardinality(HeldBy(q, s))}
<1>1. 0 \in N
  <2>1. g[{}] = 0
    BY DEF Adds
  <2>2. HeldBy(q, {}) = {} /\ Cardinality({}) = 0
    BY FS_EmptySet DEF HeldBy
  <2> QED
    BY <2>1, <2>2, SmallSets
<1>2. ASSUME NEW n \in Nat, n \in N
      PROVE  n + 1 \in N
  <2>1. ASSUME NEW s \in Small(n + 1)
        PROVE  g[s] = Cardinality(HeldBy(q, s))
    <3>1. CASE s = {}
      BY <3>1, FS_EmptySet DEF HeldBy, Adds
    <3>2. CASE s # {}
      <4> DEFINE u == AnyOf(s)
                 t == s \ {AnyOf(s)}
      <4>1. u \in s /\ u \in Users /\ t \in Small(n) /\ t \subseteq Users
        BY <3>2, SmallSets DEF Small
      <4>2. g[s] = Len(q[u]) + g[t]
        BY <3>2 DEF Adds, Small
      <4>3. g[t] = Cardinality(HeldBy(q, t))
        BY <1>2, <4>1
      <4>4. q[u] \in Seq(Msgs) /\ ToSet(q[u]) \subseteq Msgs
        BY <4>1, SeqParts
      <4>5. IsFiniteSet(ToSet(q[u])) /\ Cardinality(ToSet(q[u])) = Len(q[u])
        BY <4>1, <4>4, DistinctLength
      <4>6. IsFiniteSet(HeldBy(q, t))
        BY FS_Subset DEF HeldBy
      <4> HIDE DEF u, t
      <4>7. HeldBy(q, s) = ToSet(q[u]) \cup HeldBy(q, t)
        BY <4>1, <4>4 DEF HeldBy, u, t
      <4>8. ToSet(q[u]) \cap HeldBy(q, t) = {}
        BY <4>1 DEF HeldBy, u, t
      <4>9. Cardinality(HeldBy(q, s)) = Len(q[u]) + Cardinality(HeldBy(q, t)) - 0
        BY <4>5, <4>6, <4>7, <4>8, FS_Union, FS_EmptySet
      <4>10. Len(q[u]) \in Nat /\ Cardinality(HeldBy(q, t)) \in Nat
        BY <4>4, <4>6, FS_CardinalityType
      <4> QED
        BY <4>2, <4>3, <4>9, <4>10
    <3> QED
      BY <3>1, <3>2
  <2> QED
    BY <2>1
<1> HIDE DEF N
<1>3. Cardinality(Users) \in Nat
  BY SmallSets
<1>4. \A n \in 0..(Cardinality(Users) - 1) : n \in N => n + 1 \in N
  BY <1>2
<1>5. 0..Cardinality(Users) \subseteq N
  BY <1>1, <1>3, <1>4, UpTo
<1>6. Cardinality(Users) \in N
  BY <1>3, <1>5
<1> QED
  BY <1>6, SmallSets DEF N

LEMMA TotalCounts ==
    ASSUME IsFiniteSet(Users), IsFiniteSet(Msgs), ReceiverTypeOK, QueuesDisjoint
    PROVE  TotalQueued = Cardinality(HeldBy(relayQueue, Users))
<1> DEFINE Sum(g) == [s \in SUBSET Users |-> Adds(relayQueue, s, g)]
           sum == CHOOSE g : g = Sum(g)
<1>1. relayQueue \in [Users -> Seq(Msgs)] /\ DOMAIN relayQueue = Users
  BY DEF ReceiverTypeOK
<1>2. TotalQueued = sum[Users]
  BY <1>1 DEF TotalQueued, FoldFunction, FoldFunctionOnSet, MapThenFoldSet, Adds, AnyOf
<1>3. \E g : g = Sum(g)
  <2>1. PICK g \in [SUBSET Users -> Nat] :
                 \A s \in SUBSET Users : g[s] = Adds(relayQueue, s, g)
    BY <1>1, SumsExist
  <2>2. g = [s \in SUBSET Users |-> g[s]]
    OBVIOUS
  <2> QED
    BY <2>1, <2>2
<1> HIDE DEF Sum
<1>4. sum = Sum(sum)
  BY <1>3
<1> HIDE DEF sum
<1>5. \A s \in SUBSET Users : sum[s] = Adds(relayQueue, s, sum)
  BY <1>4 DEF Sum
<1> QED
  BY <1>1, <1>2, <1>5, SumsCount DEF QueuesDisjoint

LEMMA QueuesSufficeRoom ==
    ASSUME QueuesSuffice, ReceiverTypeOK, QueuesDisjoint
    PROVE  RoomForAll
<1>1. TotalQueued < TotalCap
  <2>1. HeldBy(relayQueue, Users) \subseteq Msgs
    BY DEF HeldBy
  <2>2. /\ Cardinality(HeldBy(relayQueue, Users)) <= Cardinality(Msgs)
        /\ Cardinality(HeldBy(relayQueue, Users)) \in Nat /\ Cardinality(Msgs) \in Nat
    BY <2>1, FS_Subset, FS_CardinalityType DEF QueuesSuffice
  <2> QED
    BY <2>2, TotalCounts, ReceiverAssumption DEF QueuesSuffice, ReceiverAssumption
<1>2. ASSUME NEW u \in Users, u \notin QueuedRecipients
      PROVE  Cardinality(QueuedRecipients) < RecipientCap
  <2>1. QueuedRecipients \subseteq Users \ {u}
    BY <1>2 DEF QueuedRecipients
  <2>2. IsFiniteSet(Users \ {u}) /\ Cardinality(Users \ {u}) = Cardinality(Users) - 1
    BY FS_RemoveElement DEF QueuesSuffice
  <2>3. /\ Cardinality(QueuedRecipients) <= Cardinality(Users \ {u})
        /\ Cardinality(QueuedRecipients) \in Nat /\ Cardinality(Users) \in Nat
    BY <2>1, <2>2, FS_Subset, FS_CardinalityType DEF QueuesSuffice
  <2> QED
    BY <2>2, <2>3, ReceiverAssumption DEF QueuesSuffice, ReceiverAssumption
<1> QED
  BY <1>1, <1>2 DEF RoomForAll, HasRoom

LEMMA DeliveryOneCopy == Spec => []OneCopy
<1>1. Init => OneCopy
  BY OneCopyInit, ReceiverAssumption DEF Init, ReceiverOpenInit
<1>2. TypeOK /\ OneCopy /\ [Next]_vars => OneCopy'
  <2> SUFFICES ASSUME TypeOK, OneCopy, [Next]_vars
               PROVE  OneCopy'
    OBVIOUS
  <2>1. CASE SenderStep \/ UNCHANGED vars
    BY <2>1, OneCopySame DEF SenderStep, vars, receiverVars
  <2>2. CASE ReceiverStep \/ RemoveContact
    <3>1. [ReceiverOpenNext]_receiverOpenVars
      BY <2>2 DEF ReceiverStep, RemoveContact, ReceiverOpenNext, ReceiverNext, OwnerActs
    <3> QED
      BY <3>1, OneCopyStep, ReceiverAssumption DEF TypeOK, ReceiverOpenTypeOK
  <2> QED
    BY <2>1, <2>2 DEF Next
<1> QED
  BY <1>1, <1>2, DeliveryTypes, PTL DEF Spec

\* The caps of the offline queue are not reached by fewer messages and users: no
\* message is ever in two places of the queues, so what is queued is no more
\* than the messages there are.
THEOREM QueuesHaveRoom == QueuesSuffice /\ Spec => []RoomForAll
<1> SUFFICES ASSUME QueuesSuffice
             PROVE  Spec => []RoomForAll
  OBVIOUS
<1>1. TypeOK /\ OneCopy => RoomForAll
  BY QueuesSufficeRoom DEF TypeOK, OneCopy
<1> QED
  BY <1>1, DeliveryTypes, DeliveryOneCopy, PTL

\* The promise of AbstractDelivery, with nothing left to assume of the run.
THEOREM PromiseKept == QueuesSuffice /\ Spec => DeliveryPromise
  BY QueuesHaveRoom, GatewaysDeliver, PTL
=============================================================================
