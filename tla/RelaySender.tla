---------------------------- MODULE RelaySender ----------------------------
(***************************************************************************)
(* The gateway that relays its users' direct messages to a peer gateway.   *)
(*                                                                         *)
(* A message is POSTed when it is sent.  If that fails it becomes a row of *)
(* pending_relays, which a retry pass every 30 seconds and a flush on      *)
(* contact with the peer work through, one at a time under one lock, until *)
(* the peer accepts it or the row expires.  The rows are durable; the      *)
(* awaited POSTs, the pass and the lock are not.                           *)
(***************************************************************************)
EXTENDS RelayWire, SequencesExt, Picking

CONSTANTS
    PassLimit,      \* rows a retry pass takes (50 in the code)
    FlushLimit,     \* rows a flush takes (200)
    MaxTries,       \* bound: POST attempts of one message
    MaxRestarts,    \* bound: times the gateway restarts
    NoMsg           \* no message: nothing is awaited

ASSUME SenderAssumption ==
    /\ Tries = 1..MaxTries
    /\ Nonces = Msgs \X Tries
    /\ PassLimit \in Nat \ {0}
    /\ FlushLimit \in Nat \ {0}
    /\ MaxTries \in Nat \ {0}
    /\ MaxRestarts \in Nat
    /\ NoMsg \notin Msgs

VARIABLES
    posting,    \* messages whose first POST is awaited
    tries,      \* POSTs made of each message
    oldSign,    \* messages first signed more than _RESIGN_AFTER_SECONDS ago
    pending,    \* pending_relays, in created_at order
    stale,      \* rows past their expires_at
    worker,     \* the holder of the relay queue lock
    failing,    \* rows a contact_removed handler has still to fail
    notice,     \* a contact_removed notice is on its way to this gateway
    removed,    \* the peer is in _revoked_dids: it removed this user
    verdict,    \* what the message's client was last sent about it
    restarts    \* how often the gateway restarted

senderVars == <<posting, tries, oldSign, pending, stale, worker, failing,
                notice, removed, verdict, restarts>>

Verdict == {"none", "sent", "waiting", "delivered", "expired"}

\* The lock is free, or held by the sweep that opens a retry pass, by the
\* pass, or by a flush; rows are still to be done and awaits is the message
\* whose POST is awaited.  up: the pass has got one row through.
Worker == [kind : {"free", "sweep", "pass", "flush"}, rows : Seq(Msgs),
           awaits : Msgs \cup {NoMsg}, up : BOOLEAN]

Free == [kind |-> "free", rows |-> <<>>, awaits |-> NoMsg, up |-> FALSE]

SenderTypeOK ==
    /\ posting \subseteq Msgs
    /\ tries \in [Msgs -> 0..MaxTries]
    /\ oldSign \subseteq Msgs
    /\ pending \in Seq(Msgs)
    /\ stale \subseteq Msgs
    /\ worker \in Worker
    /\ failing \in Seq(Msgs)
    /\ notice \in BOOLEAN
    /\ removed \in BOOLEAN
    /\ verdict \in [Msgs -> Verdict]
    /\ restarts \in 0..MaxRestarts

SenderInit ==
    /\ posting = {}
    /\ tries = [m \in Msgs |-> 0]
    /\ oldSign = {}
    /\ pending = <<>>
    /\ stale = {}
    /\ worker = Free
    /\ failing = <<>>
    /\ notice = FALSE
    /\ removed = FALSE
    /\ verdict = [m \in Msgs |-> "none"]
    /\ restarts = 0

-----------------------------------------------------------------------------
\* A retry is sent as first signed, nonce included, until the signature is
\* _RESIGN_AFTER_SECONDS old; after that each retry has a nonce of its own.
Nonce(m, n) == <<m, IF m \in oldSign THEN n ELSE 1>>

\* POST message m to the peer gateway.
Post(m) ==
    /\ tries[m] < MaxTries
    /\ tries' = [tries EXCEPT ![m] = @ + 1]
    /\ requests' = requests \cup
         {[id |-> m, nonce |-> Nonce(m, tries[m] + 1), try |-> tries[m] + 1]}
    /\ UNCHANGED replies

\* The connections m was POSTed over are closed: nobody reads their answers.
Close(m) ==
    /\ replies' = {p \in replies : p.id # m}
    /\ UNCHANGED requests

\* Slip: any answer counts as a success.
GotAnyAnswer(m, ok) ==
    /\ \E a \in BOOLEAN : [id |-> m, try |-> tries[m], ok |-> a] \in replies
    /\ Close(m)

\* post_relay's outcome for the latest POST of m.
GotAnswer(m, ok) ==
    /\ [id |-> m, try |-> tries[m], ok |-> ok] \in replies
    /\ Close(m)

\* False without an answer: the request timed out or could not be made.
NoAnswer(m) == Close(m)

WithoutRow(m) == Picked(pending, Msgs \ {m})

\* The first rows of pending_relays that are, or are not yet, past expires_at.
Expired == LET s == Picked(pending, stale)
           IN  SubSeq(s, 1, IF Len(s) < PassLimit THEN Len(s) ELSE PassLimit)
Live(n) == LET s == Picked(pending, Msgs \ stale)
           IN  SubSeq(s, 1, IF Len(s) < n THEN Len(s) ELSE n)

-----------------------------------------------------------------------------
(* A user sends a message.                                                 *)

\* The message is saved and echoed and its first POST is made; to a peer who
\* removed this user nothing is sent.
Send(m) ==
    /\ ~removed
    /\ tries[m] = 0
    /\ posting' = posting \cup {m}
    /\ Post(m)
    /\ UNCHANGED <<oldSign, pending, stale, worker, failing, notice, removed,
                   verdict, restarts>>

\* The peer accepted it.
FirstOk(m) ==
    /\ m \in posting
    /\ GotAnswer(m, TRUE)
    /\ posting' = posting \ {m}
    /\ verdict' = [verdict EXCEPT ![m] = "sent"]
    /\ UNCHANGED <<tries, oldSign, pending, stale, worker, failing, notice,
                   removed, restarts>>

\* Slip: the client is told that the message waits, and it is not queued.
FirstFailsUnqueued(m) ==
    /\ m \in posting
    /\ GotAnswer(m, FALSE) \/ NoAnswer(m)
    /\ posting' = posting \ {m}
    /\ verdict' = [verdict EXCEPT ![m] = "waiting"]
    /\ UNCHANGED <<tries, oldSign, pending, stale, worker, failing, notice,
                   removed, restarts>>

\* It was refused or timed out: queued for retry, and the client is told so.
FirstFails(m) ==
    /\ m \in posting
    /\ GotAnswer(m, FALSE) \/ NoAnswer(m)
    /\ posting' = posting \ {m}
    /\ pending' = Append(pending, m)
    /\ verdict' = [verdict EXCEPT ![m] = "waiting"]
    /\ UNCHANGED <<tries, oldSign, stale, worker, failing, notice, removed,
                   restarts>>

-----------------------------------------------------------------------------
(* The retry pass and the flush, under the relay queue lock.               *)

\* A pass begins: the expired rows are deleted in one transaction.
StartPass ==
    /\ worker = Free
    /\ pending # <<>>
    /\ worker' = [Free EXCEPT !.kind = "sweep", !.rows = Expired]
    /\ pending' = Picked(pending, Msgs \ ToSet(Expired))
    /\ UNCHANGED <<requests, replies, posting, tries, oldSign, stale, failing,
                   notice, removed, verdict, restarts>>

\* Slips: the client is told nothing, or a status it does not know.
TellNothing ==
    /\ worker.kind = "sweep"
    /\ worker.rows # <<>>
    /\ worker' = [worker EXCEPT !.rows = Tail(@)]
    /\ UNCHANGED <<requests, replies, posting, tries, oldSign, pending, stale,
                   failing, notice, removed, verdict, restarts>>

TellFailed ==
    /\ worker.kind = "sweep"
    /\ worker.rows # <<>>
    /\ verdict' = [verdict EXCEPT ![Head(worker.rows)] = "failed"]
    /\ worker' = [worker EXCEPT !.rows = Tail(@)]
    /\ UNCHANGED <<requests, replies, posting, tries, oldSign, pending, stale,
                   failing, notice, removed, restarts>>

\* The client of one deleted row is told that it expired.
TellExpired ==
    /\ worker.kind = "sweep"
    /\ worker.rows # <<>>
    /\ verdict' = [verdict EXCEPT ![Head(worker.rows)] = "expired"]
    /\ worker' = [worker EXCEPT !.rows = Tail(@)]
    /\ UNCHANGED <<requests, replies, posting, tries, oldSign, pending, stale,
                   failing, notice, removed, restarts>>

\* The sweep is over: the pass takes its snapshot of the queue.
TakeRows ==
    /\ worker.kind = "sweep"
    /\ worker.rows = <<>>
    /\ worker' = [Free EXCEPT !.kind = "pass", !.rows = Live(PassLimit)]
    /\ UNCHANGED <<requests, replies, posting, tries, oldSign, pending, stale,
                   failing, notice, removed, verdict, restarts>>

\* The peer made contact: what is queued for it goes now.
StartFlush ==
    /\ worker = Free
    /\ Live(FlushLimit) # <<>>
    /\ worker' = [Free EXCEPT !.kind = "flush", !.rows = Live(FlushLimit)]
    /\ UNCHANGED <<requests, replies, posting, tries, oldSign, pending, stale,
                   failing, notice, removed, verdict, restarts>>

HasTurn ==
    /\ worker.kind \in {"pass", "flush"}
    /\ worker.awaits = NoMsg
    /\ worker.rows # <<>>

\* The row's backoff has not elapsed, and no row of this pass got through.
SkipRow ==
    /\ HasTurn
    /\ \/ worker.kind = "pass" /\ ~worker.up
       \/ tries[Head(worker.rows)] = MaxTries
    /\ worker' = [worker EXCEPT !.rows = Tail(@)]
    /\ UNCHANGED <<requests, replies, posting, tries, oldSign, pending, stale,
                   failing, notice, removed, verdict, restarts>>

\* The row is POSTed, whatever has become of it since the snapshot.
AttemptRow ==
    /\ HasTurn
    /\ Post(Head(worker.rows))
    /\ worker' = [worker EXCEPT !.awaits = Head(worker.rows),
                               !.rows = Tail(@)]
    /\ UNCHANGED <<posting, oldSign, pending, stale, failing, notice, removed,
                   verdict, restarts>>

\* Slip: the row stays.
RowDeliveredKept ==
    /\ worker.awaits # NoMsg
    /\ GotAnswer(worker.awaits, TRUE)
    /\ verdict' = [verdict EXCEPT ![worker.awaits] = "delivered"]
    /\ worker' = [worker EXCEPT !.awaits = NoMsg, !.up = TRUE]
    /\ UNCHANGED <<posting, tries, oldSign, pending, stale, failing, notice,
                   removed, restarts>>

\* Accepted: the row is deleted and the client told.
RowDelivered ==
    /\ worker.awaits # NoMsg
    /\ GotAnswer(worker.awaits, TRUE)
    /\ pending' = WithoutRow(worker.awaits)
    /\ verdict' = [verdict EXCEPT ![worker.awaits] = "delivered"]
    /\ worker' = [worker EXCEPT !.awaits = NoMsg, !.up = TRUE]
    /\ UNCHANGED <<posting, tries, oldSign, stale, failing, notice, removed,
                   restarts>>

\* Not accepted: the row stays; a flush ends, a pass goes on.
RowFailed ==
    /\ worker.awaits # NoMsg
    /\ GotAnswer(worker.awaits, FALSE) \/ NoAnswer(worker.awaits)
    /\ worker' = IF worker.kind = "flush" THEN Free
                 ELSE [worker EXCEPT !.awaits = NoMsg]
    /\ UNCHANGED <<posting, tries, oldSign, pending, stale, failing, notice,
                   removed, verdict, restarts>>

\* No rows are left: the lock is free again.
EndWork ==
    /\ worker.kind \in {"pass", "flush"}
    /\ worker.awaits = NoMsg
    /\ worker.rows = <<>>
    /\ worker' = Free
    /\ UNCHANGED <<requests, replies, posting, tries, oldSign, pending, stale,
                   failing, notice, removed, verdict, restarts>>

-----------------------------------------------------------------------------
(* The peer removed this gateway's user as a contact.                      *)

\* The notice arrives: the user can send the peer no more, and the rows queued
\* for it are read, without the lock.
HearRemoval ==
    /\ notice
    /\ ~removed
    /\ failing = <<>>
    /\ notice' = FALSE
    /\ removed' = TRUE
    /\ failing' = pending
    /\ UNCHANGED <<requests, replies, posting, tries, oldSign, pending, stale,
                   worker, verdict, restarts>>

\* It finds no contact to remove, or arrives after the two became contacts
\* again: it is received and changes nothing.
IgnoreRemoval ==
    /\ notice
    /\ notice' = FALSE
    /\ UNCHANGED <<requests, replies, posting, tries, oldSign, pending, stale,
                   worker, failing, removed, verdict, restarts>>

\* The two are contacts again.
ReAddPeer ==
    /\ removed
    /\ removed' = FALSE
    /\ UNCHANGED <<requests, replies, posting, tries, oldSign, pending, stale,
                   worker, failing, notice, verdict, restarts>>

\* One of them is failed for good and its client told.
FailRow ==
    /\ failing # <<>>
    /\ pending' = WithoutRow(Head(failing))
    /\ verdict' = [verdict EXCEPT ![Head(failing)] = "expired"]
    /\ failing' = Tail(failing)
    /\ UNCHANGED <<requests, replies, posting, tries, oldSign, stale, worker,
                   notice, removed, restarts>>

-----------------------------------------------------------------------------
(* Time, and the process.                                                  *)

SignatureAges(m) ==
    /\ tries[m] > 0
    /\ m \notin oldSign
    /\ oldSign' = oldSign \cup {m}
    /\ UNCHANGED <<requests, replies, posting, tries, pending, stale, worker,
                   failing, notice, removed, verdict, restarts>>

\* A row passes its expires_at, a day after it was queued.
RowAges(m) ==
    /\ m \in ToSet(pending) \cap oldSign
    /\ m \notin stale
    /\ stale' = stale \cup {m}
    /\ UNCHANGED <<requests, replies, posting, tries, oldSign, pending, worker,
                   failing, notice, removed, verdict, restarts>>

\* The gateway restarts: what it awaited is forgotten, its queue is not.
Restart ==
    /\ restarts < MaxRestarts
    /\ restarts' = restarts + 1
    /\ posting' = {}
    /\ worker' = Free
    /\ failing' = <<>>
    /\ UNCHANGED <<requests, replies, tries, oldSign, pending, stale, notice,
                   removed, verdict>>

-----------------------------------------------------------------------------
SendMessage ==
    \E m \in Msgs : Send(m) \/ FirstOk(m) \/ FirstFails(m)

WorkQueue ==
    \/ StartPass \/ TellExpired \/ TakeRows \/ StartFlush \/ SkipRow
    \/ AttemptRow \/ RowDelivered \/ RowFailed \/ EndWork

ContactRemoved == HearRemoval \/ IgnoreRemoval \/ FailRow \/ ReAddPeer

TimePasses == \E m \in Msgs : SignatureAges(m) \/ RowAges(m)

SenderNext ==
    SendMessage \/ WorkQueue \/ ContactRemoved \/ TimePasses \/ Restart

-----------------------------------------------------------------------------
(* The sender by itself, while it runs: its peer answers a POST with       *)
(* anything, or not at all.  What a restart and a removal of the contact   *)
(* do is seen in RelayDelivery.                                            *)

PeerAnswers ==
    /\ \E r \in requests, ok \in BOOLEAN : Answer(r, ok)
    /\ UNCHANGED senderVars

SenderOpenNext == SendMessage \/ WorkQueue \/ TimePasses \/ PeerAnswers

SenderOpenInit == WireInit /\ SenderInit

senderOpenVars == <<wireVars, senderVars>>

SenderSpec == SenderOpenInit /\ [][SenderOpenNext]_senderOpenVars

\* The retry task runs on: an awaited POST ends by its timeout, the lock is
\* handed out in turn (asyncio.Lock is first come, first served), so a pass
\* gets it even when flushes keep asking, and a queued row gets old.
RetryTaskRuns ==
    /\ \A m \in Msgs : /\ WF_senderOpenVars(FirstOk(m) \/ FirstFails(m))
                       /\ WF_senderOpenVars(SignatureAges(m))
                       /\ WF_senderOpenVars(RowAges(m))
    /\ SF_senderOpenVars(StartPass)
    /\ WF_senderOpenVars(TellExpired \/ TakeRows \/ SkipRow \/ AttemptRow
                         \/ RowDelivered \/ RowFailed \/ EndWork)

FairSenderSpec == SenderSpec /\ RetryTaskRuns

-----------------------------------------------------------------------------
(* Properties.                                                             *)

SenderOpenTypeOK == WireTypeOK /\ SenderTypeOK

\* A message the client was told is waiting is still a row of the queue, or in
\* the hands of the sweep that is about to tell the client that it expired: no
\* message shows as queued when nothing will ever come of it.
WaitingIsKept ==
    \A m \in Msgs : verdict[m] = "waiting" =>
        \/ m \in ToSet(pending)
        \/ worker.kind = "sweep" /\ m \in ToSet(worker.rows)

\* A row of the queue belongs to a message whose client was told it waits: the
\* outcome is reported only when the row is gone, and a gone row never returns.
RowsAreWaiting == \A m \in ToSet(pending) : verdict[m] = "waiting"

\* The outcome a client is told, delivered or expired, is final.
OutcomeIsFinal ==
    [][\A m \in Msgs : verdict[m] \in {"delivered", "expired"}
                         => verdict'[m] = verdict[m]]_verdict

\* A message that waits is delivered or its client is told that it expired,
\* whatever the peer does: retried until expires_at, then relay_expired.
WaitingIsSettled ==
    \A m \in Msgs : verdict[m] = "waiting"
                      ~> verdict[m] \in {"delivered", "expired"}
=============================================================================
