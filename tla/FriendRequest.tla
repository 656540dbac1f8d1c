--------------------------- MODULE FriendRequest ---------------------------
(***************************************************************************)
(* Friend requests between gateways.                                       *)
(*                                                                         *)
(* The requester's gateway POSTs a request to its target's gateway, which  *)
(* keeps a row of it and shows a card; the target accepts or ignores it    *)
(* and the requester may withdraw it, each with a POST to the other side.  *)
(* Both gateways keep a row per request, and both add a contact when it is *)
(* accepted.  A request, a decline or a withdrawal that finds the other    *)
(* gateway down is queued beside the relays and retried.                   *)
(*                                                                         *)
(* Handlers run up to their next await in one step.  Every signature       *)
(* verifies and every acceptance comes from the invited target.            *)
(***************************************************************************)
EXTENDS Naturals, FiniteSets

CONSTANTS
    Gateways,       \* gateways, each the gateway of one owner
    Requests,       \* friend requests
    Issuer,         \* the gateway whose owner makes each request
    Target,         \* the gateway whose owner it is made to
    Insecure,       \* requests that carry an http:// endpoint hint
    Lossy,          \* bound: kinds of POST that may go unanswered
    EarlyAnswers,   \* bound: whether the target may answer a request whose
                    \* first POST the requester still awaits
    AskContacts,    \* bound: whether a user asks someone who is a contact
    Expiring,       \* bound: kinds of which requests and queued notices expire
    MaxRestarts,    \* bound: restarts of gateways
    NoRow           \* no row of the queue is being retried

Kinds == {"invite", "accept", "decline", "withdraw"}
Posts == Kinds \X Requests

ASSUME FriendRequestAssumption ==
    /\ Issuer \in [Requests -> Gateways]
    /\ Target \in [Requests -> Gateways]
    /\ \A i \in Requests : Issuer[i] # Target[i]
    /\ Insecure \subseteq Requests
    /\ Lossy \subseteq Kinds
    /\ Expiring \subseteq Kinds
    /\ {EarlyAnswers, AskContacts} \subseteq BOOLEAN
    /\ MaxRestarts \in Nat
    /\ NoRow \notin Posts

VARIABLES
    row,            \* pending_invites: the status of a request at a gateway
    contacts,       \* relationships: how many a request has made at a gateway
    nonces,         \* invite_seen_nonces
    queue,          \* pending_relays: requests and notices to be retried
    worker,         \* the queued row whose POST is awaited, under the lock
    first,          \* POSTs awaited by the handler or task that made them
    post,           \* what has become of each POST
    withdrawing,    \* withdrawals that wait for the lock of the queue
    told,           \* what the requester was last told of the request
    expired,        \* requests past their expires_at
    restarts        \* restarts so far

vars == <<row, contacts, nonces, queue, worker, first, post, withdrawing,
          told, expired, restarts>>

Status == {"none", "pending", "accepted", "declined", "withdrawn", "failed",
           "expired"}
Told   == {"nothing", "asking", "sent", "queued", "delivered", "failed"}

\* The statuses 2xx, 410, 409 and 400 of an HTTP answer.
Codes  == {"ok", "gone", "duplicate", "refused"}

\* sent: awaited, and the other gateway has it or will; a code: answered and
\* awaited; late: given up on, but the other gateway may still take it.
PostState == {"idle", "sent", "late"} \cup Codes

Sender(k, i) == IF k \in {"invite", "withdraw"} THEN Issuer[i] ELSE Target[i]

\* The other requests between the same two owners.
Others(i) == {j \in Requests \ {i} :
                 {Issuer[j], Target[j]} = {Issuer[i], Target[i]}}

FriendTypeOK ==
    /\ row \in [Gateways -> [Requests -> Status]]
    /\ contacts \in [Gateways -> [Requests -> Nat]]
    /\ nonces \in [Gateways -> SUBSET Requests]
    /\ queue \in [Gateways -> SUBSET Posts]
    /\ worker \in [Gateways -> Posts \cup {NoRow}]
    /\ first \subseteq Posts
    /\ post \in [Posts -> PostState]
    /\ withdrawing \subseteq Requests
    /\ told \in [Requests -> Told]
    /\ expired \subseteq Requests
    /\ restarts \in 0..MaxRestarts
    \* whoever awaits a POST is its sender, and one waits at a time
    /\ \A p \in Posts :
          /\ worker[Sender(p[1], p[2])] = p => p \notin first
          /\ post[p] \in {"sent"} \cup Codes =>
                p \in first \/ worker[Sender(p[1], p[2])] = p

Init ==
    /\ row = [g \in Gateways |-> [i \in Requests |-> "none"]]
    /\ contacts = [g \in Gateways |-> [i \in Requests |-> 0]]
    /\ nonces = [g \in Gateways |-> {}]
    /\ queue = [g \in Gateways |-> {}]
    /\ worker = [g \in Gateways |-> NoRow]
    /\ first = {}
    /\ post = [p \in Posts |-> "idle"]
    /\ withdrawing = {}
    /\ told = [i \in Requests |-> "nothing"]
    /\ expired = {}
    /\ restarts = 0

-----------------------------------------------------------------------------
(* Helpers.                                                                *)

SendPost(k, i) == post' = [post EXCEPT ![<<k, i>>] = "sent"]

\* The answer of a handler; nobody reads that of a late POST.
Answer(k, i, code) ==
    post' = [post EXCEPT ![<<k, i>>] = IF @ = "sent" THEN code ELSE "idle"]

GotAnswer(k, i, codes) ==
    /\ post[<<k, i>>] \in codes
    /\ post' = [post EXCEPT ![<<k, i>>] = "idle"]

\* The request timed out or could not be made.
NoAnswer(k, i) ==
    /\ k \in Lossy
    /\ post' = [post EXCEPT ![<<k, i>>] = IF @ = "sent" THEN "late" ELSE "idle"]

SetRow(g, i, s) == row' = [row EXCEPT ![g][i] = s]

HasContact(g, h) ==
    \E i \in Requests : {Issuer[i], Target[i]} = {g, h} /\ contacts[g][i] > 0

\* _settle_other_invites_for_peer: what else is pending between the two is
\* taken as accepted.
SettledRows(g, i) ==
    [j \in Requests |-> IF j \in Others(i) /\ row[g][j] = "pending"
                        THEN "accepted" ELSE row[g][j]]

AddContact(g, i) == contacts' = [contacts EXCEPT ![g][i] = @ + 1]

-----------------------------------------------------------------------------
(* The requester.                                                          *)

\* A request is signed and POSTed; nothing is saved before the answer.
Ask(i) ==
    /\ told[i] = "nothing"
    /\ AskContacts \/ ~HasContact(Issuer[i], Target[i])
    /\ told' = [told EXCEPT ![i] = "asking"]
    /\ first' = first \cup {<<"invite", i>>}
    /\ SendPost("invite", i)
    /\ UNCHANGED <<row, contacts, nonces, queue, worker, withdrawing, expired,
                   restarts>>

AskDelivered(i) ==
    /\ <<"invite", i>> \in first
    /\ GotAnswer("invite", i, {"ok"})
    /\ SetRow(Issuer[i], i, "pending")
    /\ told' = [told EXCEPT ![i] = "sent"]
    /\ first' = first \ {<<"invite", i>>}
    /\ UNCHANGED <<contacts, nonces, queue, worker, withdrawing, expired,
                   restarts>>

\* Not delivered, whatever the reason: the request is queued.
AskQueued(i) ==
    /\ <<"invite", i>> \in first
    /\ GotAnswer("invite", i, Codes \ {"ok"}) \/ NoAnswer("invite", i)
    /\ SetRow(Issuer[i], i, "pending")
    /\ queue' = [queue EXCEPT ![Issuer[i]] = @ \cup {<<"invite", i>>}]
    /\ told' = [told EXCEPT ![i] = "queued"]
    /\ first' = first \ {<<"invite", i>>}
    /\ UNCHANGED <<contacts, nonces, worker, withdrawing, expired, restarts>>

\* The handler of withdraw_friend_request, up to the lock of the queue ...
Withdraw(i) ==
    /\ row[Issuer[i]][i] = "pending"
    /\ SetRow(Issuer[i], i, "withdrawn")
    /\ withdrawing' = withdrawing \cup {i}
    /\ UNCHANGED <<contacts, nonces, queue, worker, first, post, told, expired,
                   restarts>>

\* Slip: the target is not told.
WithdrawUntold(i) ==
    /\ i \in withdrawing
    /\ worker[Issuer[i]] = NoRow
    /\ withdrawing' = withdrawing \ {i}
    /\ queue' = [queue EXCEPT ![Issuer[i]] = @ \ {<<"invite", i>>}]
    /\ UNCHANGED <<row, contacts, nonces, worker, first, post, told, expired,
                   restarts>>

\* ... and behind it: a request still queued is taken off the queue, of any
\* other the target's gateway is told.
WithdrawQueued(i) ==
    /\ i \in withdrawing
    /\ worker[Issuer[i]] = NoRow
    /\ withdrawing' = withdrawing \ {i}
    /\ IF <<"invite", i>> \in queue[Issuer[i]]
       THEN /\ queue' = [queue EXCEPT ![Issuer[i]] = @ \ {<<"invite", i>>}]
            /\ UNCHANGED <<first, post>>
       ELSE /\ first' = first \cup {<<"withdraw", i>>}
            /\ SendPost("withdraw", i)
            /\ UNCHANGED queue
    /\ UNCHANGED <<row, contacts, nonces, worker, told, expired, restarts>>

\* has_seen_invite_nonce, and a slip: nothing is remembered.
NeverSeen(g, i) == FALSE
Seen(g, i) == i \in nonces[g]

\* Slip: a withdrawn request is no longer pending, and nothing else.
AcceptCodeNotGone(i) ==
    CASE row[Issuer[i]][i] = "none" -> "refused"
      [] row[Issuer[i]][i] = "pending" /\ i \notin expired -> "ok"
      [] OTHER -> "duplicate"

\* What an acceptance is answered.
AcceptCode(i) ==
    LET s == row[Issuer[i]][i] IN
    CASE s = "none" -> "refused"
      [] s = "withdrawn" -> "gone"
      [] s \notin {"none", "withdrawn", "pending"} -> "duplicate"
      [] s = "pending" /\ i \in expired -> "gone"
      [] s = "pending" /\ i \notin expired ->
            IF Seen(Issuer[i], i) THEN "duplicate" ELSE "ok"

\* POST /invite/accept.
HandleAccept(i) ==
    LET g == Issuer[i] IN
    /\ post[<<"accept", i>>] \in {"sent", "late"}
    /\ Answer("accept", i, AcceptCode(i))
    /\ IF AcceptCode(i) = "ok"
       THEN /\ nonces' = [nonces EXCEPT ![g] = @ \cup {i}]
            /\ AddContact(g, i)
            /\ row' = [row EXCEPT ![g] =
                         [SettledRows(g, i) EXCEPT ![i] = "accepted"]]
       ELSE UNCHANGED <<row, contacts, nonces>>
    /\ UNCHANGED <<queue, worker, first, withdrawing, told, expired, restarts>>

\* POST /invite/decline.
HandleDecline(i) ==
    /\ post[<<"decline", i>>] \in {"sent", "late"}
    /\ IF row[Issuer[i]][i] = "pending" THEN SetRow(Issuer[i], i, "declined")
                                        ELSE UNCHANGED row
    /\ Answer("decline", i, "ok")
    /\ UNCHANGED <<contacts, nonces, queue, worker, first, withdrawing, told,
                   expired, restarts>>

-----------------------------------------------------------------------------
(* The target.                                                             *)

\* What a request is answered.
InviteCode(i) ==
    CASE i \in expired -> "refused"
      [] i \notin expired /\ Seen(Target[i], i) -> "duplicate"
      [] i \notin expired /\ ~Seen(Target[i], i) ->
            IF i \in Insecure THEN "refused" ELSE "ok"

\* POST /invite.  The id is recorded before the endpoint hint is looked at.
HandleInvite(i) ==
    LET g == Target[i] IN
    /\ post[<<"invite", i>>] \in {"sent", "late"}
    /\ Answer("invite", i, InviteCode(i))
    /\ nonces' = IF i \in expired THEN nonces
                 ELSE [nonces EXCEPT ![g] = @ \cup {i}]
    /\ IF InviteCode(i) = "ok" THEN SetRow(g, i, "pending") ELSE UNCHANGED row
    /\ UNCHANGED <<contacts, queue, worker, first, withdrawing, told, expired,
                   restarts>>

\* POST /invite/withdraw.
HandleWithdraw(i) ==
    /\ post[<<"withdraw", i>>] \in {"sent", "late"}
    /\ IF row[Target[i]][i] = "pending" THEN SetRow(Target[i], i, "withdrawn")
                                        ELSE UNCHANGED row
    /\ Answer("withdraw", i, "ok")
    /\ UNCHANGED <<contacts, nonces, queue, worker, first, withdrawing, told,
                   expired, restarts>>

\* The target has a card for the request and may answer it.
MayAnswer(i) ==
    /\ row[Target[i]][i] = "pending"
    /\ EarlyAnswers \/ <<"invite", i>> \notin first

\* Slip: the row is marked when the acceptance is through.
AcceptUnmarked(i) ==
    /\ MayAnswer(i)
    /\ i \notin expired
    /\ first' = first \cup {<<"accept", i>>}
    /\ SendPost("accept", i)
    /\ UNCHANGED <<row, contacts, nonces, queue, worker, withdrawing, told,
                   expired, restarts>>

\* The handler of accept_friend_request, up to the POST it awaits.
Accept(i) ==
    /\ MayAnswer(i)
    /\ i \notin expired
    /\ SetRow(Target[i], i, "accepted")
    /\ first' = first \cup {<<"accept", i>>}
    /\ SendPost("accept", i)
    /\ UNCHANGED <<contacts, nonces, queue, worker, withdrawing, told, expired,
                   restarts>>

\* Slip: the answer is not looked at.
AcceptedAnyway(i) ==
    /\ <<"accept", i>> \in first
    /\ GotAnswer("accept", i, Codes) \/ NoAnswer("accept", i)
    /\ AddContact(Target[i], i)
    /\ row' = [row EXCEPT ![Target[i]] = SettledRows(Target[i], i)]
    /\ first' = first \ {<<"accept", i>>}
    /\ UNCHANGED <<nonces, queue, worker, withdrawing, told, expired, restarts>>

\* Any outcome but "gone", none included, adds the contact.
Accepted(i) ==
    /\ <<"accept", i>> \in first
    /\ GotAnswer("accept", i, Codes \ {"gone"}) \/ NoAnswer("accept", i)
    /\ AddContact(Target[i], i)
    /\ row' = [row EXCEPT ![Target[i]] = SettledRows(Target[i], i)]
    /\ first' = first \ {<<"accept", i>>}
    /\ UNCHANGED <<nonces, queue, worker, withdrawing, told, expired, restarts>>

AcceptGone(i) ==
    /\ <<"accept", i>> \in first
    /\ GotAnswer("accept", i, {"gone"})
    /\ SetRow(Target[i], i, "withdrawn")
    /\ first' = first \ {<<"accept", i>>}
    /\ UNCHANGED <<contacts, nonces, queue, worker, withdrawing, told, expired,
                   restarts>>

\* The handler of decline_friend_request; a task tells the requester.
Decline(i) ==
    /\ MayAnswer(i)
    /\ SetRow(Target[i], i, "declined")
    /\ first' = first \cup {<<"decline", i>>}
    /\ SendPost("decline", i)
    /\ UNCHANGED <<contacts, nonces, queue, worker, withdrawing, told, expired,
                   restarts>>

-----------------------------------------------------------------------------
(* Declines and withdrawals on their way: k is one of the two.             *)

NoticeTold(k, i) ==
    /\ <<k, i>> \in first
    /\ GotAnswer(k, i, {"ok"})
    /\ first' = first \ {<<k, i>>}
    /\ UNCHANGED <<row, contacts, nonces, queue, worker, withdrawing, told,
                   expired, restarts>>

\* Slip: a notice that is not taken is given up.
NoticeGivenUp(k, i) ==
    /\ <<k, i>> \in first
    /\ NoAnswer(k, i)
    /\ first' = first \ {<<k, i>>}
    /\ UNCHANGED <<row, contacts, nonces, queue, worker, withdrawing, told,
                   expired, restarts>>

NoticeQueued(k, i) ==
    /\ <<k, i>> \in first
    /\ NoAnswer(k, i)
    /\ first' = first \ {<<k, i>>}
    /\ queue' = [queue EXCEPT ![Sender(k, i)] = @ \cup {<<k, i>>}]
    /\ UNCHANGED <<row, contacts, nonces, worker, withdrawing, told, expired,
                   restarts>>

-----------------------------------------------------------------------------
(* The queue.  A pass and a flush hold the lock over several rows; here it *)
(* is held over one, so more may come between two rows than in the code.   *)

\* A queued request that was withdrawn, answered or settled is not sent.
DropSettled(i) ==
    LET g == Issuer[i] IN
    /\ worker[g] = NoRow
    /\ <<"invite", i>> \in queue[g]
    /\ row[g][i] # "pending"
    /\ queue' = [queue EXCEPT ![g] = @ \ {<<"invite", i>>}]
    /\ UNCHANGED <<row, contacts, nonces, worker, first, post, withdrawing,
                   told, expired, restarts>>

\* Slip: without the lock.
RetryUnlocked(k, i) ==
    LET g == Sender(k, i) IN
    /\ <<k, i>> \in queue[g]
    /\ k = "invite" => row[g][i] = "pending" /\ i \notin expired
    /\ worker' = [worker EXCEPT ![g] = <<k, i>>]
    /\ SendPost(k, i)
    /\ UNCHANGED <<row, contacts, nonces, queue, first, withdrawing, told,
                   expired, restarts>>

Retry(k, i) ==
    LET g == Sender(k, i) IN
    /\ worker[g] = NoRow
    /\ <<k, i>> \in queue[g]
    /\ k = "invite" => row[g][i] = "pending" /\ i \notin expired
    /\ worker' = [worker EXCEPT ![g] = <<k, i>>]
    /\ SendPost(k, i)
    /\ UNCHANGED <<row, contacts, nonces, queue, first, withdrawing, told,
                   expired, restarts>>

\* The awaited row k, i is done with and taken off the queue.
TakeOff(k, i) ==
    LET g == Sender(k, i) IN
    /\ worker[g] = <<k, i>>
    /\ worker' = [worker EXCEPT ![g] = NoRow]
    /\ queue' = [queue EXCEPT ![g] = @ \ {<<k, i>>}]

\* 409 counts: the target has had the request before.
RequestDelivered(i) ==
    /\ TakeOff("invite", i)
    /\ GotAnswer("invite", i, {"ok", "duplicate"})
    /\ told' = [told EXCEPT ![i] = "delivered"]
    /\ UNCHANGED <<row, contacts, nonces, first, withdrawing, expired, restarts>>

\* Slip: whatever has become of it.
UndeliverableAnyway(i, reason) ==
    SetRow(Issuer[i], i, reason) /\ told' = [told EXCEPT ![i] = "failed"]

\* The request has failed, unless it was withdrawn, answered or settled.
Undeliverable(i, reason) ==
    IF row[Issuer[i]][i] = "pending"
    THEN SetRow(Issuer[i], i, reason) /\ told' = [told EXCEPT ![i] = "failed"]
    ELSE UNCHANGED <<row, told>>

RequestRefused(i) ==
    /\ TakeOff("invite", i)
    /\ GotAnswer("invite", i, {"refused"})
    /\ Undeliverable(i, "failed")
    /\ UNCHANGED <<contacts, nonces, first, withdrawing, expired, restarts>>

NoticeDelivered(k, i) ==
    /\ TakeOff(k, i)
    /\ GotAnswer(k, i, {"ok"})
    /\ UNCHANGED <<row, contacts, nonces, first, withdrawing, told, expired,
                   restarts>>

RetryFailed(k, i) ==
    /\ worker[Sender(k, i)] = <<k, i>>
    /\ NoAnswer(k, i)
    /\ worker' = [worker EXCEPT ![Sender(k, i)] = NoRow]
    /\ UNCHANGED <<row, contacts, nonces, queue, first, withdrawing, told,
                   expired, restarts>>

-----------------------------------------------------------------------------
(* Time and restarts.                                                      *)

Expire(i) ==
    /\ "invite" \in Expiring
    /\ told[i] # "nothing"
    /\ i \notin expired
    /\ expired' = expired \cup {i}
    /\ UNCHANGED <<row, contacts, nonces, queue, worker, first, post,
                   withdrawing, told, restarts>>

\* The sweep that opens a pass, of a request and of a notice.
SweepRequest(i) ==
    LET g == Issuer[i] IN
    /\ i \in expired
    /\ worker[g] = NoRow
    /\ <<"invite", i>> \in queue[g]
    /\ queue' = [queue EXCEPT ![g] = @ \ {<<"invite", i>>}]
    /\ Undeliverable(i, "expired")
    /\ UNCHANGED <<contacts, nonces, worker, first, post, withdrawing, expired,
                   restarts>>

SweepNotice(k, i) ==
    LET g == Sender(k, i) IN
    /\ k \in Expiring
    /\ worker[g] = NoRow
    /\ <<k, i>> \in queue[g]
    /\ queue' = [queue EXCEPT ![g] = @ \ {<<k, i>>}]
    /\ UNCHANGED <<row, contacts, nonces, worker, first, post, withdrawing,
                   told, expired, restarts>>

\* What is awaited at g is lost, what is stored is not.
Interrupt(g) ==
    /\ restarts < MaxRestarts
    /\ restarts' = restarts + 1
    /\ post' = [p \in Posts |->
                  IF Sender(p[1], p[2]) # g \/ post[p] \in {"idle", "late"}
                  THEN post[p]
                  ELSE IF post[p] = "sent" THEN "late" ELSE "idle"]
    /\ first' = {p \in first : Sender(p[1], p[2]) # g}
    /\ withdrawing' = {i \in withdrawing : Issuer[i] # g}
    /\ worker' = [worker EXCEPT ![g] = NoRow]
    /\ UNCHANGED <<contacts, nonces, queue, told, expired>>

Restart(g) == Interrupt(g) /\ UNCHANGED row

\* A restart between the two commits of AskQueued: saved and not queued.
RestartUnqueued(i) ==
    /\ <<"invite", i>> \in first
    /\ post[<<"invite", i>>] \in Codes \ {"ok"} \/ "invite" \in Lossy
    /\ Interrupt(Issuer[i])
    /\ SetRow(Issuer[i], i, "pending")

-----------------------------------------------------------------------------
Requester(i) ==
    \/ Ask(i) \/ AskDelivered(i) \/ AskQueued(i)
    \/ Withdraw(i) \/ WithdrawQueued(i) \/ HandleAccept(i) \/ HandleDecline(i)

Invitee(i) ==
    \/ HandleInvite(i) \/ HandleWithdraw(i)
    \/ Accept(i) \/ Accepted(i) \/ AcceptGone(i) \/ Decline(i)

Notice(k, i) ==
    \/ NoticeTold(k, i) \/ NoticeQueued(k, i) \/ NoticeDelivered(k, i)
    \/ SweepNotice(k, i)

Queue(i) ==
    \/ DropSettled(i) \/ RequestDelivered(i) \/ RequestRefused(i)
    \/ SweepRequest(i)
    \/ \E k \in Kinds \ {"accept"} : Retry(k, i) \/ RetryFailed(k, i)

Next ==
    \/ \E i \in Requests :
          \/ Requester(i) \/ Invitee(i) \/ Queue(i) \/ Expire(i)
          \/ RestartUnqueued(i)
          \/ \E k \in {"decline", "withdraw"} : Notice(k, i)
    \/ \E g \in Gateways : Restart(g)

Spec == Init /\ [][Next]_vars

-----------------------------------------------------------------------------
(* Fairness: a handler resumes once its POST is answered or has timed out, *)
(* the retry loop comes back to each row, and the other gateway is not     *)
(* down each time it is tried.  Users need not do anything.                *)
TriedIsHandled(k, i) ==
    /\ post[<<k, i>>] = "sent"
    /\ \/ k = "invite" /\ HandleInvite(i)
       \/ k = "accept" /\ HandleAccept(i)
       \/ k = "decline" /\ HandleDecline(i)
       \/ k = "withdraw" /\ HandleWithdraw(i)

Resumes(i) ==
    \/ AskDelivered(i) \/ AskQueued(i) \/ Accepted(i) \/ AcceptGone(i)
    \/ RequestDelivered(i) \/ RequestRefused(i) \/ RetryFailed("invite", i)

NoticeResumes(k, i) ==
    NoticeTold(k, i) \/ NoticeQueued(k, i) \/ NoticeDelivered(k, i)
                     \/ RetryFailed(k, i)

FairSpec ==
    /\ Spec
    /\ \A i \in Requests :
          /\ WF_vars(Resumes(i))
          /\ SF_vars(WithdrawQueued(i))
          /\ WF_vars(DropSettled(i))
          /\ \A k \in {"decline", "withdraw"} : WF_vars(NoticeResumes(k, i))
          /\ \A k \in Kinds : SF_vars(Retry(k, i)) /\ SF_vars(TriedIsHandled(k, i))

-----------------------------------------------------------------------------
(* Properties.                                                             *)

\* A request makes at most one contact on each side, whatever is repeated,
\* late or interrupted.
OnePerRequest == \A g \in Gateways, i \in Requests : contacts[g][i] <= 1

\* An answer given is final: a request that was accepted, ignored, withdrawn
\* or has failed never changes again and never comes back as a new card.  The
\* one exception is an acceptance the requester refuses.
AnswersAreFinal ==
    [][\A g \in Gateways, i \in Requests :
          row[g][i] \notin {"none", "pending"} =>
             \/ row'[g][i] = row[g][i]
             \/ /\ g = Target[i] /\ <<"accept", i>> \in first
                /\ row[g][i] = "accepted" /\ row'[g][i] = "withdrawn"]_vars

\* A contact is one on both sides, unless an acceptance is still on its way:
\* who has the other in the contacts is in the contacts of the other.
ContactIsMutual ==
    \A i \in Requests :
       (\A j \in Others(i) \cup {i} : <<"accept", j>> \notin first)
          => /\ HasContact(Issuer[i], Target[i]) => HasContact(Target[i], Issuer[i])
             /\ HasContact(Target[i], Issuer[i]) => HasContact(Issuer[i], Target[i])

\* A withdrawn request adds nobody on either side, also when the target
\* accepts it before the withdrawal arrives.
WithdrawnAddsNobody ==
    \A i \in Requests :
       row[Issuer[i]][i] = "withdrawn" =>
          contacts[Issuer[i]][i] = 0 /\ contacts[Target[i]][i] = 0

\* Two people who are not contacts and ask each other end in one relationship.
OneRelationship ==
    \A g \in Gateways : \A i, j \in Requests :
       contacts[g][i] > 0 /\ contacts[g][j] > 0 => i \notin Others(j)

\* A request of which the requester was told that it was not delivered makes
\* no contact at the requester, also if the target got it and accepts.
FailedAddsNobody ==
    \A i \in Requests : told[i] = "failed" => contacts[Issuer[i]][i] = 0

\* A request the target ignored stops being pending at the requester.
DeclineIsHeard ==
    \A i \in Requests :
       row[Target[i]][i] = "declined" ~> row[Issuer[i]][i] # "pending"

\* A card whose request was withdrawn goes.
WithdrawalIsHeard ==
    \A i \in Requests :
       row[Issuer[i]][i] = "withdrawn" ~> row[Target[i]][i] # "pending"
=============================================================================
