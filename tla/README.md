# Proxion Messenger: a verification project

TLA+ modules that model the gateway of Proxion Messenger, TLC configurations
that check them on small instances, and TLAPS proofs about them.  `src/` paths
below leave out `src/proxion-messenger-core/src/proxion_messenger_core/`.

## The system

One gateway per user (or per household): an asyncio process with SQLite behind
it, WebSocket clients in front of it, and HTTP to the gateways of the user's
contacts.  Handlers run on one event loop, so the interleavings are those at
`await`; what is in SQLite survives a restart and what is in the gateway object
does not.

| Component | State | Operations | What is hard | What makes it correct |
|---|---|---|---|---|
| Relay, sending side (`_gateway_dm.py` 579-894, `_gateway_pod.py` 657-1048, `_store/federation.py` 302-385) | `pending_relays` rows, the queue lock, awaited POSTs | send, retry pass, flush on contact, expiry sweep, `contact_removed` | lost answers, restarts, two workers over one table | a waiting message is settled once and never forgotten |
| Relay, receiving side (`_gateway_http.py` 869-1487, `_gateway_auth.py` 350-384) | seen ids and nonces, offline queue, sockets, history | `POST /relay`, live send, queue, drain on register, block, revoke | sends awaited while sockets come and go, replays, caps, kills | pushed at most once, in order, never lost unseen |
| Friend requests (`gateway.py` 1994-2470, `_gateway_http.py` 366-800) | `pending_invites`, relationships, invite nonces | send, withdraw, decline, accept, expire | crossing requests, lost acknowledgements, queue retries | contacts are mutual, answers final, withdrawn requests add nobody |
| Rooms: membership (`_gateway_rooms.py` 1390-1643, 2173-2802, 4235-4533, `gateway.py` 3642-3824, `_store/rooms.py`) | creator, members, federated members, bans, roles, the pending offer, uses of the invite, mirrors of all that | join, leave, kick, ban, unban, roles, offer, accept, decline, delete, and the relays of each | handlers that await sends half way, relays that overtake each other, joins admitted during a ban | mirrors end like the host, nobody banned is in, one owner |
| Rooms: messages (`_gateway_rooms.py` 2804-2900, `_gateway_http.py` 1086-1290, `_gateway_pod.py` 2990-3012) | `messages`, pins, reactions, mutes, seen ids, `pending_relays` | send, edit, delete, react, pin, mute, fan-out by the host, retry | two hops, retries after later relays, refusals that are recorded as seen | histories meet, deleted stays deleted, refused stays out |
| E2E ratchet (`src/web/e2e.js` 35-866) | root and chain keys, skipped keys, three copies of the session | encrypt, decrypt, load, save, sign out | lost, late, damaged and repeated messages, overlapping operations, pod writes nobody awaits | no key twice, nothing opens twice, what can still open opens |
| Calls (`_gateway_voice.py`, `src/web/voice.js`) | call sessions, throttle, the clients' phones | offer, answer, hang up, time out, cleanup | glare, disconnects, lost answers, cleanup while others hang up | no session outlives its sockets, nobody is left talking |
| Sealed mailbox (`_gateway_mailbox.py`) | blobs at a relay node | deposit, drain | signature windows, drain before answer | deposited is delivered |
| DM fan-out (`_gateway_dm.py` 1171-1410) | envelope queue per device | fan out, drain | devices that are offline | every device gets each envelope once |
| Group voice, room re-keying (`_gateway_voice.py`, `room_rekey.py`, `sender_keys.py`) | channel members, epochs | join, leave, rotate | rotation racing with messages | only members of an epoch read it |
| Pod sync, outbox (`_gateway_pod.py`, `outbox.py`) | pending pod operations | write, retry, poll | partial failure, ordering | every operation is applied in the end |
| Devices, certificates, revocation, event stream, files | registries | register, revoke, publish | mostly sequential | see `PROJECT.json` |

Gateways interact by signed HTTP POSTs only.  Inside a gateway the components
share SQLite and the socket maps: the receiving side looks sockets up in the
maps that registration fills; the friend request handlers lift and set the
revocations that the receiving side checks; a verified relay from a peer makes
the sending side flush its queue (`_note_peer_contact`).  Rooms use the same
queue of relays and the same record of seen ids as direct messages.  A client
encrypts before the gateway sees a message, so the ratchet meets the gateway
only as a network that delays, repeats and loses.

## Modules

| Module | What it models |
|---|---|
| `RelayWire` | requests and answers between two gateways |
| `RelaySender` | the sending gateway: first POST, `pending_relays`, pass, flush, sweep, contact removal, restart |
| `RelayReceiver` | the receiving gateway: `_handle_relay_post` up to each answer, live delivery, offline queue, sockets, block, revocation, kill |
| `RelayReceiver_proofs` | theorems about `RelayReceiver` |
| `AbstractDelivery` | what the two promise together |
| `RelayDelivery` | sender, receiver and wire composed; the refinement mapping to `AbstractDelivery` |
| `RelayDelivery_proofs` | theorems about `RelaySender` and about the composition, the refinement among them |
| `Picking`, `Picking_proofs` | the rows of a sequence that satisfy a condition, and what choosing them keeps |
| `FriendRequest` | friend requests between gateways: both sides' rows, contacts, queues and POSTs |
| `FriendRequest_proofs` | theorems about `FriendRequest` |
| `RoomMembership` | who is in a room, owns it or is banned, at the host and its mirrors |
| `RoomMembership_proofs` | theorems about `RoomMembership` |
| `RoomMessages` | what is read in a room: messages, edits, deletes, reactions, pins, mutes on host and mirrors |
| `RoomMessages_proofs` | theorems about `RoomMessages` |
| `VoiceCalls` | calls between two people: sessions, signals between gateways, the phones |
| `VoiceCalls_proofs` | theorems about `VoiceCalls` |
| `RatchetSession` | the double ratchet of two clients, and where its state is kept |
| `RatchetSession_proofs` | theorems about `RatchetSession` |
| `MC*` | the small instances of the runs |

### How state and actions correspond to the code

*Atomicity.*  An action is a stretch of a handler between two awaits.
`_handle_relay_post` does not await between its first check and the first
`ws.send`, so recording the id and nonce and choosing the outcome are one
action (`RateLimit` ... `RefuseFull`), and live delivery is a handler record in
`handling` that `LiveSend`, `LiveSave`, `LiveFailStore` and `LiveFailFull`
move on.  Register pops the queue at once and then awaits one send per entry
(`Register`, `DrainOne`, `DrainFail`).  A retry pass awaits each POST
(`AttemptRow`, then `RowDelivered` or `RowFailed`) and holds the queue lock
(`worker`); `contact_removed` does not take that lock (`HearRemoval`, `FailRow`).

*A dead socket* leaves `connected` when sends to it begin to fail.  The code
keeps it in its maps until its handler ends; a relay that arrives in between
finds it, fails and queues, which is what `StartLive`, `Disconnect` and
`LiveFailStore` in that order do.

*The wire.*  A request that is lost is never taken, a late one is taken after
the sender gave up (`NoAnswer`), and a lost answer is never read.  Every attempt
has its number, which stands for its connection: an answer is read by the
attempt it belongs to or by nobody.  The network does not duplicate requests,
HTTP over TCP does not; the receiver by itself (`PeerPosts`) is sent any id with
any nonce any number of times, replays included.

*Nonces.*  A retry repeats the first nonce until the signature is 240 s old and
has a fresh one after that: `Nonce` and `oldSign`.  The nonce records live for
600 s, longer than any signature is accepted, so their expiry shows nothing and
is left out; so is that of the ids, which outlives a queued relay by a day.

*What a client is told* is `verdict`: `relay_pending` is "waiting",
`relay_delivered` is "delivered", `relay_expired` is "expired", and "sent" is a
first POST that went through, of which no event tells.

*Left out of the relay:* the sealing and signing (every request verifies), the
mailbox fallback of a retry (no relay node is configured), Web Push, the
gateway-wide block file of old installations and its check ahead of the dedup,
quarantine mode, the other payloads of the queue, clients that re-register on a
live socket, the deletion of messages.

### Friend requests

`row[g][i]` is what gateway `g` has of request `i` in `pending_invites`,
`contacts[g][i]` the number of relationships `i` has made there, `queue[g]` the
requests and notices among its `pending_relays`.  Whoever has one of the other
side's POSTs to answer does so in one step (`HandleInvite`, `HandleAccept`,
`HandleDecline`, `HandleWithdraw`): those handlers await nothing before their
last change of state.  Those that POST are two steps: up to the POST (`Ask`,
`Accept`, `Decline`, `WithdrawQueued`, `Retry`) and from its outcome on.

`post[k, i]` is what has become of the POST of kind `k` for request `i`.  It is
"sent" while its sender waits and the other gateway has not taken it, a status
once it was answered, and "late" when the sender gave it up: then it may still
be taken, or was lost.  A retry of a late POST is the same POST; that the first
copy arrives after it would only be answered 409 or change nothing.

The lock of the queue is held over one row, not over a pass; a withdrawal may
so come between two rows of a pass, where the code makes it wait.  `Withdraw`
and `WithdrawQueued` are apart for that reason, and what the pass then finds
(`DropSettled`) is what it finds in the code when the withdrawal waits.

A request is good for 24 hours and its id is remembered for 24 hours from when
it arrived, so the id outlives the request and its expiry is left out.  The flood cap and the
trust check of `POST /invite` read `issuer.did`; `create_invite` puts no `did`
into the issuer, so between gateways that run this code they never apply.

*Left out:* removal of a contact and its notice, blocks, quarantine mode, what
is badly signed or addressed, the names, keys and gateway URLs that come along.

### Rooms

`RoomMembership` has one room.  `creator`, `members`, `fed`, `departed` and
`banned` are the rows of a gateway, the host's and each mirror's alike, as both
keep them in the same tables; `Visible` is `get_federated_room_members`.  A
command of a member is one action up to its first await; the rest of the handler
is a record in `busy` that `LeaveEnd`, `BanEnd`, `DeleteEnd`, `Admit` and their
like move on.  `Running` and `Slow` say in which handlers others come between:
in a run with `Slow = {"leave"}` only a leave is interrupted.  `down[g]` and
`up[g]` are the relays between host and mirror; the kinds in `Late` may be taken
out of order, the others in the order of sending.  A join from elsewhere is a
POST the host answers with a snapshot: `LookUp` finds the code, then the joiner's
gateway is awaited, then `Admit` decides and `Answer` replies; the reply is a
relay `admitted` that may be late or, with `MayFail`, lost.  `Vouched` is
`_relay_room_host_vouches`: a mirror obeys whoever speaks for the gateway of the
creator's row.  `ignored` collects what a mirror refused.

`RoomMessages` takes the members as given.  `link[f, g]` holds the relays whose
first POST is on its way, in order; a POST that fails leaves a row of
`queued[f, g]`, which is retried in any order (`Retry`, `RetryFails`) until it is a
day old (`ExpireStale`).  Every retry is signed afresh (`_resign_queued_relay`), so
that only the recorded id tells the peer what it has had; ids are remembered for two
days, longer than any row lives, and their expiry is left out.  The host applies a
relay and passes it on in one step (`_relay_room_message` after `save_message`, no
await between).  `gone`, `refused` and `swept` are history; `swept[f, g]` are the
messages whose row for `g` expired before `g` had had them.

### Calls

The caller's gateway has the session (`table`, `sess`), the callee's gateway none:
it routes what comes by identity.  `phone[s]` is the state machine of `voice.js`
at a connection.  An offer is a POST the handler awaits (`post`); answers and
hangups between gateways are `signals`, each taken whenever, lost, or never.
`Close` is the end of a connection; its cleanup works through a snapshot of the
sessions that name it (`cleaning`) and awaits a send for each (`at`), with
`CleanRaises` for the `del` that finds its entry gone.  `recent` is the throttle,
`told` the hangups without a session that were relayed already.

### The ratchet

Keys are terms: a key agreement is the set of the two key pairs, a root is the
sequence of the agreements that went into it, and a message key is a chain and a
number, so two keys are equal only if they were made of the same secrets.  An
operation (`ops`) is loaded in `Begin` and ends in `RatchetEncrypt`,
`RatchetDecrypt` or `Refused`; `Serialize` is the per-peer queue of `e2e.js`.
`cache`, `stored` and `pod` are the three copies; `puts` is `_podWrites`, and
`late` the PUTs of a page that is gone, which may land whenever.  `sent` is the
network: a message in it may arrive at any time, again, damaged, or never.  The
history variable `lost` is set when a load does not give the session saved last,
which only a sign-out can bring about; the properties are about sessions that
were never lost.  The caps of the skipped keys are applied once, at the end of a
decrypt; the code applies them after each part, with the same result.

## Runs

| Run | Question | Answer |
|---|---|---|
| `receiver` | pushed at most once, in one place, in order, blocked for good, and sent when the recipient comes back? | yes |
| `sender` | does each waiting message have a row, is it settled, and its outcome final? | yes, with no removal and no restart |
| `delivery` | do the two gateways implement `AbstractDelivery`, and is each row that of a waiting message? | yes, with losses, retries, blocks, a restart, a kill and a removal |
| `delivery_full` | is what was reported delivered taken, with a full queue? | no: 507 forgets the id and keeps the nonce |
| `friends` | are contacts mutual, does a withdrawn request add nobody? | yes, if acceptances are answered and cards are answered after their POST was |
| `friends_heard` | do declines and withdrawals arrive, however often retried? | yes, if the request went through at once |
| `friends_faults` | one contact per request, none after a reported failure, and final answers, with losses, early answers, expiry and a restart? | yes |
| `calls` | do sessions end with their connections, may a call be redialed, is nobody left talking? | yes, if a hangup does not overtake its offer |
| `rooms` | do all mirrors end with the host's owner and members? | yes, with relays in order, no answer lost and only the leave interrupted |
| `rooms_late` | does a mirror keep its route, is nobody banned in, does ownership pass only by leave or offer? | yes, with relays in any order and most handlers interrupted |
| `messages` | does a message arrive, stay deleted, stay refused, and do histories meet? | yes, unless a row of it expires, and the last while no POST is lost |
| `ratchet` | is no key used twice, does nothing open twice, are spent keys gone, does every message open that is not too late? | yes, while no session was lost to a sign-out, and for spent keys once the first ratchet pair is gone |

`AbstractDelivery` promises more while no fault happened: a message the sender
is told got through was taken, and an outcome is final.  After a kill of the
receiver or a removal of the contact (its `fault`) a message that was seen may be
lost and still count as got through, and an outcome may be corrected.
`delivery_full` is the finding: its quote is in `PROJECT.json`.

### What the passing runs keep out

A passing run keeps these cases out by a bound.  Let in, TLC shows the trace.

| Where | When | What happens |
|---|---|---|
| relay, 403 after a removal | the sender is removed as a contact between two tries | the id was recorded before the refusal: the retry is a duplicate, reported delivered |
| relay, two connections of one user | one's drain fails after the other has drained what came since | what is put back is older than what was already sent |
| relay, a gateway's own did | something is queued for the gateway itself | it stays: nobody registers as that did |
| sender, removal | a row is failed by `contact_removed` while its POST is awaited | it is reported expired, then delivered |
| sender, restart | a restart between the deletion of an expired row and its notice | the message waits for ever |
| retry pass | 50 rows of a peer that is down are older | the rows behind them are looked at only when those expire (`PassLimit = 1`: `WaitingIsSettled` holds by expiry) |
| friends, acceptance | the acceptance does not arrive | the target adds the contact anyway and queues nothing: a contact on one side |
| friends, crossing | both ask, one POST is still awaited when the other request is settled | it is not settled with it: two relationships |
| friends, early answers | an acceptance or decline comes before the requester has saved its request | it is answered 400: a contact on one side, or a decline nobody hears |
| friends, withdrawal | the answer of the request was lost and it is withdrawn | it counts as never sent, so nobody is told |
| friends, expiry | a request swept as expired is accepted | answered 409, not 410: the target adds the contact |
| friends, http hint | the request names an insecure URL | its id is recorded before the refusal: the retry is answered 409 and reported delivered |
| rooms, unban during a ban | another admin unbans while the ban awaits its sends | the unban is relayed first and the mirrors keep the ban |
| rooms, delete | an offer is accepted and the deleter kicked while the delete awaits | the relay is not vouched for: the mirror never drops the room |
| rooms, leave | an offer is accepted while its owner's leave awaits | `is_creator` was read before: the succession overrides the new owner |
| rooms, join | ownership changes, or the joiner is kicked, while the answer is under way; or the answer is lost | a mirror with the old owner; a mirror of a room its member is not in; a member the host counts who never joined |
| rooms, eviction | who was kicked joins again while their mirror, about to evict them, awaits the send that tells them | `_evict_from_mirror` removes the new row: a member the host counts who has no room |
| rooms, granted admin | an admin who is not the owner bans or unbans | every mirror answers 403, roles are not relayed (`ignored`) |
| rooms, late relays | `member_joined` of the next owner comes after `owner_changed` | the change is not vouched for: the mirror keeps the old owner |
| rooms, offers | the target of an offer leaves and joins again | the offer still stands |
| rooms, owner gone | the last remote member of a room its owner has left leaves too | the host keeps the room for ever |
| messages, delete overtakes | a message waits in the queue while its delete is taken | it lands afterwards and stays on that gateway |
| messages, expiry | a gateway cannot be reached for a day, so that the row of a message is swept (`_gateway_pod.py` 785-804) | nothing is left to post: the message is missing there for good (`swept`), and, if it was on its way to the host, on all other gateways |
| messages, edits | the retry of an edit lands after a later edit | the older text stays on that gateway |
| messages, pins and reactions | one is relayed while the message is deleted | rows of a message that is gone |
| messages, mutes | a muted member edits or deletes, or sends and is refused | edits and deletes are not refused; a refused message stays in its sender's history, and its first retry is answered "duplicate", so it looks delivered |
| calls, `del` of a gone entry | a hangup or a timeout drops a session while the cleanup of a closed connection awaits its send | `KeyError` at `_gateway_voice.py:93`: the rest of the cleanup is skipped (`aborted`) |
| calls, order | a hangup overtakes its offer (`Ordered = FALSE`) | the callee rings for a call that is over |
| calls, two of one pair | an answer of an earlier call comes while the next one is being placed | `voice.js` (`handleVoiceAnswer`, 1472-1500) takes it for the next one's, whose session can go while both talk |
| calls, unavailable | `voice_unavailable` of one call comes during another | `voice.js` ends the current call, whichever it is |
| calls, devices | two connections of the callee answer | both are in the call |
| calls, disconnects | a party of a call between gateways loses its connection | the other gateway is not told |
| calls, lost answer | the answer to an offer's POST is lost | the caller is told "unavailable" while the callee rings |
| ratchet, both first | both write before either message arrives (`Crossed`) | neither opens anything of the other again; docs/E2E_ENCRYPTION.md:877 lists the case as open |
| ratchet, first pair | the session of who began is copied before the first text after the first reply (`FirstPair`) | the first root is public and the pair is in the session (`e2e.js` 605-624): the copy opens the whole first chain, and the replies made with the same pair |
| ratchet, sign-out | a sign-out clears localStorage while the last PUT is under way or lost | the next sign-in loads an older session or none (`lost`), against the comment at `e2e.js:565`; a PUT of a gone page may land over a newer copy |
| ratchet, after a loss | one side starts a new session | the other keeps its own, so the new one never forms |

### Bounds

*Relay.* One to three messages, two nonces, one or two recipients, one or two
sockets.  Two messages to one recipient are needed for order, with
`QueueCap = 1` (100 in the code) they also overflow; a third to another
recipient for the cap on recipients.  A message has up to two POSTs, a first one
and a retry with its nonce or another.  `receiver` has one socket per user:
`QueueInOrder` needs it.  One kill, one restart, one removal: each
returns the state to one from which the same actions follow.  `PassLimit` is 1
in `sender` so that a pass leaves rows to the next.

*Friends.* Two requests that cross, one each way, and one alone where liveness
is checked; three kinds of POST that may be lost in `friends`, two others in
`friends_faults`, where one gateway restarts.

*Calls.* One call across gateways and one within a gateway that share a person,
three connections of which two may close, each kind of signal but the hangup
lost; `Burst = 1` for the code's burst.  Glare needs two calls of one pair and is
in the module (`Calls` are ordered), but not in this run: `TalkHasSession` holds
only where no two calls have the same caller and callee.

*Rooms.* A host and two mirrors, four commands, in `rooms`; a host and one
mirror, four users and four commands in `rooms_late`.  Two commands are needed
for each race above and two more to reach its start.  The host's handler of a
leave relay and the mirrors' sends are atomic, each user has one connection, and
a refused relay is not tried again.  Of several admins, or else members, any may
succeed an owner who leaves; the code takes the one who joined first.

*Messages.* A host, two mirrors, two messages, four commands, one edit per
message and one loss: a message with its edit, delete and a reaction or a pin
still in the queue is the longest case a property speaks of.  Two losses (3.3
million states instead of 0.6) show nothing else.

*Ratchet.* `MaxSkip = 1` and `MaxSkippedKeys = 1` for the code's limits, so that
each is passed; six texts, so that a chain can end twice with messages missing.
Two constraints name where exploration stops: `OneAtATime`, that not both people
are in an operation at once (their states meet only in `sent`), and
`LongOnOnePage`, that conversations of more than three texts are followed only
while the pages stay and the first PUT hangs.  Only one of the two has a pod, one
reload or sign-out.  The theorems need none of these.

Deadlock is not checked: when the bounds are used up the system may stop.

### Fairness

`RetryTaskRuns`: the retry loop runs every 30 s and an awaited POST has a
timeout of 10 s (weak fairness of its steps); the lock is an `asyncio.Lock`,
served in order, so a pass gets it although flushes keep asking (strong
fairness of `StartPass`); time passes, so signatures and rows get old.
`ClientsComeAndGo`: a client that is away connects again, a connection ends in
the end, and one that comes back again and again stays long enough for a send
(strong fairness of `DrainOne`); an awaited send returns.  Nothing is assumed of
the peer's answers or of the network.
`FriendRequest`'s `FairSpec`: handlers resume (weak fairness), the retry loop
comes back to each row (strong fairness of `Retry`: the lock is contended), and
of a POST that is tried again and again one is taken (strong fairness of
`TriedIsHandled`).  The last is about the peer, not the code: a peer that is down
for ever hears nothing.  Users need not do anything.
`VoiceCalls`' `FairSpec`: handlers and tasks go on, POSTs end, signals that are
not lost arrive, and the clients' timers of 30 s run out (weak fairness of
`SystemRuns`).  Nobody has to pick up or hang up.  `rooms`, `messages` and
`ratchet` check safety only; what must hold in the end is stated of the states in
which nothing is under way (`Quiet`).

## Proofs

Eight modules hold theorems, each for all values of the constants that satisfy
the module's assumption, and for any number of whatever the runs bound.  Where a
theorem has a further hypothesis, it is named below, and the table above says
what happens without it.  Each inductive invariant was first checked as an
invariant of the run (`Followed` of the rooms with a history variable for the
records it says exist).

`RelayReceiver_proofs`:

* `ReceiverTypes`, `ReceiverOneCopy` (the inductive invariant) and
  `ReceiverAtMostOnce`: `ReceiverSpec => []ReceiverOpenTypeOK`, `[]OneCopy`,
  `[]AtMostOnce`.
* `ReceiverDropsForGood`: `[]DroppedStaysDropped`.
* `ReceiverKeepsOrder`, and `ReceiverQueueInOrder`: `[]QueueInOrder` if no two
  sockets register as the same recipient (`Sole`).

`AtMostOnce` by itself is not inductive: a message in two queues, or in a queue
and a handler, would be pushed twice later.  `OneCopy` says that this does not
happen: queues and drains are free of repetitions and of each other's messages
(`QueuesDisjoint`), a message is in one handler at most and then in no queue
(`HandledOnce`), and wherever it is or was its id is seen (`SeenIfAnywhere`), so
that no second relay of it passes `Fresh`.  The lemmas follow that order: what
`Tail`, `Append`, `\o` and `Push` do to a sequence without repetitions, what each
action does to the queues, and then one lemma per group of actions.  A dropped
message is nowhere and its id is seen (`DroppedOK`).  Order is stated of the
drain followed by the queue, since a failed drain puts back what is left in
front of what came since (`SoleInOrder`); the history `HistoryOK` relates both to
the order in which messages were taken.

`Picking_proofs` shows what `Picked` keeps: elements, order, freedom from
repetition, and what is left out.  `SelectSeq` of the standard module is
recursive and out of the provers' reach; `Picked` is the same as a function, and
the assumption `PickedSelects` of `MCRelaySender` lets TLC compare the two.  The
inductions are over the least prefix for which a lemma would fail.

`RelayDelivery_proofs`, on the sender by itself:

* `SenderTypes`, `SenderKeepsWaiting` (`WaitingIsKept`) and `SenderOutcomeFinal`
  (`OutcomeIsFinal`), of a gateway that runs on and whose contact stays, as in
  `SenderSpec`;

and on the two gateways:

* `DeliveryTypes`; `WaitingRows`: `Spec => []RowsAreWaiting`, with restarts and
  removals;
* `GatewaysDeliver`: `Spec /\ []RoomForAll => DeliveryPromise`, the refinement of
  `AbstractDelivery`; `QueuesHaveRoom`: `QueuesSuffice /\ Spec => []RoomForAll`;
  and from both `PromiseKept`: `QueuesSuffice /\ Spec => DeliveryPromise`.

`SenderOK` says whose verdict is still open: that of a message first POSTed
(`FirstTry`), and of a row and of what the holder of the lock has in hand
(`HandsOK`).  `Calm` adds what holds while no removal fails rows without the
lock.  `Together` relates the two sides: what was seen was taken unless something
went wrong (`SeenOK`), and what was answered with success was seen (`AnswersOK`).
The hypothesis `RoomForAll` is that no relay is refused with 507; `delivery_full`
shows that the promise is broken otherwise.  `QueuesSuffice` (fewer messages than
the queue takes in all) is one way to have it.

`FriendRequest_proofs`:

* `FriendTypes` (`FriendTypeOK`), `FriendOnePerRequest`, `FriendAnswersFinal` and
  `FriendFailedAddsNobody`, whatever the network does;
* `FriendWithdrawnAddsNobody`: `AnswersComeBack => (Spec => []WithdrawnAddsNobody)`,
  with expiry, restarts and lost requests, declines and withdrawals;
* `FriendContactIsMutual`: `NothingLost => (Spec => []ContactIsMutual)`.

`AnswersComeBack` is that no acceptance is lost and no card is answered before its
POST was; `NothingLost` adds that no request expires and no gateway restarts.
The invariant `Inv` is needed because the handlers that save a row or a contact do
not look whether there is one.  That `AskDelivered` and `AskQueued` overwrite
nothing needs that a request is saved once, when its first POST is through
(`SavedOnce`); that a card comes once needs that the target has a row only of a
request whose id it has recorded (`RowIsSeen`); that `Accepted` does not add a
second contact needs that its row has been accepted and is not yet a contact
(`AcceptsOnce`); and `HandleAccept` adds one for a pending row only, which has no
contact (`ContactIsAnswered`).  `FriendTypeOK` has that a POST has one sender at a
time, for which `PostOK` follows each POST from its handler to the queue and the
lock.  `FailedOK` needs the finality of answers.  The two conditional theorems
relate the sides through what the POST of the acceptance has come to:
`WithdrawnOK` bars a withdrawal from whoever has a contact or an answer that adds
one (`ContactsBar`), and `MutualOK` has the target's contact follow from the
requester's answer and the other way round (`BothSides`).

`RoomMembership_proofs`:

* `TypeCorrect`; `MirrorsNeverHost`: `Spec => []MirrorNeverHosts`;
  `BannedStayOut`: `Spec => []BannedIsOut`; `OnlyToMembers`:
  `Spec => [][HandedToMember]_vars`;
* `OwnersHandOver`: `OwnerHandsOver`, if `"leave" \notin Slow`;
* `MirrorsFollow`: `Spec => []MirrorsAgree`, if `Late = {}`,
  `"admitted" \notin MayFail` and `Slow \subseteq {"leave"}`.

What a mirror believes rests on what the host ever sends.  So `Base` says of every
relay under way, and of every handler that will send one, that an honest host
would send it (`Honest`, `BusyOK`), in whatever order relays are taken; with
`MirrorOK` the creator's row of a mirror is then always that of a visible member.
That the leaver still owns the room at the end of a leave (`LeaverOwns`) needs
that nobody comes between its halves (`OneAtATime`).

`MirrorsAgree` speaks of a system at rest; `Followed` says what holds of each
mirror meanwhile, as long as it has refused no moderation.  What a gateway has been
told is a record: whom of its own the host counts (`own`), the owner, who is in,
who is banned, and of whom the last is still `open`.  The rows of the mirror are
those of one such record (`Sees`), each relay on the way leads from one to the next
(`Leads`: what that kind of relay keeps, and what it tells of its user), and the
last record is what the host has (`Current`); `Follows` has these together.  A
step of the host adds a relay that leads on (`FollowsNews`), one of the mirror
takes the first (`FollowsTaken`), and when the host hears of a leave the user goes
out of every record on the way (`FollowsLess`).  Between the halves of a handler
the host's rows are ahead of what it has told, so `Current` leaves out the users
the handler is about (`Untold`), and a mirror's user whose leave the host has not
heard of is left out of `Sees` (`Gone`).

It rests on three more invariants.  `RowsSound`: `members` are a gateway's own
users, `fed` those of others, and only a mirror has anybody in `departed`.
`JoinsSound`: a join comes behind the leaves of its user, nobody is answered twice,
and who has a leave on the way is no member and is not being let in.
`HandlersSound`: what a handler has read before its await still holds after it.
None of the hypotheses can be dropped: TLC finds `MirrorsAgree` violated on the
instance of `rooms` with `"admitted"` in `MayFail`, with any one of `"ban"`,
`"delete"`, `"join"` and `"evict"` in `Slow`, and with any one kind of relay in
`Late`, but for `"delete_room"` and `"join"`.

`RoomMessages_proofs`:

* `RoomTypes`; `DeletedStays`: `Spec => []DeletedStaysDeleted`; `RefusedStays`:
  `Spec => []RefusedStaysOut`; `MessagesArrive`: `Spec => []EveryMessageArrives`;
* `FlowHolds` (the invariant) and `HistoriesEndAlike`: `Spec => []HistoriesMeet`.

The invariant `IInv` adds that a gateway has had a message of another gateway
only if it has recorded its id, and the host has taken it (`Held`), and that a
relay between host and mirror is of a message the host has taken, unless it comes
from its author's gateway (`WireOK`).  The id is what keeps a deleted message
away: a retry is refused before it is saved.  `WrittenOK` adds where relays come
from: a message recorded anywhere was written, one deleted anywhere was deleted by
its author, and only someone who may be muted is.  On these rests `OnItsWay`: a
kept message is recorded at the host or still to be posted there, and once the
host has it, recorded at each mirror or still to be posted to it; and where it is
recorded it is in the table.  A message whose row was swept while the peer had not
had it is in `swept`, which counts as still to be posted; so the theorem says that
the sweep is the only way to lose one.

`HistoriesMeet` compares whole tables when nothing is under way; `FlowOK` says what
holds of them meanwhile.  Of each entry (the row of a message, the record of its
id, a pin, a mute, a reaction) a relay is a function (`RowEffect`, ...), and the
relays on a link, applied in order to what the gateway at its end has of the
entry, lead to what the gateway that posts them has (`Leads`).  That is asked of
the links from the gateway that alone writes the entry to the host and from the
host to the others (`Feeds`), since only one member's commands, or the owner's,
change an entry (`Own`); the five lemmas `Flows...` say how a command, an arrival,
a relay passed on and one dropped keep it, for any entry.  The domains of the
functions carry the rest: a message reaches a gateway once (`SeenEffect`), and
what the host took is refused by nobody (`MuteEffect`), because mutes and messages
share the host's links.

`VoiceCalls_proofs`:

* `TypeCorrect`; `ClosedAreGone`: `Spec => []ClosedIsGone`;
  `RedialAfterConnected`: `Spec => []ConnectedMayRedial`;
* `TalkersHaveSession`: `OneCallAPair => (Spec => []TalkHasSession)`.

A cleanup goes over the sessions that named its connection when it began, and
awaits a send for each.  `CleaningOK` says that each session that names a closing
connection is among those still to be visited, for which no session may begin to
name one meanwhile; that needs that a session names only connections to its own
gateway (`SessionsAtHome`).

`LineOK` says that while the caller's client is in a call its session is there,
no hangup of its own and no cleanup is about to delete it, and it is marked
answered if the client talks, so that it does not expire.  `RolesOK` says who may
be in a call and send its commands.  `Evolves` lists what one step can do to a
client.  `OneCallAPair` is that no two calls have the same caller and callee.  A
client takes an answer for that of the call it is placing to the callee, so one
that was late for an earlier call would have it talk in a session that nobody
marked, which then expires.

`RatchetSession_proofs`:

* `RatchetLoadsNewest`: `Spec => []LoadsNewest`.
* `RatchetKeysAreFresh`: `Spec => []NoKeyIsReused`.
* `RatchetOpensOnce`: `Spec => []NothingOpensTwice`.
* `RatchetForwardSecrecy`: `Spec => []SpentKeysAreGone`, of sessions that no longer
  have the ratchet pair of the first chain.
* `RatchetOpensAll`: `Spec => []EveryMessageOpens`.
* `RatchetTypes`: `Spec => []TypeOK`, also of sessions that were lost.

The invariant `RatchetInv` speaks of sessions that were not lost: memory and
localStorage have the session saved last or none, every copy on the pod or on its
way there is that one or has a lower version (`Held`), the operation that runs
has loaded the last one (`Running`), and a message was numbered below the number
its sender's session has come to, if it is on the same chain (`Passed`).  That
chains of different people differ is `ApartByTurn`: every ratchet step appends one
agreement and the two take turns, so who began and the length say whose chain it
is; `ChainNamesKey` tells chains of one person apart by the ratchet key in their
last agreement.  `ReadInv` adds that what a session can still open is ahead of all
it has opened: the keys it keeps are of other numbers, its chain is at a later
one, and the chains to come are longer.

`Yields` is what a copy of a session gives: the keys it keeps, those ahead in its two
chains, and every chain that can be made with its ratchet pair from its root or from
`ZeroRoot`, the public root all sessions start from.  A session does not hold the
identity key, so neither does the copy; with the identity key of who was written to
first the first chain is open to anybody, for as long as it is kept.  For the
chains from `ZeroRoot`, `StartInv` says that all chains of a conversation that a
session has, keeps keys of, has sent on and has read on begin with the same
agreement as its root: without a pair of that agreement none of them can be made.
Of who was written to first that pair is the identity pair, which is in no session;
of who began it is the first ratchet pair, and until it is replaced
`SpentKeysAreGone` is false of them.

`TalkInv` adds, unless both began, what the two sessions are to each other and to
the messages (`Talking`).  One person is `Ahead`, on a chain the other can make
from its own root and has not yet, or the two are `Level`, the other having read
on the newest chain.  `SendsWell` and `InOrder` say what is known of sent messages:
those under the session's key are on its chain, the others on shorter ones, and
the header's pn counts the chain before.  `ReadsWell` says that for each message
that was passed over or left behind within reach there is a kept key, of that
message's chain, or it was dropped for want of room.  A message that has not been
opened is then on the chain being read, or has a kept key, or is on the one new
chain, which `NewestFound` and `FirstFound` show to be the one its reader makes.

The types do not need that a session is kept.  `Typed` bounds what a lost session
could break: every copy (`Copies`) has sent no more on its chain than there were
texts, so that each text gets a number that is one; its ratchet pair is one that
was made; and pairs were made for texts and for sessions that were not there
(`PairsCounted`), which is why their number stays in `Keys`.

Only model-checked:

* all liveness: `QueuedIsDrained`, `WaitingIsSettled`, `DeclineIsHeard`,
  `WithdrawalIsHeard`, `NobodyIsLeftTalking`;
* what recursive functions compute for every input, but for `Picked`.

## Not modelled

Group voice channels, room re-keying and sender keys, the sealed mailbox,
per-device fan-out, pins of peer gateways, quarantine, the outbox, files, devices
and pairing, certificates and the handshake, the authentication of a WebSocket,
pod synchronisation, the event stream, the rest of the web client, the desktop
shell, command line and MCP server.  `PROJECT.json` has the reason for each.  Of
the modelled parts:

* rooms: mutes and pins in the membership, rename, topic, the member cap, join
  rate limits, re-creation from a pod, rooms kept in pods, a room's disappearing
  timer (it is not relayed), timed mutes (an unmute is), a client that sends one
  id twice, members who come and go while messages move;
* messages, crash: the id is recorded before the message is saved, so that a
  failing save or a kill loses it;
* calls: ICE, push and the pod fallback, strangers, caps on sessions;
* ratchet: version 1 states and the shared pod path, the check of the sender in
  front of it, a changed identity key, several devices, a second tab that takes
  over.  A crash between the save and the send of a message leaves a gap like any
  lost message.  `e2e_session.py` is called by no gateway code.

## Plan

1. Friend requests: removal of a contact and its notice, blocks.
2. The sealed mailbox and per-device fan-out, which share the queue of relays;
   room re-keying on top of `RoomMembership`.
