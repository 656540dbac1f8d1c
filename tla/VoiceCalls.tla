----------------------------- MODULE VoiceCalls -----------------------------
(***************************************************************************)
(* One-to-one calls: the clients' phones, the call sessions of the callers' *)
(* gateways, and the signals between gateways.                              *)
(*                                                                          *)
(* Only the gateway of the caller has a session for a call; the gateway of  *)
(* a callee elsewhere routes what it is told by identity.  An offer is a    *)
(* POST its handler awaits; answers and hangups are POSTed by tasks of      *)
(* their own, which nobody awaits and which arrive in any order.  All of    *)
(* this is in memory.                                                       *)
(***************************************************************************)
EXTENDS Integers, Sequences, FiniteSets

CONSTANTS
    Gateways,
    Users,
    Home,       \* the gateway of a user
    Socks,      \* client connections; each connects once
    Owner,      \* the user of a connection
    Calls,      \* session ids, in the order by which glare is resolved
    From, To,   \* the caller and the callee of a call
    Burst,      \* _INVITE_BURST: rings of a pair within the window
    Ordered,    \* bound: whether a hangup never overtakes its call's offer
    MayLose,    \* bound: kinds of signals that may be lost
    MayClose,   \* bound: connections that may close
    NoSock, NoCall

ASSUME CallsAssumption ==
    /\ Home \in [Users -> Gateways]
    /\ Owner \in [Socks -> Users]
    /\ Calls \subseteq Nat
    /\ From \in [Calls -> Users]
    /\ To \in [Calls -> Users]
    /\ \A c \in Calls : From[c] # To[c]
    /\ Burst \in Nat \ {0}
    /\ Ordered \in BOOLEAN
    /\ MayLose \subseteq {"offer", "reply", "answer", "hangup"}
    /\ MayClose \subseteq Socks
    /\ NoSock \notin Socks
    /\ NoCall \notin Calls

VARIABLES
    sock,       \* what has become of a connection
    phone,      \* the state of the client at a connection, and its call
    outbox,     \* commands a client sent and its gateway has not handled
    placed,     \* calls that were placed: their ids are used
    table,      \* the calls in _voice_sessions of the caller's gateway
    sess,       \* the session objects, which outlive their entries
    recent,     \* calls counted in _voice_invite_ts, by their pair
    post,       \* the POST of a call's offer
    signals,    \* answers and hangups between gateways
    told,       \* hangups without a session already relayed: user and call
    cleaning,   \* sessions the cleanup of a closed connection has still to end
    at,         \* the one whose other party it is telling
    aborted,    \* connections whose cleanup raised
    listed      \* connections in the members of a room or a voice channel

vars == <<sock, phone, outbox, placed, table, sess, recent, post,
          signals, told, cleaning, at, aborted, listed>>

PhoneState == {"idle", "calling", "ringing", "talking"}
Phone == [state : PhoneState, call : Calls \cup {NoCall}]
Idle == [state |-> "idle", call |-> NoCall]
In(state, c) == [state |-> state, call |-> c]

Command == [cmd : {"answer", "hangup"}, call : Calls]
Session == [caller : Socks \cup {NoSock}, callee : Socks \cup {NoSock},
            answered : BOOLEAN]
Signal == [kind : {"answer", "hangup"}, call : Calls, to : Users]

TypeOK ==
    /\ sock \in [Socks -> {"on", "closing", "off"}]
    /\ phone \in [Socks -> Phone]
    /\ outbox \in [Socks -> Seq(Command)]
    /\ placed \subseteq Calls
    /\ table \subseteq placed
    /\ sess \in [Calls -> Session]
    /\ recent \subseteq placed
    /\ post \in [Calls -> {"none", "sent", "failed"}]
    /\ signals \subseteq Signal
    /\ told \subseteq Users \X Calls
    /\ cleaning \in [Socks -> SUBSET Calls]
    /\ at \in [Socks -> Calls \cup {NoCall}]
    /\ aborted \subseteq Socks
    /\ listed \subseteq Socks

Init ==
    /\ sock = [s \in Socks |-> "on"]
    /\ phone = [s \in Socks |-> Idle]
    /\ outbox = [s \in Socks |-> <<>>]
    /\ placed = {}
    /\ table = {}
    /\ sess = [c \in Calls |->
                 [caller |-> NoSock, callee |-> NoSock, answered |-> FALSE]]
    /\ recent = {}
    /\ post = [c \in Calls |-> "none"]
    /\ signals = {}
    /\ told = {}
    /\ cleaning = [s \in Socks |-> {}]
    /\ at = [s \in Socks |-> NoCall]
    /\ aborted = {}
    /\ listed = Socks

-----------------------------------------------------------------------------
At(s) == Home[Owner[s]]
SocketsOf(u) == {s \in Socks : Owner[s] = u /\ sock[s] = "on"}
Party(u, c) == u \in {From[c], To[c]}
Other(u, c) == IF u = From[c] THEN To[c] ELSE From[c]

\* The sessions of gateway g.
Held(c, g) == c \in table /\ Home[From[c]] = g

SamePair(c, d) == {From[c], To[c]} = {From[d], To[d]}

\* The throttle of the pair is lifted at gateway g, in both directions.
Lift(c, g) ==
    {d \in recent : ~(SamePair(c, d) /\ Home[From[d]] = g)}

\* Signal a user of another gateway; for one of gateway g itself there is no
\* peer gateway to POST to.
Signalled(g, kind, c, u) ==
    IF Home[u] = g THEN signals
    ELSE signals \cup {[kind |-> kind, call |-> c, to |-> u]}

-----------------------------------------------------------------------------
(* What a client does on an event.  Each gives its phone and the commands it *)
(* sends.                                                                   *)

Hangup(c) == [cmd |-> "hangup", call |-> c]

\* _doHangup: whatever the client is in, it ends, and the gateway is told.
HangUp(p) ==
    [phone |-> Idle, cmds |-> IF p = Idle THEN <<>> ELSE <<Hangup(p.call)>>]

\* An invite: ring, or tell the caller "busy"; of two people who call each
\* other the one with the lower session id goes on calling.
OnInvite(p, c) ==
    LET ring == In("ringing", c)
        glare == p.state = "calling" /\ From[c] = To[p.call]
    IN  CASE p = Idle -> [phone |-> ring, cmds |-> <<>>]
          [] p = ring -> [phone |-> ring, cmds |-> <<>>]
          [] glare /\ p.call < c -> [phone |-> p, cmds |-> <<>>]
          [] glare /\ p.call > c -> [phone |-> ring, cmds |-> HangUp(p).cmds]
          [] OTHER -> [phone |-> p, cmds |-> <<Hangup(c)>>]

\* An answer: taken for that of the call the client is placing.
OnAnswer(p, c) ==
    IF p.state = "calling" /\ To[p.call] = To[c]
    THEN In("talking", p.call) ELSE p

\* A hangup ends the call it names.
OnHangup(p, c) == IF p.call = c THEN Idle ELSE p

\* The clients at the sockets S get an event.
Ring(S, c) ==
    /\ phone' = [s \in Socks |-> IF s \in S THEN OnInvite(phone[s], c).phone
                                            ELSE phone[s]]
    /\ outbox' = [s \in Socks |->
                    IF s \in S THEN outbox[s] \o OnInvite(phone[s], c).cmds
                               ELSE outbox[s]]
PhonesAnswered(S, c) ==
    [s \in Socks |-> IF s \in S THEN OnAnswer(phone[s], c) ELSE phone[s]]
PhonesEnded(S, c) ==
    [s \in Socks |-> IF s \in S THEN OnHangup(phone[s], c) ELSE phone[s]]

-----------------------------------------------------------------------------
(* The caller.                                                             *)

\* The throttle lets the call through: no call of the pair is still ringing,
\* and there were fewer than Burst within the window.
NotThrottled(c) ==
    LET pair == {d \in Calls : From[d] = From[c] /\ To[d] = To[c]} IN
    /\ \A d \in table \cap pair : sess[d].answered
    /\ Cardinality(recent \cap pair) < Burst

\* Slip: an id that was used may be used again.
PlaceAgain(s, c) ==
    /\ sock[s] = "on"
    /\ Owner[s] = From[c]
    /\ phone[s] = Idle
    /\ outbox[s] = <<>>
    /\ NotThrottled(c)
    /\ UNCHANGED <<sock, placed, told, cleaning, at, aborted, listed>>

\* A client places a call under an id of its own making.
Place(s, c) ==
    /\ sock[s] = "on"
    /\ Owner[s] = From[c]
    /\ phone[s] = Idle
    /\ outbox[s] = <<>>
    /\ c \notin placed
    /\ NotThrottled(c)
    /\ placed' = placed \cup {c}
    /\ UNCHANGED <<sock, told, cleaning, at, aborted, listed>>

\* The callee has a connection to this gateway: it rings there.
InviteLocal(s, c) ==
    /\ Place(s, c)
    /\ Home[To[c]] = At(s)
    /\ \E t \in SocketsOf(To[c]) :
          LET ringing == OnInvite(phone[t], c) IN
          /\ sess' = [sess EXCEPT ![c] = [caller |-> s, callee |-> t,
                                          answered |-> FALSE]]
          /\ phone' = [phone EXCEPT ![s] = In("calling", c),
                                    ![t] = ringing.phone]
          /\ outbox' = [outbox EXCEPT ![t] = @ \o ringing.cmds]
    /\ table' = table \cup {c}
    /\ recent' = recent \cup {c}
    /\ UNCHANGED <<post, signals>>

\* The callee is of another gateway: the handler awaits the POST of the offer.
InviteRemote(s, c) ==
    /\ Place(s, c)
    /\ Home[To[c]] # At(s)
    /\ sess' = [sess EXCEPT ![c] = [caller |-> s, callee |-> NoSock,
                                    answered |-> FALSE]]
    /\ phone' = [phone EXCEPT ![s] = In("calling", c)]
    /\ post' = [post EXCEPT ![c] = "sent"]
    /\ table' = table \cup {c}
    /\ recent' = recent \cup {c}
    /\ UNCHANGED <<outbox, signals>>

\* The callee's gateway gets the offer: all of the callee's clients ring, or
\* there are none and the answer is 404.  The answer may be lost.
HandleOffer(c) ==
    LET S == SocketsOf(To[c]) IN
    /\ post[c] = "sent"
    /\ Ring(S, c)
    /\ \/ post' = [post EXCEPT ![c] = IF S = {} THEN "failed" ELSE "none"]
       \/ "reply" \in MayLose /\ post' = [post EXCEPT ![c] = "failed"]
    /\ UNCHANGED <<sock, placed, table, sess, recent, signals, told,
                   cleaning, at, aborted, listed>>

LoseOffer(c) ==
    /\ "offer" \in MayLose
    /\ post[c] = "sent"
    /\ post' = [post EXCEPT ![c] = "failed"]
    /\ UNCHANGED <<sock, phone, outbox, placed, table, sess, recent,
                   signals, told, cleaning, at, aborted, listed>>

\* The offer did not get through: the session is dropped, the pair's throttle
\* lifted and the caller told "unavailable", which ends whatever call the
\* client is in by now.
Unavailable(c) ==
    LET s == sess[c].caller IN
    /\ post[c] = "failed"
    /\ post' = [post EXCEPT ![c] = "none"]
    /\ table' = table \ {c}
    /\ recent' = {d \in recent : ~(From[d] = From[c] /\ To[d] = To[c])}
    /\ IF sock[s] = "on"
       THEN /\ phone' = [phone EXCEPT ![s] = HangUp(@).phone]
            /\ outbox' = [outbox EXCEPT ![s] = @ \o HangUp(phone[s]).cmds]
       ELSE UNCHANGED <<phone, outbox>>
    /\ UNCHANGED <<sock, placed, sess, signals, told, cleaning, at,
                   aborted, listed>>

-----------------------------------------------------------------------------
(* The clients.                                                            *)

Client(s, p, cmds) ==
    /\ sock[s] = "on"
    /\ phone' = [phone EXCEPT ![s] = p]
    /\ outbox' = [outbox EXCEPT ![s] = @ \o cmds]
    /\ UNCHANGED <<sock, placed, table, sess, recent, post, signals,
                   told, cleaning, at, aborted, listed>>

PickUp(s) ==
    /\ phone[s].state = "ringing"
    /\ Client(s, In("talking", phone[s].call),
              <<[cmd |-> "answer", call |-> phone[s].call]>>)

\* Decline, cancel, end, or the caller's timeout of 30 s.
EndCall(s) ==
    /\ phone[s] # Idle
    /\ Client(s, Idle, HangUp(phone[s]).cmds)

\* The callee's ring timeout: nobody is told.
RingOut(s) ==
    /\ phone[s].state = "ringing"
    /\ Client(s, Idle, <<>>)

-----------------------------------------------------------------------------
(* The gateways: commands of their clients.                                *)

Next1(s, cmd) ==
    /\ sock[s] = "on"
    /\ outbox[s] # <<>>
    /\ Head(outbox[s]).cmd = cmd
    /\ outbox' = [outbox EXCEPT ![s] = Tail(@)]

\* An answer: it marks the session, if this gateway has it, and goes to the
\* caller, who may have a connection here.
HandleAnswer(s) ==
    LET c == Head(outbox[s]).call IN
    /\ Next1(s, "answer")
    /\ sess' = IF ~Held(c, At(s)) THEN sess
               ELSE [sess EXCEPT ![c].answered = TRUE,
                                 ![c].callee = IF @ = NoSock THEN s ELSE @]
    /\ IF SocketsOf(From[c]) # {} /\ Home[From[c]] = At(s)
       THEN /\ \E t \in SocketsOf(From[c]) : phone' = PhonesAnswered({t}, c)
            /\ UNCHANGED signals
       ELSE /\ signals' = Signalled(At(s), "answer", c, From[c])
            /\ UNCHANGED phone
    /\ UNCHANGED <<sock, placed, table, recent, post, told, cleaning,
                   at, aborted, listed>>

\* Slip: the throttle stays after a call that was connected.
HandleHangupThrottled(s) ==
    LET c == Head(outbox[s]).call
        other == IF s = sess[c].caller THEN sess[c].callee ELSE sess[c].caller
        there == IF s = sess[c].caller THEN To[c] ELSE From[c]
    IN
    /\ Next1(s, "hangup")
    /\ Held(c, At(s))
    /\ table' = table \ {c}
    /\ IF other # NoSock /\ sock[other] = "on"
       THEN phone' = PhonesEnded({other}, c) /\ UNCHANGED signals
       ELSE signals' = Signalled(At(s), "hangup", c, there) /\ UNCHANGED phone
    /\ UNCHANGED <<sock, placed, sess, recent, post, told, cleaning, at,
                   aborted, listed>>

\* A hangup of a call this gateway has the session of.
HandleHangup(s) ==
    LET c == Head(outbox[s]).call
        other == IF s = sess[c].caller THEN sess[c].callee ELSE sess[c].caller
        there == IF s = sess[c].caller THEN To[c] ELSE From[c]
    IN
    /\ Next1(s, "hangup")
    /\ Held(c, At(s))
    /\ table' = table \ {c}
    /\ recent' = IF sess[c].answered THEN Lift(c, At(s)) ELSE recent
    /\ IF other # NoSock /\ sock[other] = "on"
       THEN phone' = PhonesEnded({other}, c) /\ UNCHANGED signals
       ELSE signals' = Signalled(At(s), "hangup", c, there) /\ UNCHANGED phone
    /\ UNCHANGED <<sock, placed, sess, post, told, cleaning, at,
                   aborted, listed>>

\* Slip: without a session there is nobody to tell.
HandleHangupRemoteUntold(s) ==
    /\ Next1(s, "hangup")
    /\ ~Held(Head(outbox[s]).call, At(s))
    /\ UNCHANGED <<sock, phone, placed, table, sess, recent, post,
                   signals, told, cleaning, at, aborted, listed>>

\* A hangup of any other call goes to the other party's gateway, once.
HandleHangupRemote(s) ==
    LET c == Head(outbox[s]).call
        u == Owner[s]
        v == Other(u, c)
        relayed == SocketsOf(v) = {} \/ Home[v] # At(s)
    IN
    /\ Next1(s, "hangup")
    /\ ~Held(c, At(s))
    /\ IF relayed /\ <<u, c>> \notin told
       THEN /\ told' = told \cup {<<u, c>>}
            /\ signals' = Signalled(At(s), "hangup", c, v)
       ELSE UNCHANGED <<told, signals>>
    /\ UNCHANGED <<sock, phone, placed, table, sess, recent, post,
                   cleaning, at, aborted, listed>>

-----------------------------------------------------------------------------
(* The gateways: signals of their peers, and time.                         *)

Arrives(m) ==
    /\ m \in signals
    /\ Ordered => post[m.call] # "sent"
    /\ signals' = signals \ {m}

SignalAnswer(m) ==
    /\ m.kind = "answer"
    /\ Arrives(m)
    /\ sess' = IF Held(m.call, Home[m.to])
               THEN [sess EXCEPT ![m.call].answered = TRUE] ELSE sess
    /\ phone' = PhonesAnswered(SocketsOf(m.to), m.call)
    /\ UNCHANGED <<sock, outbox, placed, table, recent, post, told,
                   cleaning, at, aborted, listed>>

\* A hangup of the callee ends the session; one of the caller finds none.
SignalHangup(m) ==
    LET c == m.call
        mine == Held(c, Home[m.to]) /\ m.to = From[c]
    IN
    /\ m.kind = "hangup"
    /\ Arrives(m)
    /\ table' = IF mine THEN table \ {c} ELSE table
    /\ recent' = IF mine /\ sess[c].answered
                 THEN {d \in recent : ~(From[d] = From[c] /\ To[d] = To[c])}
                 ELSE recent
    /\ phone' = PhonesEnded(SocketsOf(m.to), c)
    /\ UNCHANGED <<sock, outbox, placed, sess, post, told, cleaning,
                   at, aborted, listed>>

LoseSignal(m) ==
    /\ m \in signals
    /\ m.kind \in MayLose
    /\ signals' = signals \ {m}
    /\ UNCHANGED <<sock, phone, outbox, placed, table, sess, recent,
                   post, told, cleaning, at, aborted, listed>>

\* The caller's client gives up after 30 s, half the time the session is given,
\* and what a client sends takes less than the other half.
GaveUp(c) ==
    \A s \in Socks : /\ phone[s] # In("calling", c)
                     /\ \A i \in DOMAIN outbox[s] : outbox[s][i].call # c

\* Slip: the timeout ends an answered call as well.
ExpireAny(c) ==
    /\ c \in table
    /\ GaveUp(c)
    /\ table' = table \ {c}
    /\ UNCHANGED <<sock, phone, outbox, placed, sess, recent, post, signals,
                   told, cleaning, at, aborted, listed>>

\* The ring timeout of 60 s: "an answered session lives until hangup or
\* disconnect".
Expire(c) ==
    /\ c \in table
    /\ ~sess[c].answered
    /\ GaveUp(c)
    /\ table' = table \ {c}
    /\ UNCHANGED <<sock, phone, outbox, placed, sess, recent, post, signals,
                   told, cleaning, at, aborted, listed>>

\* _INVITE_WINDOW has passed.
WindowPasses(c) ==
    /\ c \in recent
    /\ recent' = recent \ {c}
    /\ UNCHANGED <<sock, phone, outbox, placed, table, sess, post,
                   signals, told, cleaning, at, aborted, listed>>

-----------------------------------------------------------------------------
(* A connection closes.                                                    *)

Peer(s, c) == IF sess[c].caller = s THEN sess[c].callee ELSE sess[c].caller

\* Slip: only the sessions it called in.
CloseCaller(s) ==
    /\ s \in MayClose
    /\ sock[s] = "on"
    /\ sock' = [sock EXCEPT ![s] = "closing"]
    /\ phone' = [phone EXCEPT ![s] = Idle]
    /\ outbox' = [outbox EXCEPT ![s] = <<>>]
    /\ cleaning' = [cleaning EXCEPT ![s] = {c \in table : s = sess[c].caller}]
    /\ UNCHANGED <<placed, table, sess, recent, post, signals, told, at,
                   aborted, listed>>

\* Its client is gone, and its cleanup goes over the sessions it is in.
Close(s) ==
    /\ s \in MayClose
    /\ sock[s] = "on"
    /\ sock' = [sock EXCEPT ![s] = "closing"]
    /\ phone' = [phone EXCEPT ![s] = Idle]
    /\ outbox' = [outbox EXCEPT ![s] = <<>>]
    /\ cleaning' = [cleaning EXCEPT ![s] =
                      {c \in table : s \in {sess[c].caller, sess[c].callee}}]
    /\ UNCHANGED <<placed, table, sess, recent, post, signals, told, at,
                   aborted, listed>>

\* The other party of a session, if there is one here, is told.
CleanTell(s, c) ==
    /\ sock[s] = "closing"
    /\ at[s] = NoCall
    /\ c \in cleaning[s]
    /\ Peer(s, c) # NoSock
    /\ at' = [at EXCEPT ![s] = c]
    /\ phone' = PhonesEnded({t \in {Peer(s, c)} : sock[t] = "on"}, c)
    /\ UNCHANGED <<sock, outbox, placed, table, sess, recent, post,
                   signals, told, cleaning, aborted, listed>>

\* The send has returned, or there was nobody to tell: c is next to go.
Ending(s, c) ==
    \/ at[s] = c
    \/ at[s] = NoCall /\ c \in cleaning[s] /\ Peer(s, c) = NoSock

\* The entry is deleted.
CleanDrop(s, c) ==
    /\ Ending(s, c)
    /\ c \in table
    /\ table' = table \ {c}
    /\ recent' = IF sess[c].answered THEN Lift(c, At(s)) ELSE recent
    /\ cleaning' = [cleaning EXCEPT ![s] = @ \ {c}]
    /\ at' = [at EXCEPT ![s] = NoCall]
    /\ UNCHANGED <<sock, phone, outbox, placed, sess, post, signals,
                   told, aborted, listed>>

\* It was deleted by somebody else meanwhile: the del raises KeyError, and
\* what is left of the cleanup is not done.
CleanRaises(s, c) ==
    /\ Ending(s, c)
    /\ c \notin table
    /\ recent' = IF sess[c].answered THEN Lift(c, At(s)) ELSE recent
    /\ cleaning' = [cleaning EXCEPT ![s] = {}]
    /\ at' = [at EXCEPT ![s] = NoCall]
    /\ aborted' = aborted \cup {s}
    /\ sock' = [sock EXCEPT ![s] = "off"]
    /\ UNCHANGED <<phone, outbox, placed, table, sess, post, signals,
                   told, listed>>

\* The rest: the voice channels and the rooms it is in.
CleanDone(s) ==
    /\ sock[s] = "closing"
    /\ cleaning[s] = {}
    /\ at[s] = NoCall
    /\ listed' = listed \ {s}
    /\ sock' = [sock EXCEPT ![s] = "off"]
    /\ UNCHANGED <<phone, outbox, placed, table, sess, recent, post,
                   signals, told, cleaning, at, aborted>>

-----------------------------------------------------------------------------
Callers ==
    \/ \E s \in Socks, c \in Calls : InviteLocal(s, c) \/ InviteRemote(s, c)
    \/ \E c \in Calls :
          HandleOffer(c) \/ LoseOffer(c) \/ Unavailable(c)

Clients == \E s \in Socks : PickUp(s) \/ EndCall(s) \/ RingOut(s)

Commands ==
    \E s \in Socks : HandleAnswer(s) \/ HandleHangup(s) \/ HandleHangupRemote(s)

Relays ==
    \E m \in signals : SignalAnswer(m) \/ SignalHangup(m) \/ LoseSignal(m)

TimePasses == \E c \in Calls : Expire(c) \/ WindowPasses(c)

Cleanup(s) ==
    \/ \E c \in Calls : CleanTell(s, c) \/ CleanDrop(s, c) \/ CleanRaises(s, c)
    \/ CleanDone(s)

\* Between two sends a cleanup awaits nothing: nothing comes in between.
Running(s) == sock[s] = "closing" /\ at[s] = NoCall

Awaited ==
    \/ Callers \/ Clients \/ Commands \/ Relays \/ TimePasses
    \/ \E s \in Socks : Close(s) \/ Cleanup(s)

Next ==
    \/ \E s \in Socks : Running(s) /\ Cleanup(s)
    \/ (\A s \in Socks : ~Running(s)) /\ Awaited

Spec == Init /\ [][Next]_vars

\* Handlers and tasks go on, POSTs end, and the client's timers of 30 s run
\* out.  Nobody has to pick up or to end a call.  One condition does for all of
\* them: a call takes finitely many steps.
SystemRuns ==
    \/ \E s \in Socks :
          \/ HandleAnswer(s) \/ HandleHangup(s) \/ HandleHangupRemote(s)
          \/ Cleanup(s)
          \/ RingOut(s)
          \/ phone[s].state = "calling" /\ EndCall(s)
    \/ \E c \in Calls : HandleOffer(c) \/ Unavailable(c)
    \/ \E m \in signals : SignalAnswer(m) \/ SignalHangup(m)

FairSpec == Spec /\ WF_vars(SystemRuns /\ Next)

-----------------------------------------------------------------------------
(* Properties.                                                             *)

\* Once the cleanup of a closed connection is through, no session names it and
\* no room or voice channel lists it, whatever sessions came and went while it
\* told the other parties.
ClosedIsGone ==
    \A s \in Socks : sock[s] = "off" /\ s \notin aborted =>
        /\ s \notin listed
        /\ \A c \in table : s \notin {sess[c].caller, sess[c].callee}

\* A call that was connected does not count against the pair once it is over:
\* "a dropped call can always be redialed".
ConnectedMayRedial ==
    \A c \in placed \ table : sess[c].answered => c \notin recent

Talks(u, c) == \E s \in SocketsOf(u) : phone[s] = In("talking", c)

\* Two people who talk have a session at the caller's gateway: their call did
\* not ring out under them, and the offer's late failure did not end it.
TalkHasSession ==
    \A c \in Calls :
        Talks(From[c], c) /\ Talks(To[c], c) =>
            \/ c \in table
            \/ [kind |-> "hangup", call |-> c, to |-> To[c]] \in signals

\* Someone who talks does not stay in the call after the other has left it.
NobodyIsLeftTalking ==
    \A c \in Calls : \A u \in {From[c], To[c]} :
        LET left == /\ Talks(u, c)
                    /\ ~Talks(Other(u, c), c)
                    /\ SocketsOf(Other(u, c)) # {}
        IN  left ~> ~left
=============================================================================
