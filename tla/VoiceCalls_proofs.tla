------------------------- MODULE VoiceCalls_proofs -------------------------
(***************************************************************************)
(* Of the calls, for any people, connections, gateways and number of       *)
(* calls, with signals in any order or lost: a connection whose cleanup is *)
(* through is in no session, a call that was connected never keeps the     *)
(* pair from redialling, and two who talk have a session.                  *)
(*                                                                         *)
(* A cleanup goes over the sessions that named its connection when it      *)
(* began, and waits while it tells each other party.  What makes that      *)
(* enough is that meanwhile no session can begin to name it: an invitation *)
(* or an answer that names a connection comes from one that is open.       *)
(***************************************************************************)
EXTENDS VoiceCalls, SequenceTheorems, TLAPS

-----------------------------------------------------------------------------
(* Types.                                                                  *)

\* A client is idle, or in a call.
InCall == [state : PhoneState \ {"idle"}, call : Calls]
Phones == {Idle} \cup InCall

ClientsTyped ==
    /\ phone \in [Socks -> Phones]
    /\ outbox \in [Socks -> Seq(Command)]
SessionsTyped ==
    /\ placed \subseteq Calls
    /\ table \subseteq placed
    /\ sess \in [Calls -> Session]
    /\ recent \subseteq placed
    /\ post \in [Calls -> {"none", "sent", "failed"}]
    /\ signals \subseteq Signal
    /\ told \subseteq Users \X Calls
CleanupTyped ==
    /\ sock \in [Socks -> {"on", "closing", "off"}]
    /\ cleaning \in [Socks -> SUBSET Calls]
    /\ at \in [Socks -> Calls \cup {NoCall}]
    /\ aborted \subseteq Socks
    /\ listed \subseteq Socks
Base == ClientsTyped /\ SessionsTyped /\ CleanupTyped

LEMMA IdleOrInCall == Phones \subseteq Phone
  BY DEF Phones, InCall, Phone, Idle, PhoneState

LEMMA InCallOK ==
    ASSUME NEW state \in {"calling", "ringing", "talking"}, NEW c \in Calls
    PROVE  In(state, c) \in InCall
  BY DEF In, InCall, PhoneState

LEMMA HangUpOK ==
    ASSUME NEW p \in Phones
    PROVE  HangUp(p).phone \in Phones /\ HangUp(p).cmds \in Seq(Command)
<1>1. CASE p = Idle
  BY <1>1, EmptySeq DEF HangUp, Phones
<1>2. CASE p # Idle
  <2>1. p.call \in Calls
    BY <1>2 DEF Phones, InCall
  <2>2. Hangup(p.call) \in Command
    BY <2>1 DEF Hangup, Command
  <2> QED
    BY <1>2, <2>2 DEF HangUp, Phones
<1> QED
  BY <1>1, <1>2

LEMMA OnInviteOK ==
    ASSUME NEW p \in Phones, NEW c \in Calls
    PROVE  OnInvite(p, c).phone \in Phones /\ OnInvite(p, c).cmds \in Seq(Command)
<1>1. Hangup(c) \in Command
  BY DEF Hangup, Command
<1>2. <<>> \in Seq(Command) /\ <<Hangup(c)>> \in Seq(Command)
  BY <1>1
<1>3. In("ringing", c) \in Phones
  BY InCallOK DEF Phones
<1> QED
  BY <1>2, <1>3, HangUpOK DEF OnInvite

LEMMA OnAnswerOK ==
    ASSUME NEW p \in Phones, NEW c \in Calls
    PROVE  OnAnswer(p, c) \in Phones
<1>1. CASE p.state = "calling"
  BY <1>1, InCallOK DEF OnAnswer, Phones, InCall, Idle
<1>2. CASE p.state # "calling"
  BY <1>2 DEF OnAnswer
<1> QED
  BY <1>1, <1>2

LEMMA OnHangupOK ==
    ASSUME NEW p \in Phones, NEW c \in Calls
    PROVE  OnHangup(p, c) \in Phones
  BY DEF OnHangup, Phones

\* What a gateway sends its clients leaves their phones in a call or idle.
LEMMA EventsOK ==
    ASSUME Base, NEW S, NEW c \in Calls
    PROVE  /\ PhonesAnswered(S, c) \in [Socks -> Phones]
           /\ PhonesEnded(S, c) \in [Socks -> Phones]
  BY OnAnswerOK, OnHangupOK DEF Base, ClientsTyped, PhonesAnswered, PhonesEnded

LEMMA CommandOK ==
    ASSUME Base, NEW s \in Socks, NEW cmd, Next1(s, cmd)
    PROVE  /\ Head(outbox[s]).call \in Calls
           /\ outbox' \in [Socks -> Seq(Command)]
<1>1. outbox[s] \in Seq(Command) /\ outbox[s] # <<>>
  BY DEF Base, ClientsTyped, Next1
<1>2. Head(outbox[s]) \in Command /\ Tail(outbox[s]) \in Seq(Command)
  BY <1>1, HeadTailProperties
<1> QED
  BY <1>2 DEF Base, ClientsTyped, Next1, Command

LEMMA SignalledOK ==
    ASSUME SessionsTyped, NEW g, NEW kind \in {"answer", "hangup"}, NEW c \in Calls,
           NEW u \in Users
    PROVE  Signalled(g, kind, c, u) \subseteq Signal
  BY DEF SessionsTyped, Signalled, Signal

LEMMA AnsweredOK ==
    ASSUME NEW r \in Session
    PROVE  /\ [r EXCEPT !.answered = TRUE] \in Session
           /\ \A t \in Socks \cup {NoSock} : [r EXCEPT !.callee = t] \in Session
  BY DEF Session

\* An answer marks a session, and nothing else of it but an unknown callee.
LEMMA MarkedOK ==
    ASSUME sess \in [Calls -> Session], NEW c \in Calls,
           NEW s \in Socks \cup {NoSock},
           \/ sess' = [sess EXCEPT ![c].answered = TRUE]
           \/ sess' = [sess EXCEPT ![c].answered = TRUE,
                                  ![c].callee = IF @ = NoSock THEN s ELSE @]
    PROVE  /\ sess' \in [Calls -> Session]
           /\ \A d \in Calls \ {c} : sess'[d] = sess[d]
           /\ sess'[c].caller = sess[c].caller
           /\ sess'[c].callee \in {sess[c].callee, s}
<1> DEFINE marked == [sess[c] EXCEPT !.answered = TRUE]
           t == IF sess[c].callee = NoSock THEN s ELSE sess[c].callee
           met == [marked EXCEPT !.callee = t]
<1>1. sess[c] \in Session /\ t \in {sess[c].callee, s}
  OBVIOUS
<1>2. marked \in Session /\ met \in Session
  BY <1>1, AnsweredOK DEF Session
<1>3. /\ marked.caller = sess[c].caller /\ met.caller = sess[c].caller
      /\ marked.callee = sess[c].callee /\ met.callee = t
  BY <1>1 DEF Session
<1>4. sess' = [sess EXCEPT ![c] = marked] \/ sess' = [sess EXCEPT ![c] = met]
  BY DEF Session
<1> HIDE DEF marked, met, t
<1> QED
  BY <1>1, <1>2, <1>3, <1>4

\* The actions of Next, each with what it is an action of.
LEMMA Steps ==
    ASSUME Next
    PROVE  \/ \E s \in Socks, c \in Calls : InviteLocal(s, c) \/ InviteRemote(s, c)
           \/ \E c \in Calls : \/ HandleOffer(c) \/ LoseOffer(c) \/ Unavailable(c)
                               \/ Expire(c) \/ WindowPasses(c)
           \/ \E s \in Socks : \/ PickUp(s) \/ EndCall(s) \/ RingOut(s)
                               \/ HandleAnswer(s) \/ HandleHangup(s)
                               \/ HandleHangupRemote(s) \/ Close(s) \/ Cleanup(s)
           \/ \E m \in signals : SignalAnswer(m) \/ SignalHangup(m) \/ LoseSignal(m)
  BY DEF Next, Awaited, Callers, Clients, Commands, Relays, TimePasses

LEMMA ClientsStep ==
    ASSUME Base, Next
    PROVE  ClientsTyped'
<1> USE CallsAssumption
<1>0. ClientsTyped /\ \A s \in Socks : phone[s] \in Phones /\ outbox[s] \in Seq(Command)
  BY DEF Base, ClientsTyped
<1>1. CASE UNCHANGED <<phone, outbox>>
  BY <1>0, <1>1 DEF ClientsTyped
<1>2. ASSUME NEW S, NEW c \in Calls, phone' = PhonesAnswered(S, c), UNCHANGED outbox
      PROVE  ClientsTyped'
  BY <1>0, <1>2, EventsOK DEF ClientsTyped
<1>3. ASSUME NEW S, NEW c \in Calls, phone' = PhonesEnded(S, c), UNCHANGED outbox
      PROVE  ClientsTyped'
  BY <1>0, <1>3, EventsOK DEF ClientsTyped
<1>4. ASSUME NEW s \in Socks, NEW p \in Phones, NEW cmds \in Seq(Command),
             phone' = [phone EXCEPT ![s] = p],
             outbox' = [outbox EXCEPT ![s] = @ \o cmds]
      PROVE  ClientsTyped'
  <2>1. outbox[s] \o cmds \in Seq(Command)
    BY <1>0, ConcatProperties
  <2> QED
    BY <1>0, <1>4, <2>1 DEF ClientsTyped
<1>5. ASSUME NEW s \in Socks, NEW c \in Calls, InviteLocal(s, c)  PROVE ClientsTyped'
  <2>1. PICK t \in SocketsOf(To[c]) :
          /\ phone' = [phone EXCEPT ![s] = In("calling", c),
                                    ![t] = OnInvite(phone[t], c).phone]
          /\ outbox' = [outbox EXCEPT ![t] = @ \o OnInvite(phone[t], c).cmds]
    BY <1>5 DEF InviteLocal
  <2>2. t \in Socks
    BY DEF SocketsOf
  <2>3. /\ OnInvite(phone[t], c).phone \in Phones
        /\ OnInvite(phone[t], c).cmds \in Seq(Command)
        /\ In("calling", c) \in Phones
    BY <1>0, <2>2, OnInviteOK, InCallOK DEF Phones
  <2>4. outbox[t] \o OnInvite(phone[t], c).cmds \in Seq(Command)
    BY <1>0, <2>2, <2>3, ConcatProperties
  <2> QED
    BY <1>0, <2>1, <2>2, <2>3, <2>4 DEF ClientsTyped
<1>6. ASSUME NEW s \in Socks, NEW c \in Calls, InviteRemote(s, c)  PROVE ClientsTyped'
  <2>1. In("calling", c) \in Phones
    BY InCallOK DEF Phones
  <2> QED
    BY <1>0, <1>6, <2>1 DEF InviteRemote, ClientsTyped
<1>7. ASSUME NEW c \in Calls, HandleOffer(c)  PROVE ClientsTyped'
  <2>1. \A s \in Socks : /\ OnInvite(phone[s], c).phone \in Phones
                         /\ outbox[s] \o OnInvite(phone[s], c).cmds \in Seq(Command)
    BY <1>0, OnInviteOK, ConcatProperties
  <2> QED
    BY <1>0, <1>7, <2>1 DEF HandleOffer, Ring, ClientsTyped
<1>8. ASSUME NEW c \in Calls, Unavailable(c)  PROVE ClientsTyped'
  <2>1. CASE UNCHANGED <<phone, outbox>>
    BY <1>1, <2>1
  <2>2. ASSUME NEW s \in Socks,
               phone' = [phone EXCEPT ![s] = HangUp(@).phone],
               outbox' = [outbox EXCEPT ![s] = @ \o HangUp(phone[s]).cmds]
        PROVE  ClientsTyped'
    BY <1>0, <1>4, <2>2, HangUpOK
  <2>3. sess[c].caller \in Socks \cup {NoSock}
    BY DEF Base, SessionsTyped, Session
  <2>4. CASE sess[c].caller = NoSock
    BY <1>0, <1>8, <2>1, <2>4 DEF Unavailable, ClientsTyped
  <2> QED
    BY <1>8, <2>1, <2>2, <2>3, <2>4 DEF Unavailable
<1>9. ASSUME NEW s \in Socks, PickUp(s)  PROVE ClientsTyped'
  <2>1. phone[s].call \in Calls
    BY <1>0, <1>9 DEF PickUp, Phones, InCall, Idle
  <2>2. [cmd |-> "answer", call |-> phone[s].call] \in Command
    BY <2>1 DEF Command
  <2>3. <<[cmd |-> "answer", call |-> phone[s].call]>> \in Seq(Command)
    BY <2>2
  <2>4. In("talking", phone[s].call) \in Phones
    BY <2>1, InCallOK DEF Phones
  <2> QED
    BY <1>4, <1>9, <2>3, <2>4 DEF PickUp, Client
<1>10. ASSUME NEW s \in Socks, EndCall(s) \/ RingOut(s)  PROVE ClientsTyped'
  <2>1. Idle \in Phones /\ <<>> \in Seq(Command) /\ HangUp(phone[s]).cmds \in Seq(Command)
    BY <1>0, HangUpOK DEF Phones
  <2> QED
    BY <1>4, <1>10, <2>1 DEF EndCall, RingOut, Client
<1>11. ASSUME NEW s \in Socks,
              HandleAnswer(s) \/ HandleHangup(s) \/ HandleHangupRemote(s)
       PROVE  ClientsTyped'
  <2>1. /\ Head(outbox[s]).call \in Calls
        /\ outbox' \in [Socks -> Seq(Command)]
    BY <1>11, CommandOK DEF HandleAnswer, HandleHangup, HandleHangupRemote
  <2>2. /\ \A S : PhonesAnswered(S, Head(outbox[s]).call) \in [Socks -> Phones]
        /\ \A S : PhonesEnded(S, Head(outbox[s]).call) \in [Socks -> Phones]
        /\ phone \in [Socks -> Phones]
    BY <1>0, <2>1, EventsOK DEF ClientsTyped
  <2>3. phone' \in [Socks -> Phones]
    <3>1. CASE HandleAnswer(s)
      BY <2>2, <3>1 DEF HandleAnswer
    <3>2. CASE HandleHangup(s)
      BY <2>2, <3>2 DEF HandleHangup
    <3>3. CASE HandleHangupRemote(s)
      BY <2>2, <3>3 DEF HandleHangupRemote
    <3> QED
      BY <1>11, <3>1, <3>2, <3>3
  <2> QED
    BY <2>1, <2>3 DEF ClientsTyped
<1>12. ASSUME NEW m \in signals, SignalAnswer(m) \/ SignalHangup(m)  PROVE ClientsTyped'
  <2>1. m.call \in Calls
    BY DEF Base, SessionsTyped, Signal
  <2> QED
    BY <1>2, <1>3, <1>12, <2>1 DEF SignalAnswer, SignalHangup
<1>13. ASSUME NEW s \in Socks, Close(s)  PROVE ClientsTyped'
  BY <1>0, <1>13, EmptySeq DEF Close, ClientsTyped, Phones
<1>14. ASSUME NEW s \in Socks, Cleanup(s)  PROVE ClientsTyped'
  BY <1>1, <1>3, <1>14 DEF Cleanup, CleanTell, CleanDrop, CleanRaises, CleanDone
<1>15. ASSUME NEW c \in Calls, LoseOffer(c) \/ Expire(c) \/ WindowPasses(c)
       PROVE  ClientsTyped'
  BY <1>1, <1>15 DEF LoseOffer, Expire, WindowPasses
<1>16. ASSUME NEW m, LoseSignal(m)  PROVE ClientsTyped'
  BY <1>1, <1>16 DEF LoseSignal
<1> QED
  BY <1>5, <1>6, <1>7, <1>8, <1>9, <1>10, <1>11, <1>12, <1>13, <1>14, <1>15, <1>16, Steps

LEMMA SessionsStep ==
    ASSUME Base, Next
    PROVE  SessionsTyped'
<1> USE CallsAssumption
<1>0. SessionsTyped
  BY DEF Base
<1>1. CASE UNCHANGED <<placed, table, sess, recent, post, signals, told>>
  BY <1>0, <1>1 DEF SessionsTyped
<1>2. ASSUME NEW s \in Socks, NEW c \in Calls, InviteLocal(s, c)  PROVE SessionsTyped'
  <2>1. PICK t \in Socks :
          sess' = [sess EXCEPT ![c] = [caller |-> s, callee |-> t, answered |-> FALSE]]
    BY <1>2 DEF InviteLocal, SocketsOf
  <2>2. [caller |-> s, callee |-> t, answered |-> FALSE] \in Session
    BY DEF Session
  <2> QED
    BY <1>0, <1>2, <2>1, <2>2 DEF InviteLocal, Place, SessionsTyped
<1>3. ASSUME NEW s \in Socks, NEW c \in Calls, InviteRemote(s, c)  PROVE SessionsTyped'
  <2>1. [caller |-> s, callee |-> NoSock, answered |-> FALSE] \in Session
    BY DEF Session
  <2> QED
    BY <1>0, <1>3, <2>1 DEF InviteRemote, Place, SessionsTyped
<1>4. ASSUME NEW c \in Calls, HandleOffer(c) \/ LoseOffer(c)  PROVE SessionsTyped'
  BY <1>0, <1>4 DEF HandleOffer, LoseOffer, SessionsTyped
<1>5. ASSUME NEW c \in Calls,
             \/ Unavailable(c) \/ Expire(c) \/ WindowPasses(c)
             \/ \E s \in Socks : CleanDrop(s, c) \/ CleanRaises(s, c)
      PROVE  SessionsTyped'
  <2>1. table' \subseteq table /\ recent' \subseteq recent
    BY <1>5 DEF Unavailable, Expire, WindowPasses, CleanDrop, CleanRaises, Lift
  <2>2. post' = post \/ post' = [post EXCEPT ![c] = "none"]
    BY <1>5 DEF Unavailable, Expire, WindowPasses, CleanDrop, CleanRaises
  <2>3. UNCHANGED <<placed, sess, signals, told>>
    BY <1>5 DEF Unavailable, Expire, WindowPasses, CleanDrop, CleanRaises
  <2> QED
    BY <1>0, <2>1, <2>2, <2>3 DEF SessionsTyped
<1>6. ASSUME NEW s \in Socks, HandleAnswer(s)  PROVE SessionsTyped'
  <2> DEFINE c == Head(outbox[s]).call
  <2>1. c \in Calls
    BY <1>6, CommandOK DEF HandleAnswer
  <2>2. sess' \in [Calls -> Session]
    BY <1>0, <1>6, <2>1, MarkedOK DEF HandleAnswer, SessionsTyped
  <2>3. signals' \subseteq Signal
    BY <1>0, <1>6, <2>1, SignalledOK DEF HandleAnswer, SessionsTyped
  <2> QED
    BY <1>0, <1>6, <2>2, <2>3 DEF HandleAnswer, SessionsTyped
<1>7. ASSUME NEW s \in Socks, HandleHangup(s)  PROVE SessionsTyped'
  <2> DEFINE c == Head(outbox[s]).call
  <2>1. c \in Calls
    BY <1>7, CommandOK DEF HandleHangup
  <2>2. signals' \subseteq Signal
    <3>1. signals' \in {signals, Signalled(At(s), "hangup", c, To[c]),
                       Signalled(At(s), "hangup", c, From[c])}
      BY <1>7 DEF HandleHangup
    <3>2. /\ Signalled(At(s), "hangup", c, To[c]) \subseteq Signal
          /\ Signalled(At(s), "hangup", c, From[c]) \subseteq Signal
      BY <1>0, <2>1, SignalledOK
    <3> QED
      BY <1>0, <3>1, <3>2 DEF SessionsTyped
  <2>3. table' \subseteq table /\ recent' \subseteq recent
    BY <1>7 DEF HandleHangup, Lift
  <2> QED
    BY <1>0, <1>7, <2>2, <2>3 DEF HandleHangup, SessionsTyped
<1>8. ASSUME NEW s \in Socks, HandleHangupRemote(s)  PROVE SessionsTyped'
  <2> DEFINE c == Head(outbox[s]).call
  <2>1. c \in Calls /\ Owner[s] \in Users
    BY <1>8, CommandOK DEF HandleHangupRemote
  <2>2. Other(Owner[s], c) \in Users
    BY <2>1 DEF Other
  <2>3. signals' \subseteq Signal
    <3>1. Signalled(At(s), "hangup", c, Other(Owner[s], c)) \subseteq Signal
      BY <1>0, <2>1, <2>2, SignalledOK
    <3> QED
      BY <1>0, <1>8, <3>1 DEF HandleHangupRemote, SessionsTyped
  <2>4. told' \subseteq Users \X Calls
    BY <1>0, <1>8, <2>1 DEF HandleHangupRemote, SessionsTyped
  <2> QED
    BY <1>0, <1>8, <2>3, <2>4 DEF HandleHangupRemote, SessionsTyped
<1>9. ASSUME NEW m \in signals, SignalAnswer(m) \/ SignalHangup(m) \/ LoseSignal(m)
       PROVE  SessionsTyped'
  <2>1. m.call \in Calls
    BY <1>0 DEF SessionsTyped, Signal
  <2>2. sess' \in [Calls -> Session]
    <3>1. CASE sess' = [sess EXCEPT ![m.call].answered = TRUE]
      BY <1>0, <2>1, <3>1, MarkedOK DEF SessionsTyped
    <3>2. CASE UNCHANGED sess
      BY <1>0, <3>2 DEF SessionsTyped
    <3> QED
      BY <1>9, <3>1, <3>2 DEF SignalAnswer, SignalHangup, LoseSignal
  <2>3. /\ table' \subseteq table /\ recent' \subseteq recent /\ signals' \subseteq signals
        /\ UNCHANGED <<placed, post, told>>
    BY <1>9 DEF SignalAnswer, SignalHangup, LoseSignal, Arrives
  <2> QED
    BY <1>0, <2>2, <2>3 DEF SessionsTyped
<1>10. ASSUME NEW s \in Socks, PickUp(s) \/ EndCall(s) \/ RingOut(s) \/ Close(s)
       PROVE  SessionsTyped'
  BY <1>1, <1>10 DEF PickUp, EndCall, RingOut, Client, Close
<1>11. ASSUME NEW s \in Socks, Cleanup(s)  PROVE SessionsTyped'
  BY <1>1, <1>5, <1>11 DEF Cleanup, CleanTell, CleanDone
<1> QED
  BY <1>2, <1>3, <1>4, <1>5, <1>6, <1>7, <1>8, <1>9, <1>10, <1>11, Steps

LEMMA CleanupStep ==
    ASSUME Base, Next
    PROVE  CleanupTyped'
<1>0. CleanupTyped
  BY DEF Base
<1>1. CASE UNCHANGED <<sock, cleaning, at, aborted, listed>>
  BY <1>0, <1>1 DEF CleanupTyped
<1>2. ASSUME NEW s \in Socks, Close(s)  PROVE CleanupTyped'
  <2>1. table \subseteq Calls
    BY DEF Base, SessionsTyped
  <2> QED
    BY <1>0, <1>2, <2>1 DEF Close, CleanupTyped
<1>3. ASSUME NEW s \in Socks, Cleanup(s)  PROVE CleanupTyped'
  BY <1>0, <1>3 DEF Cleanup, CleanTell, CleanDrop, CleanRaises, CleanDone, CleanupTyped
<1>4. ASSUME NEW s \in Socks, NEW c \in Calls, InviteLocal(s, c) \/ InviteRemote(s, c)
      PROVE  CleanupTyped'
  BY <1>1, <1>4 DEF InviteLocal, InviteRemote, Place
<1>5. ASSUME NEW c \in Calls,
             \/ HandleOffer(c) \/ LoseOffer(c) \/ Unavailable(c)
             \/ Expire(c) \/ WindowPasses(c)
      PROVE  CleanupTyped'
  BY <1>1, <1>5 DEF HandleOffer, LoseOffer, Unavailable, Expire, WindowPasses
<1>6. ASSUME NEW s \in Socks,
             \/ PickUp(s) \/ EndCall(s) \/ RingOut(s)
             \/ HandleAnswer(s) \/ HandleHangup(s) \/ HandleHangupRemote(s)
      PROVE  CleanupTyped'
  BY <1>1, <1>6
  DEF PickUp, EndCall, RingOut, Client, HandleAnswer, HandleHangup, HandleHangupRemote
<1>7. ASSUME NEW m, SignalAnswer(m) \/ SignalHangup(m) \/ LoseSignal(m)
      PROVE  CleanupTyped'
  BY <1>1, <1>7 DEF SignalAnswer, SignalHangup, LoseSignal
<1> QED
  BY <1>2, <1>3, <1>4, <1>5, <1>6, <1>7, Steps

LEMMA BaseStep ==
    ASSUME Base, [Next]_vars
    PROVE  Base'
<1>1. CASE Next
  BY <1>1, ClientsStep, SessionsStep, CleanupStep DEF Base
<1>2. CASE UNCHANGED vars
  BY <1>2 DEF vars, Base, ClientsTyped, SessionsTyped, CleanupTyped
<1> QED
  BY <1>1, <1>2

LEMMA BaseInit ==
    ASSUME Init
    PROVE  Base
<1>1. ClientsTyped
  BY EmptySeq DEF Init, ClientsTyped, Phones
<1>2. SessionsTyped
  BY DEF Init, SessionsTyped, Session
<1>3. CleanupTyped
  BY DEF Init, CleanupTyped
<1> QED
  BY <1>1, <1>2, <1>3 DEF Base

\* The phones of the clients, their commands on the way, the gateways' sessions
\* and the signals between gateways are what their types say; what is in the
\* table, or counts against a redial, has been placed.
THEOREM TypeCorrect == Spec => []TypeOK
<1>1. Init => Base
  BY BaseInit
<1>2. Base /\ [Next]_vars => Base'
  BY BaseStep
<1>3. Base => TypeOK
  BY IdleOrInCall DEF Base, ClientsTyped, SessionsTyped, CleanupTyped, TypeOK
<1> QED
  BY <1>1, <1>2, <1>3, PTL DEF Spec

-----------------------------------------------------------------------------
(* The cleanup of a connection (_ws_handler's finally).                    *)

Names(c, s) == s \in {sess[c].caller, sess[c].callee}

\* A session names a connection: it did before, or the connection is open and at
\* the gateway of the session.
NamedBefore(c, s) == c \in placed /\ Names(c, s) /\ (c \in table' => c \in table)
MeetsHere(c, s) == sock[s] = "on" /\ UNCHANGED sock /\ At(s) = Home[From[c]]

LEMMA NamesStep ==
    ASSUME Base, [Next]_vars, NEW c \in placed', NEW s \in Socks, Names(c, s)'
    PROVE  NamedBefore(c, s) \/ MeetsHere(c, s)
<1> USE CallsAssumption
<1>0. SessionsTyped /\ c \in Calls
  BY BaseStep DEF Base, SessionsTyped
<1>1. ASSUME placed' = placed, table' \subseteq table, UNCHANGED sess
      PROVE  NamedBefore(c, s) \/ MeetsHere(c, s)
  BY <1>1 DEF NamedBefore, Names
<1>2. ASSUME NEW r \in Socks, NEW d \in Calls, InviteLocal(r, d)
      PROVE  NamedBefore(c, s) \/ MeetsHere(c, s)
  <2>1. PICK t \in SocketsOf(To[d]) :
          sess' = [sess EXCEPT ![d] = [caller |-> r, callee |-> t, answered |-> FALSE]]
    BY <1>2 DEF InviteLocal
  <2>2. /\ t \in Socks /\ sock[t] = "on" /\ At(t) = Home[To[d]] /\ Home[To[d]] = At(r)
        /\ sock[r] = "on" /\ At(r) = Home[From[d]] /\ UNCHANGED sock
    BY <1>2 DEF InviteLocal, Place, SocketsOf, At
  <2>3. CASE c = d
    <3>1. s \in {r, t}
      BY <1>0, <2>1, <2>3 DEF SessionsTyped, Names
    <3> QED
      BY <2>2, <2>3, <3>1 DEF MeetsHere
  <2>4. CASE c # d
    BY <1>0, <1>2, <2>1, <2>4 DEF InviteLocal, Place, SessionsTyped, NamedBefore, Names
  <2> QED
    BY <2>3, <2>4
<1>3. ASSUME NEW r \in Socks, NEW d \in Calls, InviteRemote(r, d)
      PROVE  NamedBefore(c, s) \/ MeetsHere(c, s)
  <2>1. /\ sess' = [sess EXCEPT ![d] =
                      [caller |-> r, callee |-> NoSock, answered |-> FALSE]]
        /\ sock[r] = "on" /\ At(r) = Home[From[d]] /\ UNCHANGED sock
    BY <1>3 DEF InviteRemote, Place, At
  <2>2. CASE c = d
    <3>1. s = r
      BY <1>0, <2>1, <2>2 DEF SessionsTyped, Names
    <3> QED
      BY <2>1, <2>2, <3>1 DEF MeetsHere
  <2>3. CASE c # d
    BY <1>0, <1>3, <2>1, <2>3 DEF InviteRemote, Place, SessionsTyped, NamedBefore, Names
  <2> QED
    BY <2>2, <2>3
<1>4. ASSUME NEW r \in Socks, HandleAnswer(r)
      PROVE  NamedBefore(c, s) \/ MeetsHere(c, s)
  <2> DEFINE d == Head(outbox[r]).call
  <2>1. d \in Calls /\ sock[r] = "on" /\ UNCHANGED <<sock, placed, table>>
    BY <1>4, CommandOK DEF HandleAnswer, Next1
  <2>2. CASE ~Held(d, At(r))
    BY <1>1, <1>4, <2>1, <2>2 DEF HandleAnswer
  <2>3. CASE Held(d, At(r))
    <3>1. /\ \A e \in Calls \ {d} : sess'[e] = sess[e]
          /\ sess'[d].caller = sess[d].caller
          /\ sess'[d].callee \in {sess[d].callee, r}
      BY <1>0, <1>4, <2>1, <2>3, MarkedOK DEF HandleAnswer, SessionsTyped
    <3>2. At(r) = Home[From[d]]
      BY <2>3 DEF Held
    <3> HIDE DEF d
    <3> QED
      BY <1>0, <2>1, <3>1, <3>2 DEF NamedBefore, MeetsHere, Names
  <2> QED
    BY <2>2, <2>3
<1>5. ASSUME NEW m \in signals, SignalAnswer(m)
      PROVE  NamedBefore(c, s) \/ MeetsHere(c, s)
  <2>1. m.call \in Calls /\ UNCHANGED <<placed, table>>
    BY <1>0, <1>5 DEF SessionsTyped, Signal, SignalAnswer
  <2>2. CASE UNCHANGED sess
    BY <1>1, <2>1, <2>2
  <2>3. CASE sess' = [sess EXCEPT ![m.call].answered = TRUE]
    <3>1. /\ \A e \in Calls \ {m.call} : sess'[e] = sess[e]
          /\ sess'[m.call].caller = sess[m.call].caller
          /\ sess'[m.call].callee \in {sess[m.call].callee, NoSock}
      BY <1>0, <2>1, <2>3, MarkedOK DEF SessionsTyped
    <3> QED
      BY <1>0, <2>1, <3>1 DEF NamedBefore, Names
  <2> QED
    BY <1>5, <2>2, <2>3 DEF SignalAnswer
<1>6. ASSUME NEW d \in Calls,
             \/ HandleOffer(d) \/ LoseOffer(d) \/ Unavailable(d)
             \/ Expire(d) \/ WindowPasses(d)
      PROVE  NamedBefore(c, s) \/ MeetsHere(c, s)
  BY <1>1, <1>6 DEF HandleOffer, LoseOffer, Unavailable, Expire, WindowPasses
<1>7. ASSUME NEW r \in Socks,
             \/ PickUp(r) \/ EndCall(r) \/ RingOut(r)
             \/ HandleHangup(r) \/ HandleHangupRemote(r) \/ Close(r)
      PROVE  NamedBefore(c, s) \/ MeetsHere(c, s)
  BY <1>1, <1>7
  DEF PickUp, EndCall, RingOut, Client, HandleHangup, HandleHangupRemote, Close
<1>8. ASSUME NEW m \in signals, SignalHangup(m) \/ LoseSignal(m)
      PROVE  NamedBefore(c, s) \/ MeetsHere(c, s)
  BY <1>1, <1>8 DEF SignalHangup, LoseSignal
<1>9. ASSUME NEW r \in Socks, Cleanup(r)
      PROVE  NamedBefore(c, s) \/ MeetsHere(c, s)
  BY <1>1, <1>9 DEF Cleanup, CleanTell, CleanDrop, CleanRaises, CleanDone
<1>10. CASE UNCHANGED vars
  BY <1>1, <1>10 DEF vars
<1>11. CASE Next
  BY <1>11, <1>2, <1>3, <1>4, <1>5, <1>6, <1>7, <1>8, <1>9, Steps
<1> QED
  BY <1>10, <1>11

\* A session is kept at the caller's gateway, and names connections to it.
SessionsAtHome ==
    \A c \in placed : \A s \in Socks : Names(c, s) => At(s) = Home[From[c]]

LEMMA AtHomeStep ==
    ASSUME Base, SessionsAtHome, [Next]_vars
    PROVE  SessionsAtHome'
  BY NamesStep DEF SessionsAtHome, NamedBefore, MeetsHere, At

\* The cleanup of s goes over every session that names it, and only over
\* sessions of its own gateway.
CleaningAt(s) ==
    /\ sock[s] # "closing" => at[s] = NoCall /\ cleaning[s] = {}
    /\ at[s] # NoCall => at[s] \in cleaning[s]
    /\ \A c \in cleaning[s] : c \in placed /\ Home[From[c]] = At(s)
    /\ sock[s] = "closing" => \A c \in table : Names(c, s) => c \in cleaning[s]
CleaningOK == \A s \in Socks : CleaningAt(s)

LEMMA CleaningStep ==
    ASSUME Base, SessionsAtHome, CleaningOK, [Next]_vars
    PROVE  CleaningOK'
<1> SUFFICES ASSUME NEW s \in Socks  PROVE CleaningAt(s)'
  BY DEF CleaningOK
<1> USE CallsAssumption
<1>0. CleanupTyped /\ SessionsTyped /\ CleaningAt(s)
  BY DEF Base, CleaningOK
<1>1. ASSUME sock'[s] = sock[s], cleaning'[s] = cleaning[s], at'[s] = at[s],
             placed \subseteq placed'
      PROVE  CleaningAt(s)'
  <2>1. ASSUME sock'[s] = "closing", NEW c \in table', Names(c, s)'
        PROVE  c \in cleaning'[s]
    <3>1. c \in placed'
      BY BaseStep DEF Base, SessionsTyped
    <3> QED
      BY <1>0, <1>1, <2>1, <3>1, NamesStep DEF NamedBefore, MeetsHere, CleaningAt
  <2> QED
    BY <1>0, <1>1, <2>1 DEF CleaningAt, At
<1>2. CASE UNCHANGED <<sock, cleaning, at>> /\ placed \subseteq placed'
  BY <1>1, <1>2
<1>3. ASSUME NEW r \in Socks, Close(r)  PROVE CleaningAt(s)'
  <2>1. CASE r = s
    BY <1>0, <1>3, <2>1
    DEF Close, CleaningAt, CleanupTyped, SessionsTyped, SessionsAtHome, Names, At
  <2>2. CASE r # s
    BY <1>0, <1>1, <1>3, <2>2 DEF Close, CleanupTyped
  <2> QED
    BY <2>1, <2>2
<1>4. ASSUME NEW r \in Socks, Cleanup(r), r # s  PROVE CleaningAt(s)'
  BY <1>0, <1>1, <1>4
  DEF Cleanup, CleanTell, CleanDrop, CleanRaises, CleanDone, CleanupTyped
<1>5. ASSUME NEW c \in Calls, CleanTell(s, c)  PROVE CleaningAt(s)'
  BY <1>0, <1>5 DEF CleanTell, CleaningAt, CleanupTyped, Names, At
<1>6. ASSUME NEW c \in Calls, CleanDrop(s, c)  PROVE CleaningAt(s)'
  BY <1>0, <1>6 DEF CleanDrop, Ending, CleaningAt, CleanupTyped, Names, At
<1>7. ASSUME NEW c \in Calls, CleanRaises(s, c) \/ CleanDone(s)  PROVE CleaningAt(s)'
  BY <1>0, <1>7 DEF CleanRaises, CleanDone, CleaningAt, CleanupTyped
<1>8. ASSUME NEW r \in Socks, NEW c \in Calls, InviteLocal(r, c) \/ InviteRemote(r, c)
      PROVE  CleaningAt(s)'
  BY <1>2, <1>8 DEF InviteLocal, InviteRemote, Place
<1>9. ASSUME NEW c \in Calls,
             \/ HandleOffer(c) \/ LoseOffer(c) \/ Unavailable(c)
             \/ Expire(c) \/ WindowPasses(c)
      PROVE  CleaningAt(s)'
  BY <1>2, <1>9 DEF HandleOffer, LoseOffer, Unavailable, Expire, WindowPasses
<1>10. ASSUME NEW r \in Socks,
              \/ PickUp(r) \/ EndCall(r) \/ RingOut(r)
              \/ HandleAnswer(r) \/ HandleHangup(r) \/ HandleHangupRemote(r)
       PROVE  CleaningAt(s)'
  BY <1>2, <1>10
  DEF PickUp, EndCall, RingOut, Client, HandleAnswer, HandleHangup, HandleHangupRemote
<1>11. ASSUME NEW m, SignalAnswer(m) \/ SignalHangup(m) \/ LoseSignal(m)
       PROVE  CleaningAt(s)'
  BY <1>2, <1>11 DEF SignalAnswer, SignalHangup, LoseSignal
<1>12. ASSUME Cleanup(s)  PROVE CleaningAt(s)'
  <2>1. CASE CleanDone(s)
    BY <1>0, <2>1 DEF CleanDone, CleaningAt, CleanupTyped
  <2> QED
    BY <1>5, <1>6, <1>7, <1>12, <2>1 DEF Cleanup
<1>13. CASE UNCHANGED vars
  BY <1>2, <1>13 DEF vars
<1> QED
  BY <1>3, <1>4, <1>8, <1>9, <1>10, <1>11, <1>12, <1>13, Steps

\* Who closes a connection for good.
LEMMA OffStep ==
    ASSUME CleanupTyped, [Next]_vars
    PROVE  /\ aborted \subseteq aborted' /\ listed' \subseteq listed
           /\ \A s \in Socks : sock[s] # "off" /\ sock'[s] = "off" =>
                CleanDone(s) \/ s \in aborted'
<1>1. CASE UNCHANGED <<sock, aborted, listed>>
  BY <1>1
<1>2. ASSUME NEW r \in Socks, Close(r)
      PROVE  /\ UNCHANGED <<aborted, listed>>
             /\ \A s \in Socks : sock'[s] = "off" => sock[s] = "off"
  BY <1>2 DEF Close, CleanupTyped
<1>3. ASSUME NEW r \in Socks, Cleanup(r)
      PROVE  /\ aborted \subseteq aborted' /\ listed' \subseteq listed
             /\ \A s \in Socks : sock[s] # "off" /\ sock'[s] = "off" =>
                  CleanDone(s) \/ s \in aborted'
  BY <1>3 DEF Cleanup, CleanTell, CleanDrop, CleanRaises, CleanDone, CleanupTyped
<1>4. ASSUME NEW r \in Socks, NEW c \in Calls, InviteLocal(r, c) \/ InviteRemote(r, c)
      PROVE  UNCHANGED <<sock, aborted, listed>>
  BY <1>4 DEF InviteLocal, InviteRemote, Place
<1>5. ASSUME NEW c \in Calls,
             \/ HandleOffer(c) \/ LoseOffer(c) \/ Unavailable(c)
             \/ Expire(c) \/ WindowPasses(c)
      PROVE  UNCHANGED <<sock, aborted, listed>>
  BY <1>5 DEF HandleOffer, LoseOffer, Unavailable, Expire, WindowPasses
<1>6. ASSUME NEW r \in Socks,
             \/ PickUp(r) \/ EndCall(r) \/ RingOut(r)
             \/ HandleAnswer(r) \/ HandleHangup(r) \/ HandleHangupRemote(r)
      PROVE  UNCHANGED <<sock, aborted, listed>>
  BY <1>6
  DEF PickUp, EndCall, RingOut, Client, HandleAnswer, HandleHangup, HandleHangupRemote
<1>7. ASSUME NEW m, SignalAnswer(m) \/ SignalHangup(m) \/ LoseSignal(m)
      PROVE  UNCHANGED <<sock, aborted, listed>>
  BY <1>7 DEF SignalAnswer, SignalHangup, LoseSignal
<1>8. CASE \E r \in Socks : Close(r)
  BY <1>2, <1>8
<1>9. CASE \E r \in Socks : Cleanup(r)
  BY <1>3, <1>9
<1>10. CASE UNCHANGED vars
  BY <1>1, <1>10 DEF vars
<1> QED
  BY <1>1, <1>4, <1>5, <1>6, <1>7, <1>8, <1>9, <1>10, Steps

LEMMA ClosedStep ==
    ASSUME Base, CleaningOK, ClosedIsGone, [Next]_vars
    PROVE  ClosedIsGone'
<1> SUFFICES ASSUME NEW s \in Socks, sock'[s] = "off", s \notin aborted'
             PROVE  s \notin listed' /\ \A c \in table' : ~Names(c, s)'
  BY DEF ClosedIsGone, Names
<1>0. CleanupTyped /\ CleaningAt(s)
  BY DEF Base, CleaningOK
<1>1. ASSUME NEW c \in table', Names(c, s)'
      PROVE  c \in table /\ Names(c, s)
  <2>1. c \in placed'
    BY BaseStep DEF Base, SessionsTyped
  <2> QED
    BY <1>1, <2>1, NamesStep DEF NamedBefore, MeetsHere
<1>2. CASE sock[s] = "off"
  BY <1>0, <1>1, <1>2, OffStep DEF ClosedIsGone, Names
<1>3. CASE sock[s] # "off"
  <2>1. CleanDone(s)
    BY <1>0, <1>3, OffStep
  <2>2. s \notin listed' /\ sock[s] = "closing" /\ cleaning[s] = {}
    BY <2>1 DEF CleanDone
  <2> QED
    BY <1>0, <1>1, <2>2 DEF CleaningAt
<1> QED
  BY <1>2, <1>3

\* Once the cleanup of a closed connection is through, no session names it and
\* no room or voice channel lists it, whatever sessions came and went while the
\* cleanup told the other parties.
THEOREM ClosedAreGone == Spec => []ClosedIsGone
<1> DEFINE Inv == Base /\ SessionsAtHome /\ CleaningOK /\ ClosedIsGone
<1>1. Init => Inv
  <2>1. ASSUME Init  PROVE SessionsAtHome /\ CleaningOK /\ ClosedIsGone
    BY <2>1 DEF Init, SessionsAtHome, CleaningOK, CleaningAt, ClosedIsGone
  <2> QED
    BY <2>1, BaseInit
<1>2. Inv /\ [Next]_vars => Inv'
  BY BaseStep, AtHomeStep, CleaningStep, ClosedStep
<1> QED
  BY <1>1, <1>2, PTL DEF Spec

-----------------------------------------------------------------------------
(* Redialling.                                                             *)

\* A session leaves the table answered only together with the pair's entry
\* among the recent invitations, and a session off the table is not answered.
LEMMA RedialStep ==
    ASSUME Base, CleaningOK, ConnectedMayRedial, [Next]_vars
    PROVE  ConnectedMayRedial'
<1> SUFFICES ASSUME NEW c \in placed' \ table', sess'[c].answered
             PROVE  c \notin recent'
  BY DEF ConnectedMayRedial
<1> USE CallsAssumption
<1>0. Base' /\ SessionsTyped /\ c \in Calls
  BY BaseStep DEF Base, SessionsTyped
<1>1. ASSUME placed' = placed, table' = table, recent' \subseteq recent, UNCHANGED sess
      PROVE  c \notin recent'
  BY <1>1 DEF ConnectedMayRedial
<1>2. ASSUME NEW r \in Socks, NEW d \in Calls, InviteLocal(r, d) \/ InviteRemote(r, d)
      PROVE  c \notin recent'
  <2>1. /\ placed' = placed \cup {d} /\ table' = table \cup {d}
        /\ recent' = recent \cup {d}
        /\ \E new : sess' = [sess EXCEPT ![d] = new]
    BY <1>2 DEF InviteLocal, InviteRemote, Place
  <2>2. sess'[c] = sess[c] /\ c # d
    BY <1>0, <2>1 DEF SessionsTyped
  <2> QED
    BY <2>1, <2>2 DEF ConnectedMayRedial
\* An answer marks sessions of the table only.
<1>3. ASSUME placed' = placed, table' = table, recent' = recent, NEW d \in Calls,
             d \in table, \A e \in Calls \ {d} : sess'[e] = sess[e]
      PROVE  c \notin recent'
  BY <1>0, <1>3 DEF ConnectedMayRedial
\* A connected call that leaves the table takes its place in the throttle along.
<1>4. ASSUME NEW d \in Calls, placed' = placed, UNCHANGED sess, table' = table \ {d},
             recent' \subseteq recent, sess[d].answered => d \notin recent'
      PROVE  c \notin recent'
  BY <1>4 DEF ConnectedMayRedial
<1>5. ASSUME NEW r \in Socks, HandleAnswer(r)  PROVE c \notin recent'
  <2> DEFINE d == Head(outbox[r]).call
  <2>1. d \in Calls /\ UNCHANGED <<placed, table, recent>>
    BY <1>5, CommandOK DEF HandleAnswer
  <2>2. CASE Held(d, At(r))
    <3>1. \A e \in Calls \ {d} : sess'[e] = sess[e]
      BY <1>0, <1>5, <2>1, <2>2, MarkedOK DEF HandleAnswer, SessionsTyped
    <3> QED
      BY <1>3, <2>1, <2>2, <3>1 DEF Held
  <2>3. CASE ~Held(d, At(r))
    BY <1>1, <1>5, <2>1, <2>3 DEF HandleAnswer
  <2> QED
    BY <2>2, <2>3
<1>6. ASSUME NEW m \in signals, SignalAnswer(m)  PROVE c \notin recent'
  <2>1. m.call \in Calls /\ UNCHANGED <<placed, table, recent>>
    BY <1>0, <1>6 DEF SessionsTyped, Signal, SignalAnswer
  <2>2. CASE Held(m.call, Home[m.to])
    <3>1. \A e \in Calls \ {m.call} : sess'[e] = sess[e]
      BY <1>0, <1>6, <2>1, <2>2, MarkedOK DEF SignalAnswer, SessionsTyped
    <3> QED
      BY <1>3, <2>1, <2>2, <3>1 DEF Held
  <2>3. CASE ~Held(m.call, Home[m.to])
    BY <1>1, <1>6, <2>1, <2>3 DEF SignalAnswer
  <2> QED
    BY <2>2, <2>3
<1>7. ASSUME NEW r \in Socks, HandleHangup(r)  PROVE c \notin recent'
  <2> DEFINE d == Head(outbox[r]).call
  <2>1. d \in Calls /\ Home[From[d]] = At(r)
    BY <1>7, CommandOK DEF HandleHangup, Held
  <2>2. recent' \subseteq recent /\ (sess[d].answered => d \notin recent')
    BY <1>7, <2>1 DEF HandleHangup, Lift, SamePair
  <2> QED
    BY <1>4, <1>7, <2>1, <2>2 DEF HandleHangup
<1>8. ASSUME NEW m \in signals, SignalHangup(m)  PROVE c \notin recent'
  <2>1. m.call \in Calls /\ UNCHANGED <<placed, sess>>
    BY <1>0, <1>8 DEF SessionsTyped, Signal, SignalHangup
  <2>2. CASE Held(m.call, Home[m.to]) /\ m.to = From[m.call]
    BY <1>4, <1>8, <2>1, <2>2 DEF SignalHangup
  <2>3. CASE ~(Held(m.call, Home[m.to]) /\ m.to = From[m.call])
    BY <1>1, <1>8, <2>1, <2>3 DEF SignalHangup
  <2> QED
    BY <2>2, <2>3
<1>9. ASSUME NEW d \in Calls, Unavailable(d) \/ Expire(d)  PROVE c \notin recent'
  BY <1>4, <1>9 DEF Unavailable, Expire
<1>10. ASSUME NEW d \in Calls, HandleOffer(d) \/ LoseOffer(d) \/ WindowPasses(d)
       PROVE  c \notin recent'
  BY <1>1, <1>10 DEF HandleOffer, LoseOffer, WindowPasses
<1>11. ASSUME NEW r \in Socks,
              \/ PickUp(r) \/ EndCall(r) \/ RingOut(r)
              \/ HandleHangupRemote(r) \/ Close(r)
       PROVE  c \notin recent'
  BY <1>1, <1>11 DEF PickUp, EndCall, RingOut, Client, HandleHangupRemote, Close
<1>12. ASSUME NEW r \in Socks, Cleanup(r)  PROVE c \notin recent'
  <2>1. ASSUME NEW d \in Calls, CleanDrop(r, d)  PROVE c \notin recent'
    <3>1. Home[From[d]] = At(r)
      BY <2>1 DEF CleanDrop, Ending, CleaningOK, CleaningAt
    <3>2. recent' \subseteq recent /\ (sess[d].answered => d \notin recent')
      BY <2>1, <3>1 DEF CleanDrop, Lift, SamePair
    <3> QED
      BY <1>4, <2>1, <3>2 DEF CleanDrop
  <2>2. ASSUME NEW d \in Calls, CleanTell(r, d) \/ CleanRaises(r, d)
        PROVE  c \notin recent'
    BY <1>1, <2>2 DEF CleanTell, CleanRaises, Lift
  <2> QED
    BY <1>1, <1>12, <2>1, <2>2 DEF Cleanup, CleanDone
<1>13. ASSUME NEW m \in signals, LoseSignal(m)  PROVE c \notin recent'
  BY <1>1, <1>13 DEF LoseSignal
<1>14. CASE UNCHANGED vars
  BY <1>1, <1>14 DEF vars
<1> QED
  BY <1>2, <1>5, <1>6, <1>7, <1>8, <1>9, <1>10, <1>11, <1>12, <1>13, <1>14, Steps

\* A call that was connected does not count against the pair once it is over,
\* however it ended: by a hangup of either side, over either gateway, or by the
\* cleanup of a closed connection.
THEOREM RedialAfterConnected == Spec => []ConnectedMayRedial
<1> DEFINE Inv == Base /\ SessionsAtHome /\ CleaningOK /\ ConnectedMayRedial
<1>1. Init => Inv
  <2>1. ASSUME Init  PROVE SessionsAtHome /\ CleaningOK /\ ConnectedMayRedial
    BY <2>1 DEF Init, SessionsAtHome, CleaningOK, CleaningAt, ConnectedMayRedial
  <2> QED
    BY <2>1, BaseInit
<1>2. Inv /\ [Next]_vars => Inv'
  BY BaseStep, AtHomeStep, CleaningStep, RedialStep
<1> QED
  BY <1>1, <1>2, PTL DEF Spec

-----------------------------------------------------------------------------
(* Who talks has a session.                                                *)

\* The commands of a client that its gateway has not handled.
Cmds(s) == {outbox[s][i] : i \in DOMAIN outbox[s]}

\* A call's session is of a connection of its caller.
CallerOK == \A c \in placed : /\ sess[c].caller \in Socks
                              /\ Owner[sess[c].caller] = From[c]
OffersOK == \A c \in Calls : post[c] = "sent" => c \in placed
AnswersOK == \A m \in signals : m.kind = "answer" => m.to = From[m.call]

\* A connection is in a call as its caller or as one of the callee's.
InIt(s, c) == c \in placed /\ (sess[c].caller = s \/ Owner[s] = To[c])
PhoneOK(s) ==
    /\ sock[s] # "on" => phone[s] = Idle
    /\ phone[s].call # NoCall => InIt(s, phone[s].call)
    /\ phone[s].state = "calling" => sess[phone[s].call].caller = s
    /\ phone[s].state = "ringing" => Owner[s] = To[phone[s].call]
CommandsOK(s) == \A k \in Cmds(s) : InIt(s, k.call)
RolesOK ==
    /\ CallerOK
    /\ OffersOK
    /\ AnswersOK
    /\ \A s \in Socks : PhoneOK(s) /\ CommandsOK(s)

LEMMA JoinedOK ==
    ASSUME NEW S, NEW q \in Seq(S), NEW r \in Seq(S), NEW i \in DOMAIN (q \o r)
    PROVE  \/ \E j \in DOMAIN q : (q \o r)[i] = q[j]
           \/ \E j \in DOMAIN r : (q \o r)[i] = r[j]
<1>1. Len(q) \in Nat /\ Len(r) \in Nat /\ Len(q \o r) = Len(q) + Len(r)
  BY ConcatProperties, LenProperties
<1>2. DOMAIN q = 1 .. Len(q) /\ DOMAIN r = 1 .. Len(r) /\ i \in 1 .. Len(q) + Len(r)
  BY <1>1, ConcatProperties, LenProperties
<1>3. CASE i <= Len(q)
  <2>1. i \in DOMAIN q /\ (q \o r)[i] = q[i]
    BY <1>1, <1>2, <1>3, ConcatProperties
  <2> QED
    BY <2>1
<1>4. CASE i > Len(q)
  <2>1. i - Len(q) \in DOMAIN r /\ (q \o r)[i] = r[i - Len(q)]
    BY <1>1, <1>2, <1>4, ConcatProperties
  <2> QED
    BY <2>1
<1> QED
  BY <1>1, <1>2, <1>3, <1>4

LEMMA LeftOK ==
    ASSUME NEW S, NEW q \in Seq(S), q # <<>>, NEW i \in DOMAIN Tail(q)
    PROVE  \E j \in DOMAIN q : Tail(q)[i] = q[j]
<1>1. /\ Len(q) \in Nat /\ Len(Tail(q)) = Len(q) - 1 /\ Tail(q) \in Seq(S)
      /\ \A j \in 1 .. Len(Tail(q)) : Tail(q)[j] = q[j + 1]
  BY HeadTailProperties, LenProperties
<1>2. i \in 1 .. Len(q) - 1 /\ DOMAIN q = 1 .. Len(q)
  BY <1>1, LenProperties
<1>3. i + 1 \in DOMAIN q /\ Tail(q)[i] = q[i + 1]
  BY <1>1, <1>2
<1> QED
  BY <1>3

\* A client sends the commands cs, or its gateway handles one.
LEMMA SentOK ==
    ASSUME Base, NEW s \in Socks, NEW cs \in Seq(Command),
           outbox'[s] = outbox[s] \o cs
    PROVE  Cmds(s)' \subseteq Cmds(s) \cup {cs[i] : i \in DOMAIN cs}
<1>1. outbox[s] \in Seq(Command)
  BY DEF Base, ClientsTyped
<1> QED
  BY <1>1, JoinedOK DEF Cmds

LEMMA HandledOK ==
    ASSUME Base, NEW s \in Socks, NEW cmd, Next1(s, cmd)
    PROVE  /\ \A r \in Socks : Cmds(r)' \subseteq Cmds(r)
           /\ Head(outbox[s]) \in Cmds(s) /\ Head(outbox[s]).cmd = cmd
           /\ Head(outbox[s]) \in Command
           /\ sock[s] = "on"
<1>1. /\ outbox \in [Socks -> Seq(Command)] /\ outbox[s] \in Seq(Command)
      /\ outbox[s] # <<>>
  BY DEF Base, ClientsTyped, Next1
<1>2. outbox' = [outbox EXCEPT ![s] = Tail(outbox[s])]
  BY DEF Next1
<1>3. Cmds(s)' \subseteq Cmds(s)
  BY <1>1, <1>2, LeftOK DEF Cmds
<1>4. \A r \in Socks \ {s} : Cmds(r)' = Cmds(r)
  BY <1>1, <1>2 DEF Cmds
<1>5. 1 \in DOMAIN outbox[s] /\ Head(outbox[s]) = outbox[s][1]
  BY <1>1, EmptySeq, LenProperties
<1>6. Head(outbox[s]) \in Command
  BY <1>1, HeadTailProperties
<1> QED
  BY <1>3, <1>4, <1>5, <1>6 DEF Cmds, Next1
-----------------------------------------------------------------------------
(* What a step does to a client: its phone, and the commands it sends.     *)

New(s, N) == Cmds(s)' \subseteq Cmds(s) \cup N
Open(s) == sock[s] = "on" /\ sock'[s] = "on"
Stays(s) ==
    /\ phone'[s] = phone[s]
    /\ New(s, {})
    /\ sock[s] = "on" => sock'[s] = "on"
Ends(s) ==
    /\ phone'[s] = Idle
    /\ New(s, IF phone[s] = Idle THEN {} ELSE {Hangup(phone[s].call)})
Rings(s, c) ==
    /\ Open(s)
    /\ c \in placed'
    /\ Owner[s] = To[c]
    /\ \/ phone'[s] = phone[s] /\ New(s, {Hangup(c)})
       \/ phone'[s] = In("ringing", c) /\ New(s, {})
       \/ /\ phone'[s] = In("ringing", c)
          /\ phone[s].state = "calling"
          /\ phone[s].call # c
          /\ New(s, {Hangup(phone[s].call)})
Dials(s, c) ==
    /\ Open(s)
    /\ phone'[s] = In("calling", c)
    /\ New(s, {})
    /\ c \notin placed
    /\ c \in table'
    /\ sess'[c].caller = s
    /\ Owner[s] = From[c]
Takes(s) ==
    /\ Open(s)
    /\ phone[s].state = "ringing"
    /\ phone'[s] = In("talking", phone[s].call)
    /\ New(s, {[cmd |-> "answer", call |-> phone[s].call]})
IsAnswered(s, d) ==
    /\ Open(s)
    /\ phone[s].state = "calling"
    /\ To[phone[s].call] = To[d]
    /\ Owner[s] = From[d]
    /\ d \in table => sess'[d].answered
    /\ phone'[s] = In("talking", phone[s].call)
    /\ New(s, {})

Evolves(s) ==
    \/ Stays(s) \/ Ends(s) \/ Takes(s)
    \/ \E c \in Calls : Rings(s, c) \/ Dials(s, c) \/ IsAnswered(s, c)

LEMMA NewOK ==
    ASSUME NEW s
    PROVE  /\ outbox'[s] = outbox[s] => New(s, {})
           /\ \A N : New(s, {}) => New(s, N)
  BY DEF New, Cmds

LEMMA RingsOK ==
    ASSUME Base, NEW s \in Socks, NEW c \in Calls, Open(s), c \in placed',
           Owner[s] = To[c], phone'[s] = OnInvite(phone[s], c).phone,
           outbox'[s] = outbox[s] \o OnInvite(phone[s], c).cmds
    PROVE  Rings(s, c)
<1> DEFINE p == phone[s]
           cs == OnInvite(p, c).cmds
           glare == p.state = "calling" /\ From[c] = To[p.call]
<1>0. p \in Phones /\ Calls \subseteq Nat
  BY CallsAssumption DEF Base, ClientsTyped
<1>1. cs \in Seq(Command)
  BY <1>0, OnInviteOK
<1>2. New(s, {cs[i] : i \in DOMAIN cs})
  BY <1>1, SentOK DEF New
<1>3. \/ p = Idle /\ OnInvite(p, c) = [phone |-> In("ringing", c), cmds |-> <<>>]
      \/ p = In("ringing", c) /\ OnInvite(p, c) = [phone |-> In("ringing", c), cmds |-> <<>>]
      \/ glare /\ p.call < c /\ OnInvite(p, c) = [phone |-> p, cmds |-> <<>>]
      \/ /\ glare /\ p.call > c
         /\ OnInvite(p, c) = [phone |-> In("ringing", c), cmds |-> HangUp(p).cmds]
      \/ OnInvite(p, c) = [phone |-> p, cmds |-> <<Hangup(c)>>]
  <2>0. /\ p = Idle => p # In("ringing", c) /\ ~glare
        /\ p = In("ringing", c) => ~glare
        /\ glare => ~(p.call < c) \/ ~(p.call > c)
    <3>1. p # Idle => p.call \in Nat
      BY <1>0 DEF Phones, InCall
    <3>2. p # Idle => ~(p.call < c /\ p.call > c)
      BY <1>0, <3>1
    <3> QED
      BY <3>2 DEF Idle, In
  <2>1. CASE p = Idle
    BY <2>0, <2>1, Zenon DEF OnInvite
  <2>2. CASE p # Idle /\ p = In("ringing", c)
    BY <2>0, <2>2, Zenon DEF OnInvite
  <2>3. CASE p # Idle /\ p # In("ringing", c) /\ glare /\ p.call < c
    BY <2>0, <2>3, Zenon DEF OnInvite
  <2>4. CASE p # Idle /\ p # In("ringing", c) /\ ~(glare /\ p.call < c) /\ glare /\ p.call > c
    BY <2>4, Zenon DEF OnInvite
  <2>5. CASE p # Idle /\ p # In("ringing", c) /\ ~(glare /\ p.call < c) /\ ~(glare /\ p.call > c)
    BY <2>5, Zenon DEF OnInvite
  <2> QED
    BY <2>1, <2>2, <2>3, <2>4, <2>5
<1>4. CASE cs = <<>>
  <2>1. {cs[i] : i \in DOMAIN cs} = {}
    BY <1>4, EmptySeq
  <2>2. New(s, {})
    BY <1>2, <2>1
  <2>3. phone'[s] = p \/ phone'[s] = In("ringing", c)
    BY <1>3
  <2> QED
    BY <2>2, <2>3 DEF Rings, New
<1>5. ASSUME NEW k, cs = <<k>>  PROVE New(s, {k})
  <2>1. {cs[i] : i \in DOMAIN cs} = {k}
    BY <1>5
  <2> HIDE DEF cs
  <2> QED
    BY <1>2, <2>1
<1>6. CASE /\ glare /\ p.call > c
           /\ OnInvite(p, c) = [phone |-> In("ringing", c), cmds |-> HangUp(p).cmds]
  <2>1. p # Idle /\ p.call \in Calls
    BY <1>0, <1>6 DEF Idle, Phones, InCall
  <2>2. cs = <<Hangup(p.call)>>
    BY <1>6, <2>1 DEF HangUp
  <2>3. New(s, {Hangup(p.call)})
    BY <1>5, <2>2
  <2>4. p.call # c
    BY <1>0, <1>6, <2>1
  <2> QED
    BY <1>6, <2>3, <2>4 DEF Rings
<1>7. CASE OnInvite(p, c) = [phone |-> p, cmds |-> <<Hangup(c)>>]
  <2>1. New(s, {Hangup(c)})
    BY <1>5, <1>7
  <2> QED
    BY <1>7, <2>1 DEF Rings
<1> QED
  BY <1>3, <1>4, <1>6, <1>7

\* A gateway tells the clients at S that a call ended.
LEMMA EndedOK ==
    ASSUME Base, NEW s \in Socks, NEW S, NEW c, phone' = PhonesEnded(S, c),
           New(s, {}), sock'[s] = sock[s]
    PROVE  Stays(s) \/ Ends(s)
<1>1. phone'[s] = phone[s] \/ phone'[s] = Idle
  BY DEF PhonesEnded, OnHangup
<1> QED
  BY <1>1 DEF Stays, Ends, New

LEMMA AnswersReach ==
    ASSUME Base, NEW s \in Socks, NEW c \in Calls, NEW S \in SUBSET SocketsOf(From[c]),
           phone' = PhonesAnswered(S, c), New(s, {}), sock'[s] = sock[s],
           c \in table => sess'[c].answered
    PROVE  Stays(s) \/ IsAnswered(s, c)
  BY DEF PhonesAnswered, OnAnswer, Stays, IsAnswered, Open, SocketsOf

LEMMA EvolvesStep ==
    ASSUME Base, RolesOK, CleaningOK, Next, NEW s \in Socks
    PROVE  Evolves(s)
<1> USE CallsAssumption
<1>0. /\ ClientsTyped /\ SessionsTyped /\ CleanupTyped
      /\ phone[s] \in Phones /\ outbox[s] \in Seq(Command)
  BY DEF Base, ClientsTyped
<1>1. ASSUME phone'[s] = phone[s], New(s, {}),
             sock[s] = "on" => sock'[s] = "on"
      PROVE  Evolves(s)
  BY <1>1 DEF Evolves, Stays
<1>2. CASE UNCHANGED <<phone, outbox, sock>>
  BY <1>1, <1>2, NewOK
<1>3. ASSUME NEW r \in Socks, NEW c \in Calls, InviteLocal(r, c)  PROVE Evolves(s)
  <2>1. PICK t \in SocketsOf(To[c]) :
          /\ sess' = [sess EXCEPT ![c] = [caller |-> r, callee |-> t, answered |-> FALSE]]
          /\ phone' = [phone EXCEPT ![r] = In("calling", c),
                                    ![t] = OnInvite(phone[t], c).phone]
          /\ outbox' = [outbox EXCEPT ![t] = @ \o OnInvite(phone[t], c).cmds]
    BY <1>3 DEF InviteLocal
  <2>2. /\ t \in Socks /\ sock[t] = "on" /\ Owner[t] = To[c] /\ Owner[r] = From[c] /\ t # r
        /\ sock[r] = "on" /\ UNCHANGED sock /\ c \notin placed
        /\ placed' = placed \cup {c} /\ table' = table \cup {c}
    BY <1>3 DEF InviteLocal, Place, SocketsOf
  <2>3. CASE s = r
    <3>1. sess'[c].caller = s
      BY <1>0, <2>1, <2>3 DEF SessionsTyped
    <3>2. phone'[s] = In("calling", c) /\ outbox'[s] = outbox[s]
      BY <1>0, <2>1, <2>2, <2>3 DEF ClientsTyped
    <3>3. Dials(s, c)
      BY <2>2, <2>3, <3>1, <3>2, NewOK DEF Dials, Open
    <3> QED
      BY <3>3 DEF Evolves
  <2>4. CASE s = t
    <3>1. /\ phone'[s] = OnInvite(phone[s], c).phone
          /\ outbox'[s] = outbox[s] \o OnInvite(phone[s], c).cmds
      BY <1>0, <2>1, <2>2, <2>4 DEF ClientsTyped
    <3>2. Rings(s, c)
      BY <2>2, <2>4, <3>1, RingsOK DEF Open
    <3> QED
      BY <3>2 DEF Evolves
  <2>5. CASE s # r /\ s # t
    <3>1. phone'[s] = phone[s] /\ outbox'[s] = outbox[s]
      BY <1>0, <2>1, <2>2, <2>5 DEF ClientsTyped
    <3> QED
      BY <1>1, <2>2, <3>1, NewOK
  <2> QED
    BY <2>3, <2>4, <2>5
<1>4. ASSUME NEW r \in Socks, NEW c \in Calls, InviteRemote(r, c)  PROVE Evolves(s)
  <2>1. /\ sess' = [sess EXCEPT ![c] = [caller |-> r, callee |-> NoSock, answered |-> FALSE]]
        /\ phone' = [phone EXCEPT ![r] = In("calling", c)]
        /\ Owner[r] = From[c] /\ sock[r] = "on" /\ UNCHANGED <<sock, outbox>>
        /\ c \notin placed /\ table' = table \cup {c}
    BY <1>4 DEF InviteRemote, Place
  <2>2. CASE s = r
    <3>1. sess'[c].caller = s /\ phone'[s] = In("calling", c)
      BY <1>0, <2>1, <2>2 DEF SessionsTyped, ClientsTyped
    <3>2. Dials(s, c)
      BY <2>1, <2>2, <3>1, NewOK DEF Dials, Open
    <3> QED
      BY <3>2 DEF Evolves
  <2>3. CASE s # r
    BY <1>0, <1>1, <2>1, <2>3, NewOK DEF ClientsTyped
  <2> QED
    BY <2>2, <2>3
<1>5. ASSUME NEW c \in Calls, HandleOffer(c)  PROVE Evolves(s)
  <2>1. c \in placed /\ placed' = placed /\ UNCHANGED sock
    BY <1>5 DEF HandleOffer, RolesOK, OffersOK
  <2>2. Ring(SocketsOf(To[c]), c)
    BY <1>5 DEF HandleOffer
  <2>3. CASE s \in SocketsOf(To[c])
    <3>1. /\ phone'[s] = OnInvite(phone[s], c).phone
          /\ outbox'[s] = outbox[s] \o OnInvite(phone[s], c).cmds
      BY <2>2, <2>3 DEF Ring
    <3>2. Rings(s, c)
      BY <2>1, <2>3, <3>1, RingsOK DEF Open, SocketsOf
    <3> QED
      BY <3>2 DEF Evolves
  <2>4. CASE s \notin SocketsOf(To[c])
    <3>1. phone'[s] = phone[s] /\ outbox'[s] = outbox[s]
      BY <2>2, <2>4 DEF Ring
    <3> QED
      BY <1>1, <2>1, <3>1, NewOK
  <2> QED
    BY <2>3, <2>4
<1>6. ASSUME NEW r \in Socks, phone' = [phone EXCEPT ![r] = HangUp(@).phone],
             outbox' = [outbox EXCEPT ![r] = @ \o HangUp(phone[r]).cmds], UNCHANGED sock
      PROVE  Evolves(s)
  <2>1. CASE s # r
    BY <1>0, <1>1, <1>6, <2>1, NewOK DEF ClientsTyped
  <2>2. CASE s = r
    <3>1. /\ phone'[s] = HangUp(phone[s]).phone
          /\ outbox'[s] = outbox[s] \o HangUp(phone[s]).cmds
      BY <1>0, <1>6, <2>2 DEF ClientsTyped
    <3>2. HangUp(phone[s]).cmds \in Seq(Command) /\ HangUp(phone[s]).phone = Idle
      BY <1>0, HangUpOK DEF HangUp
    <3>3. New(s, {HangUp(phone[s]).cmds[i] : i \in DOMAIN HangUp(phone[s]).cmds})
      BY <3>1, <3>2, SentOK DEF New
    <3>4. {HangUp(phone[s]).cmds[i] : i \in DOMAIN HangUp(phone[s]).cmds}
            = IF phone[s] = Idle THEN {} ELSE {Hangup(phone[s].call)}
      <4>1. CASE phone[s] = Idle
        <5>1. HangUp(phone[s]).cmds = <<>>
          BY <4>1 DEF HangUp
        <5> QED
          BY <4>1, <5>1, EmptySeq
      <4>2. CASE phone[s] # Idle
        <5>1. HangUp(phone[s]).cmds = <<Hangup(phone[s].call)>>
          BY <4>2 DEF HangUp
        <5> QED
          BY <4>2, <5>1
      <4> QED
        BY <4>1, <4>2
    <3>5. New(s, IF phone[s] = Idle THEN {} ELSE {Hangup(phone[s].call)})
      BY <3>3, <3>4
    <3> QED
      BY <3>1, <3>2, <3>5 DEF Ends, Evolves
  <2> QED
    BY <2>1, <2>2
<1>7. ASSUME NEW c \in Calls, Unavailable(c)  PROVE Evolves(s)
  <2>1. CASE UNCHANGED <<phone, outbox>>
    BY <1>2, <1>7, <2>1 DEF Unavailable
  <2>2. sess[c].caller \in Socks \cup {NoSock}
    BY <1>0 DEF SessionsTyped, Session
  <2>3. CASE sess[c].caller = NoSock
    <3>1. /\ phone' = [phone EXCEPT ![NoSock] = HangUp(@).phone]
          /\ outbox' = [outbox EXCEPT ![NoSock] = @ \o HangUp(phone[NoSock]).cmds]
          \/ UNCHANGED <<phone, outbox>>
      BY <1>7, <2>3 DEF Unavailable
    <3>2. phone' = phone /\ outbox' = outbox
      BY <1>0, <3>1 DEF ClientsTyped
    <3> QED
      BY <2>1, <3>2
  <2> QED
    BY <1>6, <1>7, <2>1, <2>2, <2>3 DEF Unavailable
<1>8. ASSUME NEW r \in Socks, PickUp(r)  PROVE Evolves(s)
  <2>1. /\ phone[r].state = "ringing" /\ sock[r] = "on" /\ UNCHANGED sock
        /\ phone' = [phone EXCEPT ![r] = In("talking", phone[r].call)]
        /\ outbox' = [outbox EXCEPT ![r] = @ \o <<[cmd |-> "answer", call |-> phone[r].call]>>]
    BY <1>8 DEF PickUp, Client
  <2>2. CASE s # r
    BY <1>0, <1>1, <2>1, <2>2, NewOK DEF ClientsTyped
  <2>3. CASE s = r
    <3> DEFINE k == [cmd |-> "answer", call |-> phone[s].call]
    <3>1. phone[s].call \in Calls
      BY <1>0, <2>1, <2>3 DEF Phones, InCall, Idle
    <3>2. k \in Command
      BY <3>1 DEF Command
    <3>3. outbox'[s] = outbox[s] \o <<k>>
      BY <1>0, <2>1, <2>3 DEF ClientsTyped
    <3> HIDE DEF k
    <3>4. <<k>> \in Seq(Command) /\ {<<k>>[i] : i \in DOMAIN <<k>>} = {k}
      BY <3>2
    <3>5. New(s, {k})
      <4>1. Cmds(s)' \subseteq Cmds(s) \cup {<<k>>[i] : i \in DOMAIN <<k>>}
        BY <3>3, <3>4, SentOK
      <4> QED
        BY <3>4, <4>1 DEF New
    <3> QED
      BY <1>0, <2>1, <2>3, <3>5 DEF Takes, Open, Evolves, ClientsTyped, k
  <2> QED
    BY <2>2, <2>3
<1>9. ASSUME NEW r \in Socks, EndCall(r)  PROVE Evolves(s)
  <2>1. HangUp(phone[r]).phone = Idle
    BY DEF HangUp
  <2> QED
    BY <1>0, <1>6, <1>9, <2>1 DEF EndCall, Client, ClientsTyped
<1>10. ASSUME NEW r \in Socks, RingOut(r)  PROVE Evolves(s)
  <2>1. /\ phone' = [phone EXCEPT ![r] = Idle] /\ UNCHANGED sock
        /\ outbox' = [outbox EXCEPT ![r] = @ \o <<>>]
    BY <1>10 DEF RingOut, Client
  <2>2. outbox[r] \o <<>> = outbox[r]
    BY <1>0 DEF ClientsTyped
  <2>3. outbox'[s] = outbox[s]
    BY <1>0, <2>1, <2>2 DEF ClientsTyped
  <2>4. phone'[s] = phone[s] \/ phone'[s] = Idle
    BY <1>0, <2>1 DEF ClientsTyped
  <2> QED
    BY <1>1, <2>1, <2>3, <2>4, NewOK DEF Evolves, Ends
<1>11. ASSUME NEW r \in Socks, HandleAnswer(r)  PROVE Evolves(s)
  <2> DEFINE c == Head(outbox[r]).call
  <2>1. c \in Calls /\ New(s, {}) /\ UNCHANGED <<sock, table>>
    BY <1>11, CommandOK, HandledOK DEF HandleAnswer, New
  <2>2. CASE UNCHANGED phone
    BY <1>1, <2>1, <2>2
  <2>3. CASE SocketsOf(From[c]) # {} /\ Home[From[c]] = At(r)
    <3>1. PICK t \in SocketsOf(From[c]) : phone' = PhonesAnswered({t}, c)
      BY <1>11, <2>3 DEF HandleAnswer
    <3>2. c \in table => sess'[c].answered
      <4>1. ASSUME c \in table
            PROVE  sess' = [sess EXCEPT ![c].answered = TRUE,
                                        ![c].callee = IF @ = NoSock THEN r ELSE @]
        BY <1>11, <2>3, <4>1 DEF HandleAnswer, Held
      <4>2. sess[c] \in Session
        BY <1>0, <2>1 DEF SessionsTyped
      <4> HIDE DEF c
      <4> QED
        BY <1>0, <2>1, <4>1, <4>2 DEF SessionsTyped, Session
    <3>3. {t} \in SUBSET SocketsOf(From[c])
      OBVIOUS
    <3> HIDE DEF c
    <3>4. Stays(s) \/ IsAnswered(s, c)
      BY <2>1, <3>1, <3>2, <3>3, AnswersReach
    <3> QED
      BY <2>1, <3>4 DEF Evolves
  <2> QED
    BY <1>11, <2>2, <2>3 DEF HandleAnswer
<1>12. ASSUME NEW r \in Socks, HandleHangup(r)  PROVE Evolves(s)
  <2>1. New(s, {}) /\ UNCHANGED sock
    BY <1>12, HandledOK DEF HandleHangup, New
  <2>2. CASE UNCHANGED phone
    BY <1>1, <2>1, <2>2
  <2>3. ASSUME NEW S, NEW c, phone' = PhonesEnded(S, c)  PROVE Evolves(s)
    BY <2>1, <2>3, EndedOK DEF Evolves
  <2> QED
    BY <1>12, <2>2, <2>3 DEF HandleHangup
<1>13. ASSUME NEW r \in Socks, HandleHangupRemote(r)  PROVE Evolves(s)
  BY <1>1, <1>13, HandledOK DEF HandleHangupRemote, New
<1>14. ASSUME NEW m \in signals, SignalAnswer(m)  PROVE Evolves(s)
  <2>1. /\ m.call \in Calls /\ m.to = From[m.call]
        /\ UNCHANGED <<sock, outbox, table>> /\ phone' = PhonesAnswered(SocketsOf(m.to), m.call)
    BY <1>0, <1>14 DEF SessionsTyped, Signal, SignalAnswer, RolesOK, AnswersOK
  <2>2. m.call \in table => sess'[m.call].answered
    <3>1. ASSUME m.call \in table
          PROVE  sess' = [sess EXCEPT ![m.call].answered = TRUE]
      BY <1>14, <2>1, <3>1 DEF SignalAnswer, Held
    <3>2. sess[m.call] \in Session
      BY <1>0, <2>1 DEF SessionsTyped
    <3> QED
      BY <1>0, <2>1, <3>1, <3>2 DEF SessionsTyped, Session
  <2>3. Stays(s) \/ IsAnswered(s, m.call)
    BY <2>1, <2>2, AnswersReach, NewOK
  <2> QED
    BY <2>1, <2>3 DEF Evolves
<1>15. ASSUME NEW m \in signals, SignalHangup(m)  PROVE Evolves(s)
  BY <1>15, EndedOK, NewOK DEF SignalHangup, Evolves
<1>16. ASSUME NEW r \in Socks, Close(r)  PROVE Evolves(s)
  <2>1. CASE s # r
    BY <1>0, <1>1, <1>16, <2>1, NewOK DEF Close, ClientsTyped, CleanupTyped
  <2>2. CASE s = r
    <3>1. phone'[s] = Idle /\ outbox'[s] = <<>>
      BY <1>0, <1>16, <2>2 DEF Close, ClientsTyped
    <3>2. Cmds(s)' = {}
      BY <3>1, EmptySeq DEF Cmds
    <3> QED
      BY <3>1, <3>2 DEF Evolves, Ends, New
  <2> QED
    BY <2>1, <2>2
<1>17. ASSUME NEW r \in Socks, NEW c \in Calls, CleanTell(r, c)  PROVE Evolves(s)
  BY <1>17, EndedOK, NewOK DEF CleanTell, Evolves
<1>18. ASSUME NEW r \in Socks,
              CleanDone(r) \/ \E c \in Calls : CleanDrop(r, c) \/ CleanRaises(r, c)
       PROVE  Evolves(s)
  <2>1. UNCHANGED <<phone, outbox>>
    BY <1>18 DEF CleanDrop, CleanRaises, CleanDone
  <2>2. CleaningAt(r)
    BY DEF CleaningOK
  <2>3. sock[r] = "closing"
    BY <1>0, <1>18, <2>2
    DEF CleanDrop, CleanRaises, CleanDone, Ending, CleaningAt, CleanupTyped
  <2>4. \A t \in Socks \ {r} : sock'[t] = sock[t]
    BY <1>0, <1>18 DEF CleanDrop, CleanRaises, CleanDone, CleanupTyped
  <2> QED
    BY <1>1, <2>1, <2>3, <2>4, NewOK
<1>19. ASSUME NEW c \in Calls, LoseOffer(c) \/ Expire(c) \/ WindowPasses(c)
       PROVE  Evolves(s)
  BY <1>2, <1>19 DEF LoseOffer, Expire, WindowPasses
<1>20. ASSUME NEW m, LoseSignal(m)  PROVE Evolves(s)
  BY <1>2, <1>20 DEF LoseSignal
<1>21. ASSUME NEW r \in Socks, Cleanup(r)  PROVE Evolves(s)
  BY <1>17, <1>18, <1>21 DEF Cleanup
<1> HIDE DEF Evolves
<1> QED
  BY <1>3, <1>4, <1>5, <1>7, <1>8, <1>9, <1>10, <1>11, <1>12, <1>13, <1>14, <1>15, <1>16,
     <1>19, <1>20, <1>21, Steps

\* What a step does to the sessions: an invitation makes one, an answer marks one.
LEMMA PlacedStep ==
    ASSUME Base, CallerOK, Next
    PROVE  /\ placed \subseteq placed'
           /\ \A c \in placed : /\ sess'[c].caller = sess[c].caller
                                /\ sess[c].answered => sess'[c].answered
           /\ CallerOK'
<1> USE CallsAssumption
<1> DEFINE Kept == /\ \A c \in placed : /\ sess'[c].caller = sess[c].caller
                                        /\ sess[c].answered => sess'[c].answered
                   /\ placed \subseteq placed'
                   /\ CallerOK'
<1>0. SessionsTyped
  BY DEF Base
<1>1. CASE UNCHANGED <<placed, sess>>
  BY <1>1 DEF CallerOK
<1>2. ASSUME NEW s \in Socks, NEW c \in Calls, InviteLocal(s, c) \/ InviteRemote(s, c)
      PROVE  Kept
  <2>1. PICK t : sess' = [sess EXCEPT ![c] = [caller |-> s, callee |-> t, answered |-> FALSE]]
    BY <1>2 DEF InviteLocal, InviteRemote
  <2>2. c \notin placed /\ placed' = placed \cup {c} /\ Owner[s] = From[c]
    BY <1>2 DEF InviteLocal, InviteRemote, Place
  <2>3. sess'[c].caller = s /\ \A d \in placed : sess'[d] = sess[d]
    BY <1>0, <2>1, <2>2 DEF SessionsTyped
  <2> QED
    BY <2>2, <2>3 DEF CallerOK
\* Marking an answer.
<1>3. ASSUME NEW c \in Calls, NEW s \in Socks \cup {NoSock}, UNCHANGED placed,
             \/ sess' = [sess EXCEPT ![c].answered = TRUE]
             \/ sess' = [sess EXCEPT ![c].answered = TRUE,
                                     ![c].callee = IF @ = NoSock THEN s ELSE @]
      PROVE  Kept
  <2>1. /\ \A d \in Calls \ {c} : sess'[d] = sess[d]
        /\ sess'[c].caller = sess[c].caller
    BY <1>0, <1>3, MarkedOK DEF SessionsTyped
  <2>2. sess[c] \in Session
    BY <1>0 DEF SessionsTyped
  <2>3. sess'[c].answered
    BY <1>0, <1>3, <2>2 DEF SessionsTyped, Session
  <2> QED
    BY <1>0, <1>3, <2>1, <2>3 DEF CallerOK, SessionsTyped
<1>4. ASSUME NEW s \in Socks, HandleAnswer(s)  PROVE Kept
  <2>1. Head(outbox[s]).call \in Calls
    BY <1>4, CommandOK DEF HandleAnswer
  <2> QED
    BY <1>1, <1>3, <1>4, <2>1 DEF HandleAnswer
<1>5. ASSUME NEW m \in signals, SignalAnswer(m)  PROVE Kept
  <2>1. m.call \in Calls
    BY <1>0 DEF SessionsTyped, Signal
  <2> QED
    BY <1>1, <1>3, <1>5, <2>1 DEF SignalAnswer
<1>6. ASSUME NEW c \in Calls,
             \/ HandleOffer(c) \/ LoseOffer(c) \/ Unavailable(c)
             \/ Expire(c) \/ WindowPasses(c)
      PROVE  Kept
  BY <1>1, <1>6 DEF HandleOffer, LoseOffer, Unavailable, Expire, WindowPasses
<1>7. ASSUME NEW s \in Socks,
             \/ PickUp(s) \/ EndCall(s) \/ RingOut(s)
             \/ HandleHangup(s) \/ HandleHangupRemote(s) \/ Close(s)
      PROVE  Kept
  BY <1>1, <1>7
  DEF PickUp, EndCall, RingOut, Client, HandleHangup, HandleHangupRemote, Close
<1>8. ASSUME NEW m, SignalHangup(m) \/ LoseSignal(m)  PROVE Kept
  BY <1>1, <1>8 DEF SignalHangup, LoseSignal
<1>9. ASSUME NEW s \in Socks, Cleanup(s)  PROVE Kept
  BY <1>1, <1>9 DEF Cleanup, CleanTell, CleanDrop, CleanRaises, CleanDone
<1> HIDE DEF Kept
<1>10. Kept
  BY <1>2, <1>4, <1>5, <1>6, <1>7, <1>8, <1>9, Steps
<1> QED
  BY <1>10 DEF Kept

\* Only calls that were placed are offered, and an answer goes to the caller.
LEMMA OffersStep ==
    ASSUME Base, RolesOK, Next
    PROVE  OffersOK' /\ AnswersOK'
<1> USE CallsAssumption
<1>0. SessionsTyped /\ OffersOK /\ AnswersOK
  BY DEF Base, RolesOK
<1>1. CASE /\ placed \subseteq placed' /\ signals' \subseteq signals
           /\ post' = post \/ \E c \in Calls : \E v : v # "sent" /\ post' = [post EXCEPT ![c] = v]
  BY <1>0, <1>1 DEF SessionsTyped, OffersOK, AnswersOK
<1>2. ASSUME NEW g, NEW kind, NEW c, NEW u, UNCHANGED <<placed, post>>,
             signals' = Signalled(g, kind, c, u), kind = "answer" => u = From[c]
      PROVE  OffersOK' /\ AnswersOK'
  BY <1>0, <1>2 DEF OffersOK, AnswersOK, Signalled
<1>3. ASSUME NEW s \in Socks, NEW c \in Calls, InviteLocal(s, c)
      PROVE  OffersOK' /\ AnswersOK'
  BY <1>1, <1>3 DEF InviteLocal, Place
<1>4. ASSUME NEW s \in Socks, NEW c \in Calls, InviteRemote(s, c)
      PROVE  OffersOK' /\ AnswersOK'
  <2>1. /\ placed' = placed \cup {c} /\ post' = [post EXCEPT ![c] = "sent"]
        /\ UNCHANGED signals
    BY <1>4 DEF InviteRemote, Place
  <2> QED
    BY <1>0, <2>1 DEF SessionsTyped, OffersOK, AnswersOK
<1>5. ASSUME NEW c \in Calls,
             \/ HandleOffer(c) \/ LoseOffer(c) \/ Unavailable(c)
             \/ Expire(c) \/ WindowPasses(c)
      PROVE  OffersOK' /\ AnswersOK'
  <2>1. UNCHANGED <<placed, signals>>
    BY <1>5 DEF HandleOffer, LoseOffer, Unavailable, Expire, WindowPasses
  <2>2. post' = post \/ post' = [post EXCEPT ![c] = "none"]
                     \/ post' = [post EXCEPT ![c] = "failed"]
    BY <1>5 DEF HandleOffer, LoseOffer, Unavailable, Expire, WindowPasses
  <2> QED
    BY <1>1, <2>1, <2>2
<1>6. ASSUME NEW s \in Socks,
             \/ PickUp(s) \/ EndCall(s) \/ RingOut(s) \/ Close(s)
      PROVE  OffersOK' /\ AnswersOK'
  BY <1>1, <1>6 DEF PickUp, EndCall, RingOut, Client, Close
<1>7. ASSUME NEW s \in Socks, HandleAnswer(s)  PROVE OffersOK' /\ AnswersOK'
  BY <1>1, <1>2, <1>7 DEF HandleAnswer
<1>8. ASSUME NEW s \in Socks, HandleHangup(s) \/ HandleHangupRemote(s)
      PROVE  OffersOK' /\ AnswersOK'
  <2>1. UNCHANGED <<placed, post>>
    BY <1>8 DEF HandleHangup, HandleHangupRemote
  <2>2. signals' = signals \/ \E c, u : signals' = Signalled(At(s), "hangup", c, u)
    BY <1>8 DEF HandleHangup, HandleHangupRemote
  <2> QED
    BY <1>1, <1>2, <2>1, <2>2
<1>9. ASSUME NEW m, SignalAnswer(m) \/ SignalHangup(m) \/ LoseSignal(m)
      PROVE  OffersOK' /\ AnswersOK'
  BY <1>1, <1>9 DEF SignalAnswer, SignalHangup, LoseSignal, Arrives
<1>10. ASSUME NEW s \in Socks, Cleanup(s)  PROVE OffersOK' /\ AnswersOK'
  BY <1>1, <1>10 DEF Cleanup, CleanTell, CleanDrop, CleanRaises, CleanDone
<1> QED
  BY <1>3, <1>4, <1>5, <1>6, <1>7, <1>8, <1>9, <1>10, Steps

LEMMA RolesStep ==
    ASSUME Base, RolesOK, CleaningOK, Next
    PROVE  RolesOK'
<1> USE CallsAssumption
<1>1. CallerOK' /\ OffersOK' /\ AnswersOK'
  BY PlacedStep, OffersStep DEF RolesOK
<1> SUFFICES ASSUME NEW s \in Socks  PROVE PhoneOK(s)' /\ CommandsOK(s)'
  BY <1>1 DEF RolesOK
<1>2. /\ phone[s] \in Phones /\ PhoneOK(s) /\ CommandsOK(s) /\ SessionsTyped
      /\ placed' \subseteq Calls
  BY BaseStep DEF Base, ClientsTyped, SessionsTyped, RolesOK
<1>3. \A c : InIt(s, c) => InIt(s, c)'
  BY PlacedStep DEF InIt, RolesOK
<1>4. /\ \A st, c : In(st, c).state = st /\ In(st, c).call = c
      /\ Idle.call = NoCall /\ Idle.state = "idle" /\ \A c : Hangup(c).call = c
  BY DEF In, Idle, Hangup
<1>5. /\ \A c : phone[s].call = c /\ c # NoCall => InIt(s, c)'
      /\ phone[s] # Idle => phone[s].call # NoCall
      /\ phone[s].state # "idle" => phone[s].call # NoCall
  BY <1>2, <1>3, <1>4 DEF PhoneOK, Phones, InCall
<1>6. ASSUME NEW N, New(s, N), \A k \in N : InIt(s, k.call)'
      PROVE  CommandsOK(s)'
  BY <1>2, <1>3, <1>6 DEF New, CommandsOK
<1>7. \A c \in placed : sess'[c].caller = sess[c].caller
  BY PlacedStep DEF RolesOK
<1>8. CASE Stays(s)
  <2>1. /\ sock'[s] # "on" => phone'[s] = Idle
        /\ phone'[s] = phone[s]
    BY <1>2, <1>8 DEF Stays, PhoneOK
  <2>2. phone[s].state \in {"calling", "ringing"} => phone[s].call \in placed
    BY <1>2, <1>5 DEF PhoneOK, InIt
  <2>3. PhoneOK(s)'
    BY <1>2, <1>5, <1>7, <2>1, <2>2 DEF PhoneOK
  <2>4. CommandsOK(s)'
    BY <1>6, <1>8 DEF Stays
  <2> QED
    BY <2>3, <2>4
<1>9. CASE Ends(s)
  BY <1>2, <1>4, <1>5, <1>6, <1>9 DEF Ends, PhoneOK
<1>10. CASE Takes(s)
  BY <1>2, <1>4, <1>5, <1>6, <1>10 DEF Takes, Open, PhoneOK
<1>11. ASSUME NEW c \in Calls, Rings(s, c)  PROVE PhoneOK(s)' /\ CommandsOK(s)'
  <2>1. InIt(s, c)'
    BY <1>11 DEF Rings, InIt
  <2>2. CASE phone'[s] = phone[s] /\ New(s, {Hangup(c)})
    BY <1>2, <1>4, <1>5, <1>6, <1>7, <1>11, <2>1, <2>2 DEF Rings, Open, PhoneOK, InIt
  <2>3. ASSUME phone'[s] = In("ringing", c), NEW N, New(s, N),
               N = {} \/ (phone[s].state = "calling" /\ N = {Hangup(phone[s].call)})
        PROVE  PhoneOK(s)' /\ CommandsOK(s)'
    <3>1. sock'[s] = "on" /\ Owner[s] = To[c]
      BY <1>11 DEF Rings, Open
    <3>2. phone'[s].state = "ringing" /\ phone'[s].call = c
      BY <1>4, <2>3
    <3>3. PhoneOK(s)'
      BY <2>1, <3>1, <3>2 DEF PhoneOK
    <3>4. CommandsOK(s)'
      BY <1>4, <1>5, <1>6, <2>3
    <3> QED
      BY <3>3, <3>4
  <2> QED
    BY <1>11, <2>2, <2>3 DEF Rings
<1>12. ASSUME NEW c \in Calls, Dials(s, c)  PROVE PhoneOK(s)' /\ CommandsOK(s)'
  <2>1. c \in placed'
    BY <1>12, BaseStep DEF Dials, Base, SessionsTyped
  <2> QED
    BY <1>4, <1>6, <1>12, <2>1 DEF Dials, Open, PhoneOK, InIt
<1>13. ASSUME NEW c \in Calls, IsAnswered(s, c)  PROVE PhoneOK(s)' /\ CommandsOK(s)'
  BY <1>2, <1>4, <1>5, <1>6, <1>13 DEF IsAnswered, Open, PhoneOK
<1>14. Evolves(s)
  BY EvolvesStep
<1> QED
  BY <1>8, <1>9, <1>10, <1>11, <1>12, <1>13, <1>14 DEF Evolves
\* No two calls have the same caller and callee.
OneCallAPair == \A c, d \in Calls : From[c] = From[d] /\ To[c] = To[d] => c = d

\* While the caller's client is in a call its session is there, nobody is about
\* to end it, and it is marked when the client talks.
OnLine(c) == phone[sess[c].caller].call = c
LineOK ==
    \A c \in placed : OnLine(c) =>
        /\ c \in table
        /\ phone[sess[c].caller].state = "talking" => sess[c].answered
        /\ \A k \in Cmds(sess[c].caller) : k.cmd = "hangup" => k.call # c
        /\ \A s \in Socks : at[s] # c

\* What a cleanup tells the other party of.
LEMMA TellStep ==
    ASSUME CleanupTyped, Next, NEW s \in Socks, NEW c \in Calls, at'[s] = c
    PROVE  at[s] = c \/ CleanTell(s, c)
<1> USE CallsAssumption
<1>1. CASE UNCHANGED at
  BY <1>1
<1>2. ASSUME NEW r \in Socks, NEW d \in Calls, CleanTell(r, d)
      PROVE  at[s] = c \/ CleanTell(s, c)
  <2>1. at' = [at EXCEPT ![r] = d]
    BY <1>2 DEF CleanTell
  <2>2. CASE s = r
    <3>1. c = d
      BY <2>1, <2>2 DEF CleanupTyped
    <3> QED
      BY <1>2, <2>2, <3>1
  <2>3. CASE s # r
    BY <2>1, <2>3 DEF CleanupTyped
  <2> QED
    BY <2>2, <2>3
<1>3. ASSUME NEW r \in Socks, NEW d \in Calls, CleanDrop(r, d) \/ CleanRaises(r, d)
      PROVE  at[s] = c
  <2>1. at' = [at EXCEPT ![r] = NoCall]
    BY <1>3 DEF CleanDrop, CleanRaises
  <2> QED
    BY <2>1 DEF CleanupTyped
<1>4. ASSUME NEW r \in Socks, Cleanup(r)  PROVE at[s] = c \/ CleanTell(s, c)
  <2>1. CASE CleanDone(r)
    BY <1>1, <2>1 DEF CleanDone
  <2> QED
    BY <1>2, <1>3, <1>4, <2>1 DEF Cleanup
<1>5. ASSUME NEW r \in Socks,
             \/ PickUp(r) \/ EndCall(r) \/ RingOut(r) \/ Close(r)
             \/ HandleAnswer(r) \/ HandleHangup(r) \/ HandleHangupRemote(r)
      PROVE  at[s] = c
  BY <1>1, <1>5
  DEF PickUp, EndCall, RingOut, Client, Close, HandleAnswer, HandleHangup, HandleHangupRemote
<1>6. ASSUME NEW r \in Socks, NEW d \in Calls, InviteLocal(r, d) \/ InviteRemote(r, d)
      PROVE  at[s] = c
  BY <1>1, <1>6 DEF InviteLocal, InviteRemote, Place
<1>7. ASSUME NEW d \in Calls,
             \/ HandleOffer(d) \/ LoseOffer(d) \/ Unavailable(d)
             \/ Expire(d) \/ WindowPasses(d)
      PROVE  at[s] = c
  BY <1>1, <1>7 DEF HandleOffer, LoseOffer, Unavailable, Expire, WindowPasses
<1>8. ASSUME NEW m, SignalAnswer(m) \/ SignalHangup(m) \/ LoseSignal(m)
      PROVE  at[s] = c
  BY <1>1, <1>8 DEF SignalAnswer, SignalHangup, LoseSignal
<1> QED
  BY <1>4, <1>5, <1>6, <1>7, <1>8, Steps

\* Whoever deletes a session has ended the call of the caller's client, or finds
\* that it has ended.
LEMMA DeletedStep ==
    ASSUME Base, RolesOK, CleaningOK, LineOK, Next, NEW c \in placed, OnLine(c),
           phone'[sess[c].caller].call = c
    PROVE  c \in table'
<1> USE CallsAssumption
<1> DEFINE r == sess[c].caller
<1>0. /\ ClientsTyped /\ SessionsTyped /\ c \in Calls /\ c # NoCall
      /\ r \in Socks /\ Owner[r] = From[c] /\ PhoneOK(r) /\ From[c] # To[c]
      /\ c \in table
  BY DEF Base, SessionsTyped, RolesOK, CallerOK, LineOK
<1>1. sock[r] = "on" /\ phone[r].call = c /\ phone[r] # Idle /\ phone'[r] # Idle
  BY <1>0 DEF PhoneOK, OnLine, Idle
<1>2. ASSUME NEW S, phone' = PhonesEnded(S, c), r \in S  PROVE FALSE
  BY <1>0, <1>1, <1>2 DEF PhonesEnded, OnHangup
<1>3. CASE table \subseteq table'
  BY <1>0, <1>3
<1>4. ASSUME Unavailable(c)  PROVE FALSE
  <2>1. phone' = [phone EXCEPT ![r] = HangUp(@).phone]
    BY <1>1, <1>4 DEF Unavailable
  <2> HIDE DEF r
  <2>2. phone'[r] = Idle
    BY <1>0, <2>1 DEF ClientsTyped, HangUp
  <2> QED
    BY <1>1, <2>2
<1>5. ASSUME Expire(c)  PROVE FALSE
  <2>1. /\ ~sess[c].answered
        /\ phone[r] # In("calling", c)
    BY <1>0, <1>5 DEF Expire, GaveUp
  <2>2. phone[r].state # "talking"
    BY <2>1 DEF LineOK, OnLine
  <2>3. phone[r].state # "ringing"
    BY <1>0, <1>1 DEF PhoneOK
  <2> HIDE DEF r
  <2>4. phone[r] \in InCall
    BY <1>0, <1>1 DEF ClientsTyped, Phones
  <2>5. /\ phone[r] = [state |-> phone[r].state, call |-> c]
        /\ phone[r].state \in PhoneState \ {"idle"}
    BY <1>1, <2>4 DEF InCall
  <2>6. phone[r].state = "calling"
    BY <2>2, <2>3, <2>5 DEF PhoneState
  <2> QED
    BY <2>1, <2>5, <2>6 DEF In
<1>6. ASSUME NEW s \in Socks, HandleHangup(s), Head(outbox[s]).call = c  PROVE FALSE
  <2>1. Head(outbox[s]) \in Cmds(s) /\ Head(outbox[s]).cmd = "hangup"
    BY <1>6, HandledOK DEF HandleHangup
  <2>2. s # r
    BY <1>6, <2>1 DEF LineOK
  <2>3. PhonesEnded({r}, c) = phone'
    BY <1>0, <1>1, <1>6, <2>2 DEF HandleHangup
  <2> QED
    BY <1>2, <2>3
<1>7. ASSUME NEW m \in signals, SignalHangup(m), c \notin table'  PROVE FALSE
  <2>1. m.call = c /\ m.to = From[c] /\ phone' = PhonesEnded(SocketsOf(m.to), m.call)
    BY <1>0, <1>7 DEF SignalHangup
  <2>2. r \in SocketsOf(m.to)
    BY <1>0, <1>1, <2>1 DEF SocketsOf
  <2> QED
    BY <1>2, <2>1, <2>2
<1>8. ASSUME NEW s \in Socks, CleanDrop(s, c)  PROVE FALSE
  <2>1. CleaningAt(s) /\ NoSock \notin Socks
    BY DEF CleaningOK
  <2>2. at[s] # c
    BY DEF LineOK
  <2>3. c \in cleaning[s] /\ Peer(s, c) = NoSock
    BY <1>8, <2>2 DEF CleanDrop, Ending
  <2>4. r = s
    BY <1>0, <2>1, <2>3 DEF Peer
  <2>5. sock[s] = "closing"
    BY <2>1, <2>3 DEF CleaningAt
  <2> QED
    BY <1>1, <2>4, <2>5
<1> HIDE DEF r
<1>9. ASSUME NEW s \in Socks, NEW d \in Calls, InviteLocal(s, d) \/ InviteRemote(s, d)
      PROVE  table \subseteq table'
  BY <1>9 DEF InviteLocal, InviteRemote
<1>10. ASSUME NEW d \in Calls,
              \/ HandleOffer(d) \/ LoseOffer(d) \/ Unavailable(d)
              \/ Expire(d) \/ WindowPasses(d)
       PROVE  c \in table'
  <2>1. CASE HandleOffer(d) \/ LoseOffer(d) \/ WindowPasses(d)
    BY <1>0, <2>1 DEF HandleOffer, LoseOffer, WindowPasses
  <2>2. CASE Unavailable(d) \/ Expire(d)
    <3>1. table' = table \ {d}
      BY <2>2 DEF Unavailable, Expire
    <3>2. d # c
      BY <1>4, <1>5, <2>2
    <3> QED
      BY <1>0, <3>1, <3>2
  <2> QED
    BY <1>10, <2>1, <2>2
<1>11. ASSUME NEW s \in Socks,
              \/ PickUp(s) \/ EndCall(s) \/ RingOut(s) \/ Close(s)
              \/ HandleAnswer(s) \/ HandleHangupRemote(s)
       PROVE  UNCHANGED table
  BY <1>11
  DEF PickUp, EndCall, RingOut, Client, Close, HandleAnswer, HandleHangupRemote
<1>12. ASSUME NEW s \in Socks, HandleHangup(s)  PROVE c \in table'
  <2>1. table' = table \ {Head(outbox[s]).call}
    BY <1>12 DEF HandleHangup
  <2> QED
    BY <1>0, <1>6, <1>12, <2>1
<1>13. ASSUME NEW m \in signals, SignalAnswer(m) \/ SignalHangup(m) \/ LoseSignal(m)
       PROVE  c \in table'
  <2>1. CASE SignalAnswer(m) \/ LoseSignal(m)
    BY <1>0, <2>1 DEF SignalAnswer, LoseSignal
  <2> QED
    BY <1>7, <1>13, <2>1
<1>14. ASSUME NEW s \in Socks, Cleanup(s)  PROVE c \in table'
  <2>1. ASSUME NEW d \in Calls, CleanDrop(s, d)  PROVE c \in table'
    <3>1. table' = table \ {d} /\ d # c
      BY <1>8, <2>1 DEF CleanDrop
    <3> QED
      BY <1>0, <3>1
  <2>2. ASSUME NEW d \in Calls, CleanTell(s, d) \/ CleanRaises(s, d) \/ CleanDone(s)
        PROVE  c \in table'
    BY <1>0, <2>2 DEF CleanTell, CleanRaises, CleanDone
  <2> QED
    BY <1>0, <1>14, <2>1, <2>2 DEF Cleanup
<1> QED
  BY <1>0, <1>9, <1>10, <1>11, <1>12, <1>13, <1>14, Steps

LEMMA LineStep ==
    ASSUME OneCallAPair, Base, RolesOK, CleaningOK, LineOK, Next
    PROVE  LineOK'
<1> USE CallsAssumption
<1> SUFFICES ASSUME NEW c \in placed', NEW r, r = sess'[c].caller, phone'[r].call = c
             PROVE  /\ c \in table'
                    /\ phone'[r].state = "talking" => sess'[c].answered
                    /\ \A k \in Cmds(r)' : k.cmd = "hangup" => k.call # c
                    /\ \A s \in Socks : at'[s] # c
  BY DEF LineOK, OnLine, Cmds
<1>0. /\ CleanupTyped /\ SessionsTyped /\ c \in Calls /\ c # NoCall
      /\ r \in Socks /\ Owner[r] = From[c] /\ From[c] # To[c]
      /\ PhoneOK(r) /\ CommandsOK(r) /\ Evolves(r) /\ phone'[r].call = c
  BY BaseStep, RolesStep, EvolvesStep
  DEF Base, SessionsTyped, RolesOK, CallerOK, OnLine
<1>1. /\ \A d \in placed : /\ sess'[d].caller = sess[d].caller
                           /\ sess[d].answered => sess'[d].answered
      /\ placed \subseteq placed'
  BY PlacedStep DEF RolesOK
<1>2. /\ \A st, d : In(st, d).state = st /\ In(st, d).call = d
      /\ Idle.call = NoCall /\ \A d : Hangup(d).call = d
  BY DEF In, Idle, Hangup
<1>3. CASE c \notin placed
  <2>1. phone[r].call # c
    BY <1>0, <1>3 DEF PhoneOK, InIt
  <2>2. \A d \in Calls : ~Rings(r, d) /\ ~IsAnswered(r, d)
    BY <1>0, <1>2, <2>1 DEF Rings, IsAnswered
  <2>3. ~Stays(r) /\ ~Ends(r) /\ ~Takes(r)
    BY <1>0, <1>2, <2>1 DEF Stays, Ends, Takes
  <2>4. PICK d \in Calls : Dials(r, d)
    BY <1>0, <2>2, <2>3 DEF Evolves
  <2>5. Dials(r, c)
    BY <1>0, <1>2, <2>4 DEF Dials
  <2>6. c \in table' /\ phone'[r].state = "calling" /\ Cmds(r)' \subseteq Cmds(r)
    BY <1>2, <2>5 DEF Dials, New
  <2>7. \A k \in Cmds(r)' : k.call # c
    BY <1>0, <1>3, <2>6 DEF CommandsOK, InIt
  <2>8. \A s \in Socks : at'[s] # c
    <3>1. \A s \in Socks : at[s] # c /\ c \notin cleaning[s]
      BY <1>0, <1>3 DEF CleaningOK, CleaningAt
    <3> QED
      BY <1>0, <3>1, TellStep DEF CleanTell
  <2> QED
    BY <2>6, <2>7, <2>8
<1>4. CASE c \in placed
  <2>1. r = sess[c].caller
    BY <1>1, <1>4
  <2>2. ~Ends(r) /\ ~Takes(r) /\ \A d \in Calls : ~Dials(r, d)
    BY <1>0, <1>2, <1>4 DEF Ends, Takes, Dials, PhoneOK
  <2>3. \A d \in Calls : Rings(r, d) =>
           phone'[r] = phone[r] /\ d # c /\ New(r, {Hangup(d)})
    BY <1>0, <1>2 DEF Rings
  <2>4. PICK d \in Calls : \/ Stays(r) \/ IsAnswered(r, d)
                           \/ Rings(r, d)
    BY <1>0, <2>2 DEF Evolves
  <2>5. OnLine(c)
    <3>1. phone'[r] = phone[r] \/ phone'[r] = In("talking", phone[r].call)
      BY <2>3, <2>4 DEF Stays, IsAnswered
    <3>2. In("talking", phone[r].call).call = phone[r].call
      BY <1>2
    <3>3. phone[r].call = c
      BY <1>0, <3>1, <3>2
    <3> QED
      BY <2>1, <3>3 DEF OnLine
  <2>6. /\ c \in table
        /\ phone[r].state = "talking" => sess[c].answered
        /\ \A k \in Cmds(r) : k.cmd = "hangup" => k.call # c
        /\ \A s \in Socks : at[s] # c
    BY <1>4, <2>1, <2>5 DEF LineOK
  <2>7. c \in table'
    BY <1>0, <1>4, <2>1, <2>5, DeletedStep
  <2>8. phone'[r].state = "talking" => sess'[c].answered
    <3>1. CASE phone'[r] = phone[r]
      BY <1>1, <1>4, <2>6, <3>1
    <3>2. CASE IsAnswered(r, d)
      <4>1. From[c] = From[d] /\ To[c] = To[d]
        BY <1>0, <2>1, <2>5, <3>2 DEF IsAnswered, OnLine
      <4>2. c = d
        BY <1>0, <4>1 DEF OneCallAPair
      <4> QED
        BY <2>6, <3>2, <4>2 DEF IsAnswered
    <3> QED
      BY <2>3, <2>4, <3>1, <3>2 DEF Stays
  <2>9. \A k \in Cmds(r)' : k.cmd = "hangup" => k.call # c
    <3>1. New(r, {}) \/ (New(r, {Hangup(d)}) /\ d # c)
      BY <2>3, <2>4 DEF Stays, IsAnswered
    <3> QED
      BY <1>2, <2>6, <3>1 DEF New
  <2>10. ASSUME NEW s \in Socks, at'[s] = c  PROVE FALSE
    <3>1. CleanTell(s, c)
      BY <1>0, <2>6, <2>10, TellStep
    <3>2. sock[r] = "on" /\ sock[s] = "closing"
      BY <1>0, <1>2, <2>1, <2>5, <3>1 DEF PhoneOK, OnLine, CleanTell
    <3>3. Peer(s, c) = r
      BY <2>1, <3>2 DEF Peer
    <3>4. phone' = PhonesEnded({t \in {r} : sock[t] = "on"}, c)
      BY <3>1, <3>3 DEF CleanTell
    <3>5. phone'[r] = OnHangup(phone[r], c)
      BY <1>0, <3>2, <3>4 DEF PhonesEnded
    <3> QED
      BY <1>0, <1>2, <2>1, <2>5, <3>5 DEF OnHangup, OnLine
  <2> QED
    BY <2>7, <2>8, <2>9, <2>10
<1> QED
  BY <1>3, <1>4

\* Two people who talk have a session at the caller's gateway: their call did not
\* ring out under them, and the offer's late failure did not end it, whatever is
\* lost or overtaken.  It needs that no two calls have the same caller and callee:
\* a client takes an answer for that of the call it is placing to the callee.
THEOREM TalkersHaveSession ==
    ASSUME OneCallAPair
    PROVE  Spec => []TalkHasSession
<1> DEFINE Inv == Base /\ SessionsAtHome /\ CleaningOK /\ RolesOK /\ LineOK
<1>1. Init => Inv
  <2>1. ASSUME Init  PROVE SessionsAtHome /\ CleaningOK /\ LineOK
    BY <2>1 DEF Init, SessionsAtHome, CleaningOK, CleaningAt, LineOK
  <2>2. ASSUME Init  PROVE RolesOK
    <3>1. \A s \in Socks : Cmds(s) = {}
      BY <2>2, EmptySeq DEF Init, Cmds
    <3>2. \A s \in Socks : PhoneOK(s) /\ CommandsOK(s)
      BY <2>2, <3>1 DEF Init, PhoneOK, CommandsOK, Idle
    <3> QED
      BY <2>2, <3>2 DEF Init, RolesOK, CallerOK, OffersOK, AnswersOK
  <2> QED
    BY <2>1, <2>2, BaseInit
<1>2. Inv /\ [Next]_vars => Inv'
  <2>1. ASSUME RolesOK, LineOK, UNCHANGED vars  PROVE RolesOK' /\ LineOK'
    BY <2>1 DEF vars, RolesOK, CallerOK, OffersOK, AnswersOK, PhoneOK, CommandsOK, Cmds,
                InIt, LineOK, OnLine
  <2> QED
    BY <2>1, BaseStep, AtHomeStep, CleaningStep, RolesStep, LineStep
<1>3. Inv => TalkHasSession
  <2> SUFFICES ASSUME Inv, NEW c \in Calls, Talks(From[c], c)
               PROVE  c \in table
    BY DEF TalkHasSession
  <2>1. PICK s \in SocketsOf(From[c]) : phone[s] = In("talking", c)
    BY DEF Talks
  <2>2. s \in Socks /\ Owner[s] = From[c] /\ PhoneOK(s) /\ From[c] # To[c] /\ c # NoCall
    BY CallsAssumption DEF SocketsOf, RolesOK
  <2>3. phone[s].call = c
    BY <2>1 DEF In
  <2>4. c \in placed /\ sess[c].caller = s
    BY <2>2, <2>3 DEF PhoneOK, InIt
  <2> QED
    BY <2>3, <2>4 DEF LineOK, OnLine
<1> QED
  BY <1>1, <1>2, <1>3, PTL DEF Spec
=============================================================================
