------------------------ MODULE RoomMessages_proofs ------------------------
(***************************************************************************)
(* A deleted message stays deleted, a refused one stays out, and one that  *)
(* is neither arrives unless its row was a day old first, for any          *)
(* gateways, members and messages and any number of losses and retries;    *)
(* and while no POST is lost, the gateways end up with the same histories. *)
(* Four invariants carry this: IInv (what a gateway holds, it has          *)
(* recorded, and the host has taken), WrittenOK (what is on its way, its   *)
(* author wrote), OnItsWay (what a gateway lacks is still to be posted to  *)
(* it, or expired) and FlowOK (the relays on a link turn what the gateway  *)
(* at its end has into what the one that sends them has).                  *)
(***************************************************************************)
EXTENDS RoomMessages, TLAPS

\* What the proofs need of the types.
Types ==
    /\ row \in [Gateways -> [Msgs -> Absent..MaxEdits]]
    /\ gone \in [Gateways -> SUBSET Msgs]
    /\ seen \in [Gateways -> SUBSET Msgs]
    /\ refused \in SUBSET Msgs

\* The messages the host has taken.
Taken == seen[Host] \ refused

\* Only the author changes a message, and only the owner pins and mutes.
Signed(r) ==
    /\ r.kind \in {"message", "edit", "delete"} => Author[r.m] = r.by
    /\ r.kind \in {"pin", "unpin", "mute", "unmute"} => r.by = Owner

\* A relay that may travel on link l: it comes from the gateway of its member
\* or is passed on by the host, and a message the host passes on is one that
\* the host has taken (T).
Proper(l, T) ==
    {r \in Relay :
        /\ Signed(r)
        /\ l[2] # Home[r.by] /\ l[1] \in {Host, Home[r.by]}
        /\ r.kind = "message" /\ l[1] = Host /\ Home[r.by] # Host => r.m \in T}

LinksOK(x, T) == x \in [Links -> Seq(Relay)] /\ \A l \in Links : x[l] \in Seq(Proper(l, T))

WireOK == LinksOK(link, Taken) /\ LinksOK(queued, Taken)

\* A gateway has had a message of another gateway only if it has recorded
\* its id, and the host has taken it.
Held ==
    \A g \in Gateways, m \in Msgs :
        g # Home[Author[m]] /\ (row[g][m] # Absent \/ m \in gone[g]) =>
            /\ m \in seen[g]
            /\ Home[Author[m]] # Host => m \in seen[Host] \ refused

RefusedIsSeen == \A m \in refused : m \in seen[Host] /\ Home[Author[m]] # Host

Tables == Types /\ Held /\ RefusedIsSeen /\ DeletedStaysDeleted

\* The inductive invariant.
IInv == Tables /\ WireOK

-----------------------------------------------------------------------------
(* Links, relays and sequences.                                            *)

LEMMA LinkFacts ==
  ASSUME NEW l \in Links
  PROVE  l[1] \in Gateways /\ l[2] \in Gateways /\ l[1] # l[2]
  BY RoomAssumption DEF Links, Mirrors

LEMMA RelayFacts ==
  ASSUME NEW r \in Relay
  PROVE  /\ r.by \in Users
         /\ r.kind \in {"message", "delete", "edit"} => r.m \in Msgs
         /\ r.kind = "edit" => r.v \in 0..MaxEdits
  BY RoomAssumption DEF Relay

\* A sequence over a set is one over any larger set.
LEMMA SeqWider ==
  ASSUME NEW S, NEW T, S \subseteq T, NEW s \in Seq(S)
  PROVE  s \in Seq(T)
  OBVIOUS

LEMMA SeqAppend ==
  ASSUME NEW S, NEW s \in Seq(S), NEW e \in S
  PROVE  Append(s, e) \in Seq(S)
  OBVIOUS

LEMMA SeqParts ==
  ASSUME NEW S, NEW s \in Seq(S), s # <<>>
  PROVE  Head(s) \in S /\ Tail(s) \in Seq(S)
  OBVIOUS

LEMMA SeqWithout ==
  ASSUME NEW S, NEW s \in Seq(S), NEW i \in DOMAIN s
  PROVE  s[i] \in S /\ RemoveAt(s, i) \in Seq(S)
<1>1. SubSeq(s, 1, i - 1) \in Seq(S)
  OBVIOUS
<1>2. SubSeq(s, i + 1, Len(s)) \in Seq(S)
  OBVIOUS
<1> QED BY <1>1, <1>2 DEF RemoveAt

\* What is proper stays proper while the host takes more.
LEMMA WireGrows ==
  ASSUME NEW T, NEW U, T \subseteq U, NEW x, LinksOK(x, T)
  PROVE  LinksOK(x, U)
<1>1. \A l \in Links : Proper(l, T) \subseteq Proper(l, U)
  BY DEF Proper, Signed
<1> QED BY <1>1, SeqWider DEF LinksOK

LEMMA InitInv == Init => IInv
<1> SUFFICES ASSUME Init PROVE IInv
  OBVIOUS
<1>1. Tables
  BY RoomAssumption DEF Init, Tables, Types, Held, RefusedIsSeen, DeletedStaysDeleted, Live, Absent
<1>2. WireOK
  BY DEF Init, WireOK, LinksOK
<1> QED BY <1>1, <1>2 DEF IInv

-----------------------------------------------------------------------------
(* The tables.                                                             *)

LEMMA SendTables ==
  ASSUME Tables, NEW m \in Msgs, Send(m)
  PROVE  Tables'
<1> DEFINE g == Home[Author[m]]
<1>1. g \in Gateways
  BY RoomAssumption
<1>2. row' = [row EXCEPT ![g][m] = IF @ = Absent THEN 0 ELSE @]
      /\ gone' = gone /\ seen' = seen /\ refused' = refused
  BY DEF Send, SaveMessage, Command
<1>3. m \notin gone[g]
  BY DEF Send, Written
<1> HIDE DEF g
<1>4. \A h \in Gateways, n \in Msgs : <<h, n>> # <<g, m>> => row'[h][n] = row[h][n]
  BY <1>1, <1>2 DEF Tables, Types
<1>5. Types'
  BY <1>1, <1>2, RoomAssumption DEF Tables, Types, Absent
<1>6. Held'
  <2> SUFFICES ASSUME NEW h \in Gateways, NEW n \in Msgs, h # Home[Author[n]],
                      row'[h][n] # Absent \/ n \in gone'[h]
               PROVE  n \in seen'[h] /\ (Home[Author[n]] # Host => n \in seen'[Host] \ refused')
    BY DEF Held, Absent
  <2>1. <<h, n>> # <<g, m>>
    BY DEF g
  <2> QED BY <1>2, <1>4, <2>1 DEF Tables, Held
<1>7. RefusedIsSeen'
  BY <1>2 DEF Tables, RefusedIsSeen
<1>8. DeletedStaysDeleted'
  BY <1>2, <1>3, <1>4 DEF Tables, DeletedStaysDeleted, Live, Absent
<1> QED BY <1>5, <1>6, <1>7, <1>8 DEF Tables

\* An edit makes no row.
LEMMA UpdateTables ==
  ASSUME Tables, NEW g \in Gateways, NEW m \in Msgs, NEW v \in 0..MaxEdits,
         UpdateMessage(g, m, v), seen' = seen, refused' = refused
  PROVE  Tables'
<1>1. gone' = gone
  BY DEF UpdateMessage
<1>2. \A h \in Gateways, n \in Msgs : row[h][n] = Absent => row'[h][n] = Absent
  BY DEF UpdateMessage, Tables, Types
<1>3. Types'
  BY <1>1, RoomAssumption DEF UpdateMessage, Tables, Types, Absent
<1>4. Held'
  BY <1>1, <1>2 DEF Tables, Held, Absent
<1>5. RefusedIsSeen' /\ DeletedStaysDeleted'
  BY <1>1, <1>2 DEF Tables, RefusedIsSeen, DeletedStaysDeleted, Live, Absent
<1> QED BY <1>3, <1>4, <1>5 DEF Tables

LEMMA DeleteTables ==
  ASSUME Tables, NEW g \in Gateways, NEW m \in Msgs,
         DeleteMessage(g, m), seen' = seen, refused' = refused
  PROVE  Tables'
<1>1. row' = [row EXCEPT ![g][m] = Absent]
      /\ gone' = IF row[g][m] = Absent THEN gone ELSE [gone EXCEPT ![g] = @ \cup {m}]
  BY DEF DeleteMessage
<1>2. \A h \in Gateways, n \in Msgs :
         /\ row'[h][n] # Absent => row[h][n] # Absent /\ <<h, n>> # <<g, m>>
         /\ n \in gone'[h] => n \in gone[h] \/ (<<h, n>> = <<g, m>> /\ row[h][n] # Absent)
  BY <1>1 DEF Tables, Types
<1>3. Types'
  BY <1>1, RoomAssumption DEF Tables, Types, Absent
<1>4. Held'
  BY <1>2 DEF Tables, Held, Absent
<1>5. RefusedIsSeen'
  BY DEF Tables, RefusedIsSeen
<1>6. DeletedStaysDeleted'
  BY <1>2 DEF Tables, DeletedStaysDeleted, Live, Absent
<1> QED BY <1>3, <1>4, <1>5, <1>6 DEF Tables

\* A relayed message is saved where it had not been recorded.
LEMMA TakeTables ==
  ASSUME Tables, NEW l \in Links, NEW r \in Proper(l, Taken), r.kind = "message",
         ~Known(l[2], r), SaveMessage(l[2], r.m), RecordId(l[2], r), refused' = refused
  PROVE  Tables'
<1> DEFINE g == l[2]  m == r.m
<1>1. g \in Gateways /\ l[1] \in Gateways /\ g # l[1]
  BY LinkFacts
<1>2. m \in Msgs /\ Author[m] = r.by /\ g # Home[Author[m]]
      /\ (l[1] = Host /\ Home[Author[m]] # Host => m \in seen[Host] \ refused)
  BY RelayFacts DEF Proper, Signed, Taken
<1>3. m \notin seen[g]
  BY DEF Known
<1>4. /\ row' = [row EXCEPT ![g][m] = IF @ = Absent THEN 0 ELSE @]
      /\ gone' = gone
      /\ seen' = [seen EXCEPT ![g] = @ \cup {m}]
  BY DEF SaveMessage, RecordId
<1>5. g = Host \/ l[1] = Host
  BY DEF Links
<1> HIDE DEF g, m
<1>6. \A h \in Gateways : seen[h] \subseteq seen'[h]
  BY <1>1, <1>4 DEF Tables, Types
<1>7. m \in seen'[g]
  BY <1>1, <1>4 DEF Tables, Types
<1>8. Types'
  BY <1>1, <1>2, <1>4, RoomAssumption DEF Tables, Types, Absent
<1>9. \A h \in Gateways, n \in Msgs : <<h, n>> # <<g, m>> => row'[h][n] = row[h][n]
  BY <1>1, <1>2, <1>4 DEF Tables, Types
<1>10. m \notin refused \/ g # Host
  BY <1>3 DEF Tables, RefusedIsSeen
<1>11. Home[Author[m]] # Host => m \in seen'[Host] \ refused'
  BY <1>2, <1>5, <1>6, <1>7, <1>10, RoomAssumption
<1>12. Held'
  <2> SUFFICES ASSUME NEW h \in Gateways, NEW n \in Msgs, h # Home[Author[n]],
                      row'[h][n] # Absent \/ n \in gone'[h]
               PROVE  n \in seen'[h] /\ (Home[Author[n]] # Host => n \in seen'[Host] \ refused')
    BY DEF Held, Absent
  <2>1. CASE h = g /\ n = m
    BY <2>1, <1>7, <1>11
  <2>2. CASE <<h, n>> # <<g, m>>
    <3>1. n \in seen[h] /\ (Home[Author[n]] # Host => n \in seen[Host] \ refused)
      BY <2>2, <1>4, <1>9 DEF Tables, Held
    <3> QED BY <3>1, <1>6, RoomAssumption
  <2> QED BY <2>1, <2>2
<1>13. RefusedIsSeen'
  BY <1>6, RoomAssumption DEF Tables, RefusedIsSeen
<1>14. m \notin gone[g]
  BY <1>1, <1>2, <1>3 DEF Tables, Held
<1>15. DeletedStaysDeleted'
  BY <1>4, <1>9, <1>14 DEF Tables, DeletedStaysDeleted, Live, Absent
<1> QED BY <1>8, <1>12, <1>13, <1>15 DEF Tables

\* Reactions, pins and mutes leave the messages alone.
LEMMA OtherTables ==
  ASSUME Tables, UNCHANGED <<row, gone, seen, refused>>
  PROVE  Tables'
  BY DEF Tables, Types, Held, RefusedIsSeen, DeletedStaysDeleted, Live, Absent

LEMMA AnsweredTables ==
  ASSUME Tables, NEW l \in Links, NEW r \in Proper(l, Taken), NEW links, Answered200(l[2], r, links)
  PROVE  Tables'
<1> DEFINE g == l[2]
<1>0. g \in Gateways /\ r \in Relay
  BY LinkFacts DEF Proper, Signed
<1>1. CASE Known(g, r)
  BY <1>1, OtherTables DEF Answered200, tables, history
<1>2. CASE ~Known(g, r)
  <2>1. RecordId(g, r) /\ Handle(g, r) /\ refused' = refused
    BY <1>2 DEF Answered200
  <2>2. CASE HandleRoom(g, r)
    BY <2>1, <2>2, <1>2, TakeTables DEF HandleRoom
  <2>3. CASE HandleEdit(g, r)
    <3>1. r.m \in Msgs /\ r.v \in 0..MaxEdits /\ seen' = seen
      BY <1>0, <2>1, <2>3, RelayFacts DEF HandleEdit, RecordId
    <3> QED BY <1>0, <3>1, <2>1, <2>3, UpdateTables DEF HandleEdit
  <2>4. CASE HandleDelete(g, r)
    <3>1. r.m \in Msgs /\ seen' = seen
      BY <1>0, <2>1, <2>4, RelayFacts DEF HandleDelete, RecordId
    <3> QED BY <1>0, <3>1, <2>1, <2>4, DeleteTables DEF HandleDelete
  <2>5. CASE HandleReaction(g, r) \/ HandlePin(g, r) \/ HandleMute(g, r)
    BY <2>1, <2>5, OtherTables
       DEF HandleReaction, HandlePin, HandleMute, SetReaction, SetPin, SetMute, RecordId
  <2> QED BY <2>1, <2>2, <2>3, <2>4, <2>5 DEF Handle
<1> QED BY <1>1, <1>2

\* A message is refused where it had not been recorded, so nobody has it yet.
LEMMA RefusedTables ==
  ASSUME Tables, NEW l \in Links, NEW r \in Proper(l, Taken), NEW links, Answered403(l[2], r, links)
  PROVE  Tables'
<1> DEFINE g == l[2]
<1>0. g \in Gateways
  BY LinkFacts
<1>1. row' = row /\ gone' = gone
  BY DEF Answered403, tables
<1>2. CASE r.kind # "message"
  BY <1>1, <1>2, OtherTables DEF Answered403, RecordId
<1>3. CASE r.kind = "message"
  <2> DEFINE m == r.m
  <2>1. m \in Msgs /\ g # Home[Author[m]] /\ m \notin seen[g]
    BY <1>3, RelayFacts DEF Proper, Signed, Answered403, Known
  <2>2. /\ seen' = [seen EXCEPT ![g] = @ \cup {m}]
        /\ refused' = IF g = Host THEN refused \cup {m} ELSE refused
    BY <1>3 DEF Answered403, RecordId
  <2> HIDE DEF g, m
  <2>3. \A h \in Gateways : seen[h] \subseteq seen'[h]
    BY <1>0, <2>2 DEF Tables, Types
  <2>4. Types'
    BY <1>0, <1>1, <2>1, <2>2 DEF Tables, Types
  <2>5. \A n \in seen[Host] : n \in refused' => n \in refused
    BY <2>1, <2>2
  <2>6. Held'
    BY <1>1, <2>3, <2>5, RoomAssumption DEF Tables, Held, Absent
  <2>7. RefusedIsSeen'
    BY <1>0, <2>1, <2>2, <2>3, RoomAssumption DEF Tables, Types, RefusedIsSeen
  <2>8. DeletedStaysDeleted'
    BY <1>1 DEF Tables, DeletedStaysDeleted, Live, Absent
  <2> QED BY <2>4, <2>6, <2>7, <2>8 DEF Tables
<1> QED BY <1>2, <1>3

\* The host's set of taken messages grows.
LEMMA TakenGrows ==
  ASSUME Tables, NEW l \in Links, NEW r, NEW links,
         Answered200(l[2], r, links) \/ Answered403(l[2], r, links)
  PROVE  Taken \subseteq Taken'
<1>1. l[2] \in Gateways
  BY LinkFacts
<1>2. seen[Host] \subseteq seen'[Host]
  BY <1>1, RoomAssumption DEF Answered200, Answered403, RecordId, Tables, Types
<1>3. CASE Answered200(l[2], r, links)
  BY <1>2, <1>3 DEF Answered200, history, Taken
<1>4. CASE Answered403(l[2], r, links)
  BY <1>2, <1>4 DEF Answered403, Known, Taken
<1> QED BY <1>3, <1>4

-----------------------------------------------------------------------------
(* The wire.                                                               *)

LEMMA FanOutOK ==
  ASSUME NEW T, NEW x, LinksOK(x, T), NEW g, NEW r \in Relay, NEW except,
         \A l \in Links : l[1] = g /\ l[2] \notin except => r \in Proper(l, T)
  PROVE  LinksOK(FanOut(x, g, r, except), T)
<1> DEFINE y == FanOut(x, g, r, except)
<1>1. \A l \in Links :
         y[l] = IF l[1] = g /\ l[2] \notin except THEN Append(x[l], r) ELSE x[l]
  BY DEF FanOut
<1>2. y \in [Links -> Seq(Relay)]
  BY <1>1 DEF FanOut, LinksOK
<1> HIDE DEF y
<1>3. ASSUME NEW l \in Links PROVE y[l] \in Seq(Proper(l, T))
  <2>1. x[l] \in Seq(Proper(l, T))
    BY DEF LinksOK
  <2>2. CASE l[1] = g /\ l[2] \notin except
    <3>1. r \in Proper(l, T)
      BY <2>2
    <3>2. y[l] = Append(x[l], r)
      BY <1>1, <2>2
    <3> QED BY <2>1, <3>1, <3>2, SeqAppend
  <2>3. CASE ~(l[1] = g /\ l[2] \notin except)
    BY <1>1, <2>1, <2>3
  <2> QED BY <2>2, <2>3
<1> QED BY <1>2, <1>3 DEF LinksOK, y

\* A relay of a member's command leaves the member's gateway.
LEMMA CommandWire ==
  ASSUME Tables, WireOK, NEW g, NEW r \in Relay, Command(g, r), g = Home[r.by],
         Signed(r)
  PROVE  WireOK'
<1>1. \A l \in Links : l[1] = g => r \in Proper(l, Taken)
  BY LinkFacts DEF Proper, Signed
<1>2. LinksOK(FanOut(link, g, r, {}), Taken)
  BY <1>1, FanOutOK DEF WireOK
<1>3. link' = FanOut(link, g, r, {}) /\ queued' = queued /\ Taken' = Taken
  BY DEF Command, Taken
<1> QED BY <1>2, <1>3 DEF WireOK

LEMMA RestOK ==
  ASSUME NEW T, NEW l \in Links, NEW x, LinksOK(x, T), x[l] # <<>>
  PROVE  Head(x[l]) \in Proper(l, T) /\ LinksOK([x EXCEPT ![l] = Tail(@)], T)
<1>1. x[l] \in Seq(Proper(l, T)) /\ x[l] \in Seq(Relay)
  BY DEF LinksOK
<1>2. Head(x[l]) \in Proper(l, T) /\ Tail(x[l]) \in Seq(Proper(l, T)) /\ Tail(x[l]) \in Seq(Relay)
  BY <1>1, SeqParts
<1> QED BY <1>2 DEF LinksOK

\* What is answered 200 leaves the links proper, with what the host passes on.
LEMMA AnsweredLinks ==
  ASSUME Tables, NEW l \in Links, NEW r \in Proper(l, Taken), NEW links,
         LinksOK(links, Taken'), Answered200(l[2], r, links)
  PROVE  LinksOK(link', Taken')
<1>1. CASE Known(l[2], r)
  BY <1>1 DEF Answered200
<1>2. CASE ~Known(l[2], r)
  <2>1. Forward(links, l[2], r) /\ RecordId(l[2], r) /\ refused' = refused
    BY <1>2 DEF Answered200
  <2>2. CASE l[2] # Host
    BY <2>1, <2>2 DEF Forward
  <2>3. CASE l[2] = Host
    <3>1. r \in Relay
      BY DEF Proper, Signed
    <3>2. r.kind = "message" => r.m \in Taken'
      <4> SUFFICES ASSUME r.kind = "message" PROVE r.m \in Taken'
        OBVIOUS
      <4>1. r.m \notin seen[Host]
        BY <1>2, <2>3 DEF Known
      <4>2. r.m \notin refused
        BY <4>1 DEF Tables, RefusedIsSeen
      <4>3. r.m \in seen'[Host]
        BY <2>1, <2>3, RoomAssumption DEF RecordId, Tables, Types
      <4> QED BY <2>1, <4>2, <4>3 DEF Taken
    <3>3. \A k \in Links : k[1] = Host /\ k[2] \notin {Home[r.by]} => r \in Proper(k, Taken')
      BY <3>1, <3>2 DEF Proper, Signed
    <3>4. link' = FanOut(links, Host, r, {Home[r.by]})
      BY <2>1, <2>3 DEF Forward
    <3> HIDE DEF Taken
    <3> QED BY <3>1, <3>3, <3>4, FanOutOK
  <2> QED BY <2>2, <2>3
<1> QED BY <1>1, <1>2

LEMMA QueueOK ==
  ASSUME NEW T, NEW l \in Links, NEW r \in Proper(l, T), LinksOK(queued, T), Queue(l, r)
  PROVE  LinksOK(queued', T)
<1>1. r \in Relay
  BY DEF Proper
<1>2. queued[l] \in Seq(Proper(l, T)) /\ queued[l] \in Seq(Relay)
  BY DEF LinksOK
<1>3. Append(queued[l], r) \in Seq(Proper(l, T)) /\ Append(queued[l], r) \in Seq(Relay)
  BY <1>1, <1>2, SeqAppend
<1> QED BY <1>3 DEF LinksOK, Queue

LEMMA RowOK ==
  ASSUME NEW T, NEW l \in Links, LinksOK(queued, T), NEW i \in DOMAIN queued[l]
  PROVE  /\ queued[l][i] \in Proper(l, T)
         /\ Unqueue(l, i) => LinksOK(queued', T)
<1>1. queued[l] \in Seq(Proper(l, T)) /\ queued[l] \in Seq(Relay)
  BY DEF LinksOK
<1>2. /\ queued[l][i] \in Proper(l, T)
      /\ RemoveAt(queued[l], i) \in Seq(Proper(l, T))
      /\ RemoveAt(queued[l], i) \in Seq(Relay)
  BY <1>1, SeqWithout
<1>3. Unqueue(l, i) => LinksOK(queued', T)
  BY <1>2 DEF Unqueue, LinksOK
<1> QED BY <1>2, <1>3

-----------------------------------------------------------------------------
(* The steps.                                                              *)

\* A command keeps the tables and sends a proper relay.
LEMMA CommandStep ==
  ASSUME IInv,
         \/ \E m \in Msgs : Send(m) \/ Edit(m) \/ Delete(m)
         \/ \E m \in Msgs, u \in Users, on \in BOOLEAN : React(u, m, on)
         \/ \E m \in Msgs, on \in BOOLEAN : Pin(m, on)
         \/ \E u \in Users, on \in BOOLEAN : Mute(u, on)
  PROVE  IInv'
<1> USE DEF IInv
<1>1. ASSUME NEW m \in Msgs, Send(m) PROVE IInv'
  <2> DEFINE r == [kind |-> "message", by |-> Author[m], m |-> m]
  <2>1. r \in Relay
    BY RoomAssumption DEF Relay
  <2>2. Command(Home[Author[m]], r)
    BY <1>1 DEF Send
  <2>3. WireOK'
    BY <2>1, <2>2, CommandWire DEF Signed
  <2> QED BY <1>1, <2>3, SendTables
<1>2. ASSUME NEW m \in Msgs, Edit(m) PROVE IInv'
  <2> DEFINE g == Home[Author[m]]
             v == row[g][m] + 1
             r == [kind |-> "edit", by |-> Author[m], m |-> m, v |-> v]
  <2>1. g \in Gateways /\ row[g][m] \in Absent..MaxEdits
    BY RoomAssumption DEF Tables, Types
  <2>2. v \in 0..MaxEdits
    BY <1>2, <2>1, RoomAssumption DEF Edit, Absent
  <2>3. r \in Relay
    BY <2>2, RoomAssumption DEF Relay
  <2>4. Command(g, r) /\ UpdateMessage(g, m, v)
    BY <1>2 DEF Edit
  <2>5. WireOK'
    BY <2>3, <2>4, CommandWire DEF Signed
  <2>6. Tables'
    BY <2>1, <2>2, <2>4, UpdateTables DEF Command
  <2> QED BY <2>5, <2>6
<1>3. ASSUME NEW m \in Msgs, Delete(m) PROVE IInv'
  <2> DEFINE r == [kind |-> "delete", by |-> Author[m], m |-> m]
  <2>1. r \in Relay /\ Home[Author[m]] \in Gateways
    BY RoomAssumption DEF Relay
  <2>2. Command(Home[Author[m]], r) /\ DeleteMessage(Home[Author[m]], m)
    BY <1>3 DEF Delete
  <2>3. WireOK'
    BY <2>1, <2>2, CommandWire DEF Signed
  <2>4. Tables'
    BY <2>1, <2>2, DeleteTables DEF Command
  <2> QED BY <2>3, <2>4
<1>4. ASSUME NEW m \in Msgs, NEW u \in Users, NEW on \in BOOLEAN, React(u, m, on) PROVE IInv'
  <2> DEFINE r == [kind |-> IF on THEN "add" ELSE "remove", by |-> u, m |-> m]
  <2>1. r \in Relay
    BY DEF Relay
  <2>2. Command(Home[u], r) /\ SetReaction(Home[u], m, u, on)
    BY <1>4 DEF React
  <2>3. WireOK'
    BY <2>1, <2>2, CommandWire DEF Signed
  <2>4. Tables'
    BY <2>2, OtherTables DEF Command, SetReaction
  <2> QED BY <2>3, <2>4
<1>5. ASSUME NEW m \in Msgs, NEW on \in BOOLEAN, Pin(m, on) PROVE IInv'
  <2> DEFINE r == [kind |-> IF on THEN "pin" ELSE "unpin", by |-> Owner, m |-> m]
  <2>1. r \in Relay /\ Home[r.by] = Host
    BY RoomAssumption DEF Relay
  <2>2. Command(Host, r) /\ SetPin(Host, m, on)
    BY <1>5 DEF Pin
  <2>3. WireOK'
    BY <2>1, <2>2, CommandWire DEF Signed
  <2>4. Tables'
    BY <2>2, OtherTables DEF Command, SetPin
  <2> QED BY <2>3, <2>4
<1>6. ASSUME NEW u \in Users, NEW on \in BOOLEAN, Mute(u, on) PROVE IInv'
  <2> DEFINE r == [kind |-> IF on THEN "mute" ELSE "unmute", by |-> Owner, who |-> u]
  <2>1. r \in Relay /\ Home[r.by] = Host
    BY RoomAssumption DEF Relay
  <2>2. Command(Host, r) /\ SetMute(Host, u, on)
    BY <1>6 DEF Mute
  <2>3. WireOK'
    BY <2>1, <2>2, CommandWire DEF Signed
  <2>4. Tables'
    BY <2>2, OtherTables DEF Command, SetMute
  <2> QED BY <2>3, <2>4
<1> QED BY <1>1, <1>2, <1>3, <1>4, <1>5, <1>6

\* Both outcomes of a POST that reached the peer.
LEMMA Arrival ==
  ASSUME IInv, NEW l \in Links, NEW r \in Proper(l, Taken), NEW links, LinksOK(links, Taken),
         Answered200(l[2], r, links) \/ Answered403(l[2], r, links)
  PROVE  /\ Tables'
         /\ LinksOK(link', Taken')
         /\ LinksOK(queued, Taken')
         /\ r \in Proper(l, Taken')
<1>1. Tables'
  BY AnsweredTables, RefusedTables DEF IInv
<1>2. Taken \subseteq Taken'
  BY TakenGrows DEF IInv
<1>3. LinksOK(links, Taken') /\ LinksOK(queued, Taken')
  <2> HIDE DEF Taken
  <2> QED BY <1>2, WireGrows DEF IInv, WireOK
<1>4. LinksOK(link', Taken')
  <2>1. CASE Answered200(l[2], r, links)
    BY <1>3, <2>1, AnsweredLinks DEF IInv
  <2>2. CASE Answered403(l[2], r, links)
    BY <1>3, <2>2 DEF Answered403
  <2> QED BY <2>1, <2>2
<1>5. r \in Proper(l, Taken')
  BY <1>2 DEF Proper, Signed
<1> QED BY <1>1, <1>3, <1>4, <1>5

LEMMA PostStep ==
  ASSUME IInv, NEW l \in Links, Post(l) \/ PostFails(l)
  PROVE  IInv'
<1> DEFINE r == Head(link[l])
           rest == [link EXCEPT ![l] = Tail(@)]
<1>1. r \in Proper(l, Taken) /\ LinksOK(rest, Taken)
  BY RestOK DEF IInv, WireOK, Post, PostFails
<1>2. CASE Answered200(l[2], r, rest) /\ (UNCHANGED queued \/ Queue(l, r))
  BY <1>1, <1>2, Arrival, QueueOK DEF IInv, WireOK
<1>3. CASE Answered403(l[2], r, rest) /\ Queue(l, r)
  BY <1>1, <1>3, Arrival, QueueOK DEF IInv, WireOK
<1>4. CASE link' = rest /\ Queue(l, r) /\ UNCHANGED <<tables, seen, history>>
  <2>1. Tables' /\ Taken' = Taken
    BY <1>4, OtherTables DEF tables, history, IInv, Taken
  <2>2. LinksOK(queued', Taken)
    BY <1>1, <1>4, QueueOK DEF IInv, WireOK
  <2> QED BY <1>1, <1>4, <2>1, <2>2 DEF IInv, WireOK
<1> QED BY <1>2, <1>3, <1>4 DEF Post, PostFails

LEMMA RetryStep ==
  ASSUME IInv, NEW l \in Links, NEW i \in DOMAIN queued[l],
         Retry(l, i) \/ RetryFails(l, i) \/ ExpireStale(l, i)
  PROVE  IInv'
<1> DEFINE r == queued[l][i]
<1>1. /\ r \in Proper(l, Taken)
      /\ LinksOK(link, Taken)
  BY RowOK DEF IInv, WireOK
<1>2. CASE Answered200(l[2], r, link) /\ (Unqueue(l, i) \/ UNCHANGED queued)
  BY <1>1, <1>2, Arrival, RowOK DEF IInv, WireOK
<1>3. CASE Answered403(l[2], r, link) /\ UNCHANGED queued
  BY <1>1, <1>3, Arrival DEF IInv, WireOK
<1>4. CASE Unqueue(l, i) /\ UNCHANGED <<tables, seen, link, history>>
  <2>1. Tables' /\ Taken' = Taken
    BY <1>4, OtherTables DEF tables, history, IInv, Taken
  <2>2. LinksOK(queued', Taken)
    BY <1>4, RowOK DEF IInv, WireOK
  <2> QED BY <1>1, <1>4, <2>1, <2>2 DEF IInv, WireOK
<1> QED BY <1>2, <1>3, <1>4 DEF Retry, RetryFails, ExpireStale

LEMMA StutterStep ==
  ASSUME IInv, UNCHANGED vars
  PROVE  IInv'
<1>1. Tables' /\ Taken' = Taken
  BY OtherTables DEF vars, tables, history, IInv, Taken
<1> QED BY <1>1 DEF IInv, WireOK, vars, wire

LEMMA StepInv == IInv /\ [Next]_vars => IInv'
<1> SUFFICES ASSUME IInv, [Next]_vars PROVE IInv'
  OBVIOUS
<1>1. CASE UNCHANGED vars
  BY <1>1, StutterStep
<1>2. CASE Next
  BY <1>2, CommandStep, PostStep, RetryStep DEF Next
<1> QED BY <1>1, <1>2

THEOREM InvHolds == Spec => []IInv
  BY InitInv, StepInv, PTL DEF Spec

\* A message deleted from a gateway's table never comes back to it.
THEOREM DeletedStays == Spec => []DeletedStaysDeleted
<1>1. IInv => DeletedStaysDeleted
  BY DEF IInv, Tables
<1> QED BY <1>1, InvHolds, PTL

\* What the host refused reaches nobody but its author's own gateway.
THEOREM RefusedStays == Spec => []RefusedStaysOut
<1>1. IInv => RefusedStaysOut
  BY DEF IInv, Tables, Types, Held, RefusedIsSeen, RefusedStaysOut
<1> QED BY <1>1, InvHolds, PTL

-----------------------------------------------------------------------------
(* The other tables, and what is written in a relay.                       *)

HomeOf(m) == Home[Author[m]]
Deleted == {m \in Msgs : m \in gone[HomeOf(m)]}

\* A relay of a member: a message that was written (W), the delete of one that
\* its author deleted (D), or a mute of someone who may be muted.
Genuine(W, D) ==
    {r \in Relay :
        /\ r.kind = "message" => r.m \in W
        /\ r.kind = "delete" => r.m \in D
        /\ r.kind = "mute" => r.who \in Moderated}

Carried(x, q, S) ==
    /\ x \in [Links -> Seq(S)]
    /\ q \in [Links -> Seq(S)]

\* The tables of pins, reactions and mutes.
SideTables ==
    /\ pins \in [Gateways -> SUBSET Msgs]
    /\ reacted \in [Gateways -> SUBSET (Msgs \X Users)]
    /\ muted \in [Gateways -> SUBSET Moderated]

Counted == commands \in 0..MaxCommands /\ fails \in 0..MaxFails /\ swept \in [Links -> SUBSET Msgs]

\* Only what was written is recorded anywhere, and only what its author has
\* deleted is deleted anywhere.
FromAuthor ==
    \A g \in Gateways, m \in Msgs :
       /\ m \in seen[g] => m \in Written
       /\ m \in gone[g] => m \in Deleted

WrittenOK ==
    SideTables /\ Counted /\ FromAuthor /\ Carried(link, queued, Genuine(Written, Deleted))

-----------------------------------------------------------------------------
(* The wire once more, for any set S of relays.                            *)

LEMMA CarriedWider ==
  ASSUME NEW S, NEW T, S \subseteq T, NEW x, NEW q, Carried(x, q, S)
  PROVE  Carried(x, q, T)
<1>1. \A l \in Links : x[l] \in Seq(T) /\ q[l] \in Seq(T)
  <2> SUFFICES ASSUME NEW l \in Links  PROVE x[l] \in Seq(T) /\ q[l] \in Seq(T)
    OBVIOUS
  <2>1. x[l] \in Seq(S) /\ q[l] \in Seq(S)
    BY DEF Carried
  <2> QED
    BY <2>1, SeqWider
<1> QED
  BY <1>1 DEF Carried

LEMMA CarriedFanOut ==
  ASSUME NEW S, NEW x, x \in [Links -> Seq(S)], NEW g, NEW r \in S, NEW except
  PROVE  FanOut(x, g, r, except) \in [Links -> Seq(S)]
<1>1. \A l \in Links : x[l] \in Seq(S) /\ Append(x[l], r) \in Seq(S)
  BY SeqAppend
<1> QED
  BY <1>1 DEF FanOut

LEMMA CarriedRest ==
  ASSUME NEW S, NEW x, x \in [Links -> Seq(S)], NEW l \in Links, x[l] # <<>>
  PROVE  Head(x[l]) \in S /\ [x EXCEPT ![l] = Tail(@)] \in [Links -> Seq(S)]
<1>1. x[l] \in Seq(S)
  OBVIOUS
<1>2. Head(x[l]) \in S /\ Tail(x[l]) \in Seq(S)
  BY <1>1, SeqParts
<1> QED
  BY <1>2

LEMMA CarriedQueue ==
  ASSUME NEW S, queued \in [Links -> Seq(S)], NEW l \in Links, NEW r \in S, Queue(l, r)
  PROVE  queued' \in [Links -> Seq(S)]
<1>1. queued[l] \in Seq(S)
  OBVIOUS
<1>2. Append(queued[l], r) \in Seq(S)
  BY <1>1, SeqAppend
<1> QED
  BY <1>2 DEF Queue

LEMMA CarriedRow ==
  ASSUME NEW S, queued \in [Links -> Seq(S)], NEW l \in Links, NEW i \in DOMAIN queued[l]
  PROVE  /\ queued[l][i] \in S
         /\ Unqueue(l, i) => queued' \in [Links -> Seq(S)]
<1>1. queued[l] \in Seq(S)
  OBVIOUS
<1>2. queued[l][i] \in S /\ RemoveAt(queued[l], i) \in Seq(S)
  BY <1>1, SeqWithout
<1> QED
  BY <1>2 DEF Unqueue

-----------------------------------------------------------------------------
(* Only what members wrote is on its way.                                  *)

LEMMA KindFacts ==
  ASSUME NEW r \in Relay
  PROVE  /\ r.kind \in {"add", "remove", "pin", "unpin"} => r.m \in Msgs
         /\ r.kind \in {"mute", "unmute"} => r.who \in Users
         /\ r.kind \in {"message", "delete", "edit", "add", "remove", "pin", "unpin", "mute", "unmute"}
  BY DEF Relay

LEMMA GenuineGrows ==
  ASSUME NEW W, NEW D, NEW W2, NEW D2, W \subseteq W2, D \subseteq D2
  PROVE  Genuine(W, D) \subseteq Genuine(W2, D2)
  BY DEF Genuine

\* What is recorded of the messages: nothing is forgotten, and what is new
\* comes from the message's author.
Grown ==
    /\ Written \subseteq Written'
    /\ Deleted \subseteq Deleted'
    /\ \A g \in Gateways, m \in Msgs :
          /\ m \in seen'[g] => m \in Written'
          /\ m \in gone'[g] => m \in Deleted'

LEMMA UnmovedGrown ==
  ASSUME FromAuthor, UNCHANGED <<row, gone, seen>>
  PROVE  Grown
  BY DEF Grown, FromAuthor, Written, Deleted, HomeOf

LEMMA SendGrown ==
  ASSUME IInv, FromAuthor, NEW m \in Msgs, Send(m)
  PROVE  Grown /\ m \in Written'
<1> DEFINE g == Home[Author[m]]
<1>1. g \in Gateways
  BY RoomAssumption
<1>2. row' = [row EXCEPT ![g][m] = IF @ = Absent THEN 0 ELSE @] /\ gone' = gone /\ seen' = seen
  BY DEF Send, SaveMessage, Command
<1>3. \A h \in Gateways, n \in Msgs : row[h][n] # Absent => row'[h][n] # Absent
  BY <1>1, <1>2 DEF IInv, Tables, Types, Absent
<1>4. row'[g][m] # Absent
  BY <1>1, <1>2 DEF IInv, Tables, Types, Absent
<1>5. Written \subseteq Written'
  BY <1>2, <1>3, RoomAssumption DEF Written, Absent
<1>6. m \in Written'
  BY <1>4 DEF Written, Absent
<1> QED
  BY <1>2, <1>5, <1>6 DEF Grown, FromAuthor, Deleted, HomeOf

LEMMA SaveGrown ==
  ASSUME IInv, FromAuthor, NEW g \in Gateways, NEW m \in Written,
         SaveMessage(g, m), seen' = [seen EXCEPT ![g] = @ \cup {m}]
  PROVE  Grown
<1>1. m \in Msgs
  BY DEF Written
<1>2. \A h \in Gateways, n \in Msgs : row[h][n] # Absent => row'[h][n] # Absent
  BY <1>1 DEF IInv, Tables, Types, Absent, SaveMessage
<1>3. gone' = gone
  BY DEF SaveMessage
<1>4. Written \subseteq Written'
  BY <1>2, <1>3, RoomAssumption DEF Written, Absent
<1>5. \A h \in Gateways, n \in Msgs : n \in seen'[h] => n \in seen[h] \/ n = m
  BY DEF IInv, Tables, Types
<1> QED
  BY <1>3, <1>4, <1>5 DEF Grown, FromAuthor, Deleted, HomeOf

LEMMA UpdateGrown ==
  ASSUME IInv, FromAuthor, NEW g \in Gateways, NEW m \in Msgs, NEW v \in 0..MaxEdits,
         UpdateMessage(g, m, v), seen' = seen
  PROVE  Grown
<1>1. \A h \in Gateways, n \in Msgs : row[h][n] # Absent => row'[h][n] # Absent
  BY DEF IInv, Tables, Types, Absent, UpdateMessage
<1>2. gone' = gone
  BY DEF UpdateMessage
<1>3. Written \subseteq Written'
  BY <1>1, <1>2, RoomAssumption DEF Written, Absent
<1> QED
  BY <1>2, <1>3 DEF Grown, FromAuthor, Deleted, HomeOf

LEMMA DeleteGrown ==
  ASSUME IInv, FromAuthor, NEW g \in Gateways, NEW m \in Msgs,
         m \in Deleted \/ (g = HomeOf(m) /\ row[g][m] # Absent),
         DeleteMessage(g, m), seen' = seen
  PROVE  Grown /\ m \in Deleted'
<1>1. \A h \in Gateways, n \in Msgs :
         /\ row[h][n] # Absent => row'[h][n] # Absent \/ n \in gone'[h]
         /\ n \in gone[h] => n \in gone'[h]
  BY DEF IInv, Tables, Types, Absent, DeleteMessage
<1>2. \A h \in Gateways, n \in Msgs : n \in gone'[h] => n \in gone[h] \/ n = m
  BY DEF IInv, Tables, Types, DeleteMessage
<1>3. Written \subseteq Written' /\ Deleted \subseteq Deleted'
  BY <1>1, RoomAssumption DEF Written, Deleted, HomeOf, Absent
<1>4. m \in Deleted'
  <2>1. CASE m \in Deleted
    BY <1>3, <2>1
  <2>2. CASE g = HomeOf(m) /\ row[g][m] # Absent
    BY <2>2 DEF DeleteMessage, Deleted, HomeOf, IInv, Tables, Types
  <2> QED
    BY <2>1, <2>2
<1>5. ASSUME NEW h \in Gateways, NEW n \in Msgs, n \in gone'[h]  PROVE n \in Deleted'
  <2>1. CASE n = m
    BY <1>4, <2>1
  <2>2. CASE n \in gone[h]
    <3>1. n \in Deleted
      BY <2>2 DEF FromAuthor
    <3> QED
      BY <3>1, <1>3
  <2> QED
    BY <1>2, <1>5, <2>1, <2>2
<1>6. \A h \in Gateways, n \in Msgs : n \in seen'[h] => n \in Written'
  BY <1>3 DEF FromAuthor
<1> QED
  BY <1>3, <1>4, <1>5, <1>6 DEF Grown

LEMMA SideOps ==
  ASSUME SideTables, NEW g \in Gateways
  PROVE  /\ \A m \in Msgs : SaveMessage(g, m) => SideTables'
         /\ \A m \in Msgs, v \in 0..MaxEdits : UpdateMessage(g, m, v) => SideTables'
         /\ \A m \in Msgs : DeleteMessage(g, m) => SideTables'
         /\ \A m \in Msgs, u \in Users, on \in BOOLEAN : SetReaction(g, m, u, on) => SideTables'
         /\ \A m \in Msgs, on \in BOOLEAN : SetPin(g, m, on) => SideTables'
         /\ \A u \in Users, on \in BOOLEAN :
              SetMute(g, u, on) /\ (on => u \in Moderated) => SideTables'
<1>1. ASSUME NEW m \in Msgs, SaveMessage(g, m)  PROVE SideTables'
  BY <1>1 DEF SaveMessage, SideTables
<1>2. ASSUME NEW m \in Msgs, NEW v \in 0..MaxEdits, UpdateMessage(g, m, v)  PROVE SideTables'
  BY <1>2 DEF UpdateMessage, SideTables
<1>3. ASSUME NEW m \in Msgs, DeleteMessage(g, m)  PROVE SideTables'
  BY <1>3 DEF DeleteMessage, SideTables
<1>4. ASSUME NEW m \in Msgs, NEW u \in Users, NEW on \in BOOLEAN, SetReaction(g, m, u, on)
      PROVE  SideTables'
  BY <1>4 DEF SetReaction, SideTables
<1>5. ASSUME NEW m \in Msgs, NEW on \in BOOLEAN, SetPin(g, m, on)  PROVE SideTables'
  BY <1>5 DEF SetPin, SideTables
<1>6. ASSUME NEW u \in Users, NEW on \in BOOLEAN, SetMute(g, u, on), on => u \in Moderated
      PROVE  SideTables'
  BY <1>6 DEF SetMute, SideTables
<1> QED
  BY <1>1, <1>2, <1>3, <1>4, <1>5, <1>6

\* A relay that a gateway takes.
LEMMA HandledWritten ==
  ASSUME IInv, FromAuthor, SideTables, NEW g \in Gateways,
         NEW r \in Genuine(Written, Deleted), Handle(g, r), RecordId(g, r)
  PROVE  Grown /\ SideTables'
<1>0. r \in Relay
  BY DEF Genuine
<1>1. CASE HandleRoom(g, r)
  <2>1. r.m \in Written /\ r.m \in Msgs
    BY <1>1 DEF HandleRoom, Genuine, Written
  <2> QED
    BY <1>1, <2>1, SaveGrown, SideOps DEF HandleRoom, RecordId
<1>2. CASE HandleEdit(g, r)
  <2>1. r.m \in Msgs /\ r.v \in 0..MaxEdits
    BY <1>0, <1>2, RelayFacts DEF HandleEdit
  <2> QED
    BY <1>2, <2>1, UpdateGrown, SideOps DEF HandleEdit, RecordId
<1>3. CASE HandleDelete(g, r)
  <2>1. r.m \in Deleted /\ r.m \in Msgs
    BY <1>3 DEF HandleDelete, Genuine, Deleted
  <2> QED
    BY <1>3, <2>1, DeleteGrown, SideOps DEF HandleDelete, RecordId
<1>4. CASE HandleReaction(g, r)
  <2>1. r.m \in Msgs /\ r.by \in Users /\ (r.kind = "add") \in BOOLEAN
    BY <1>0, <1>4, KindFacts, RelayFacts DEF HandleReaction
  <2>2. SideTables'
    BY <1>4, <2>1, SideOps DEF HandleReaction
  <2> QED
    BY <1>4, <2>2, UnmovedGrown DEF HandleReaction, SetReaction, RecordId
<1>5. CASE HandlePin(g, r)
  <2>1. r.m \in Msgs /\ (r.kind = "pin") \in BOOLEAN
    BY <1>0, <1>5, KindFacts DEF HandlePin
  <2>2. SideTables'
    BY <1>5, <2>1, SideOps DEF HandlePin
  <2> QED
    BY <1>5, <2>2, UnmovedGrown DEF HandlePin, SetPin, RecordId
<1>6. CASE HandleMute(g, r)
  <2>1. r.who \in Users /\ (r.kind = "mute") \in BOOLEAN /\ (r.kind = "mute" => r.who \in Moderated)
    BY <1>0, <1>6, KindFacts DEF HandleMute, Genuine
  <2>2. SideTables'
    BY <1>6, <2>1, SideOps DEF HandleMute
  <2> QED
    BY <1>6, <2>2, UnmovedGrown DEF HandleMute, SetMute, RecordId
<1> QED
  BY <1>1, <1>2, <1>3, <1>4, <1>5, <1>6 DEF Handle

LEMMA AnswerWritten ==
  ASSUME IInv, FromAuthor, SideTables, NEW g \in Gateways,
         NEW r \in Genuine(Written, Deleted), NEW links,
         links \in [Links -> Seq(Genuine(Written, Deleted))],
         Answered200(g, r, links) \/ Answered403(g, r, links)
  PROVE  /\ Grown /\ SideTables'
         /\ link' \in [Links -> Seq(Genuine(Written, Deleted))]
<1>1. CASE Answered200(g, r, links) /\ Known(g, r)
  BY <1>1, UnmovedGrown DEF Answered200, tables, history, SideTables
<1>2. CASE Answered200(g, r, links) /\ ~Known(g, r)
  <2>1. Handle(g, r) /\ RecordId(g, r) /\ Forward(links, g, r)
    BY <1>2 DEF Answered200
  <2>2. link' \in [Links -> Seq(Genuine(Written, Deleted))]
    <3> DEFINE S == Genuine(Written, Deleted)
    <3>1. r \in S /\ links \in [Links -> Seq(S)]
      OBVIOUS
    <3> HIDE DEF S
    <3>2. link' \in [Links -> Seq(S)]
      BY <2>1, <3>1, CarriedFanOut DEF Forward
    <3> QED
      BY <3>2 DEF S
  <2> QED
    BY <2>1, <2>2, HandledWritten
<1>3. CASE Answered403(g, r, links)
  <2>1. row' = row /\ gone' = gone /\ link' = links /\ UNCHANGED <<pins, reacted, muted>>
    BY <1>3 DEF Answered403, tables
  <2>2. \A h \in Gateways, n \in Msgs :
          n \in seen'[h] => n \in seen[h] \/ (r.kind = "message" /\ n = r.m)
    BY <1>3 DEF Answered403, RecordId, IInv, Tables, Types
  <2>3. r.kind = "message" => r.m \in Written
    BY DEF Genuine
  <2>4. Grown
    BY <2>1, <2>2, <2>3 DEF Grown, FromAuthor, Written, Deleted, HomeOf
  <2> QED
    BY <2>1, <2>4 DEF SideTables
<1> QED
  BY <1>1, <1>2, <1>3

\* A command makes a relay of what its author did.
LEMMA CommandWritten ==
  ASSUME WrittenOK, Grown, SideTables', NEW g, NEW r, Command(g, r),
         r \in Genuine(Written', Deleted')
  PROVE  WrittenOK'
<1> DEFINE S == Genuine(Written', Deleted')
<1>1. Genuine(Written, Deleted) \subseteq S
  BY GenuineGrows DEF Grown
<1>2. r \in S
  OBVIOUS
<1>3. Carried(link, queued, Genuine(Written, Deleted))
  BY DEF WrittenOK
<1>4. Carried(link', queued', S)
  <2> HIDE DEF S
  <2>1. Carried(link, queued, S)
    BY <1>1, <1>3, CarriedWider
  <2>2. FanOut(link, g, r, {}) \in [Links -> Seq(S)]
    BY <1>2, <2>1, CarriedFanOut DEF Carried
  <2> QED
    BY <2>1, <2>2 DEF Carried, Command
<1>5. Counted'
  BY RoomAssumption DEF WrittenOK, Counted, Command
<1>6. FromAuthor'
  BY DEF Grown, FromAuthor
<1> QED
  BY <1>4, <1>5, <1>6 DEF WrittenOK

LEMMA CommandStepWritten ==
  ASSUME IInv, WrittenOK,
         \/ \E m \in Msgs : Send(m) \/ Edit(m) \/ Delete(m)
         \/ \E m \in Msgs, u \in Users, on \in BOOLEAN : React(u, m, on)
         \/ \E m \in Msgs, on \in BOOLEAN : Pin(m, on)
         \/ \E u \in Users, on \in BOOLEAN : Mute(u, on)
  PROVE  WrittenOK'
<1>0. SideTables /\ FromAuthor
  BY DEF WrittenOK
<1>1. ASSUME NEW m \in Msgs, Send(m) PROVE WrittenOK'
  <2> DEFINE r == [kind |-> "message", by |-> Author[m], m |-> m]
  <2>1. Home[Author[m]] \in Gateways /\ Command(Home[Author[m]], r) /\ SaveMessage(Home[Author[m]], m)
    BY <1>1, RoomAssumption DEF Send
  <2>2. Grown /\ m \in Written'
    BY <1>0, <1>1, SendGrown
  <2>3. r \in Genuine(Written', Deleted')
    BY <2>2, RoomAssumption DEF Genuine, Relay
  <2> QED
    BY <1>0, <2>1, <2>2, <2>3, SideOps, CommandWritten
<1>2. ASSUME NEW m \in Msgs, Edit(m) PROVE WrittenOK'
  <2> DEFINE g == Home[Author[m]]
             v == row[g][m] + 1
             r == [kind |-> "edit", by |-> Author[m], m |-> m, v |-> v]
  <2>1. g \in Gateways /\ row[g][m] \in Absent..MaxEdits
    BY RoomAssumption DEF IInv, Tables, Types
  <2>2. v \in 0..MaxEdits
    BY <1>2, <2>1, RoomAssumption DEF Edit, Absent
  <2>3. Command(g, r) /\ UpdateMessage(g, m, v)
    BY <1>2 DEF Edit
  <2>4. r \in Genuine(Written', Deleted')
    BY <2>2, RoomAssumption DEF Genuine, Relay
  <2>5. SideTables'
    BY <1>0, <2>1, <2>2, <2>3, SideOps
  <2>6. Grown
    BY <1>0, <2>1, <2>2, <2>3, UpdateGrown DEF Command
  <2> QED
    BY <2>3, <2>4, <2>5, <2>6, CommandWritten
<1>3. ASSUME NEW m \in Msgs, Delete(m) PROVE WrittenOK'
  <2> DEFINE g == Home[Author[m]]
             r == [kind |-> "delete", by |-> Author[m], m |-> m]
  <2>1. g \in Gateways /\ g = HomeOf(m) /\ row[g][m] # Absent /\ Command(g, r) /\ DeleteMessage(g, m)
    BY <1>3, RoomAssumption DEF Delete, HomeOf
  <2>2. Grown /\ m \in Deleted'
    BY <1>0, <2>1, DeleteGrown DEF Command
  <2>3. r \in Genuine(Written', Deleted')
    BY <2>2, RoomAssumption DEF Genuine, Relay
  <2> QED
    BY <1>0, <2>1, <2>2, <2>3, SideOps, CommandWritten
<1>4. ASSUME NEW m \in Msgs, NEW u \in Users, NEW on \in BOOLEAN, React(u, m, on) PROVE WrittenOK'
  <2> DEFINE r == [kind |-> IF on THEN "add" ELSE "remove", by |-> u, m |-> m]
  <2>1. Home[u] \in Gateways /\ Command(Home[u], r) /\ SetReaction(Home[u], m, u, on)
    BY <1>4, RoomAssumption DEF React
  <2>2. r \in Genuine(Written', Deleted')
    BY DEF Genuine, Relay
  <2>3. Grown
    BY <1>0, <2>1, UnmovedGrown DEF Command, SetReaction
  <2> QED
    BY <1>0, <2>1, <2>2, <2>3, SideOps, CommandWritten
<1>5. ASSUME NEW m \in Msgs, NEW on \in BOOLEAN, Pin(m, on) PROVE WrittenOK'
  <2> DEFINE r == [kind |-> IF on THEN "pin" ELSE "unpin", by |-> Owner, m |-> m]
  <2>1. Host \in Gateways /\ Command(Host, r) /\ SetPin(Host, m, on)
    BY <1>5, RoomAssumption DEF Pin
  <2>2. r \in Genuine(Written', Deleted')
    BY RoomAssumption DEF Genuine, Relay
  <2>3. Grown
    BY <1>0, <2>1, UnmovedGrown DEF Command, SetPin
  <2> QED
    BY <1>0, <2>1, <2>2, <2>3, SideOps, CommandWritten
<1>6. ASSUME NEW u \in Users, NEW on \in BOOLEAN, Mute(u, on) PROVE WrittenOK'
  <2> DEFINE r == [kind |-> IF on THEN "mute" ELSE "unmute", by |-> Owner, who |-> u]
  <2>1. Host \in Gateways /\ u \in Moderated /\ Command(Host, r) /\ SetMute(Host, u, on)
    BY <1>6, RoomAssumption DEF Mute
  <2>2. r \in Genuine(Written', Deleted')
    BY <2>1, RoomAssumption DEF Genuine, Relay
  <2>3. Grown
    BY <1>0, <2>1, UnmovedGrown DEF Command, SetMute
  <2>4. SideTables'
    BY <1>0, <2>1, SideOps
  <2> QED
    BY <2>1, <2>2, <2>3, <2>4, CommandWritten
<1> QED
  BY <1>1, <1>2, <1>3, <1>4, <1>5, <1>6

\* A relay that reached its peer.
LEMMA ReachedWritten ==
  ASSUME Grown, SideTables', Counted', NEW S, S = Genuine(Written, Deleted),
         link' \in [Links -> Seq(S)], queued' \in [Links -> Seq(S)]
  PROVE  WrittenOK'
<1>1. Carried(link', queued', S)
  BY DEF Carried
<1>2. S \subseteq Genuine(Written', Deleted')
  BY GenuineGrows DEF Grown
<1>3. Carried(link', queued', Genuine(Written', Deleted'))
  BY <1>1, <1>2, CarriedWider
<1> QED
  BY <1>3 DEF WrittenOK, Grown, FromAuthor

LEMMA PostWritten ==
  ASSUME IInv, WrittenOK, NEW l \in Links, Post(l) \/ PostFails(l)
  PROVE  WrittenOK'
<1> DEFINE S == Genuine(Written, Deleted)
           r == Head(link[l])
           rest == [link EXCEPT ![l] = Tail(@)]
<1>0. link \in [Links -> Seq(S)] /\ queued \in [Links -> Seq(S)]
      /\ SideTables /\ FromAuthor /\ l[2] \in Gateways
  BY LinkFacts DEF WrittenOK, Carried
<1>1. link[l] # <<>>
  BY DEF Post, PostFails
<1>2. r \in S /\ rest \in [Links -> Seq(S)]
  <2> HIDE DEF S
  <2> QED
    BY <1>0, <1>1, CarriedRest
<1>3. Counted'
  <2>1. commands' = commands /\ swept' = swept /\ (fails' = fails \/ Fail)
    BY DEF Post, PostFails
  <2> QED
    BY <2>1, RoomAssumption DEF WrittenOK, Counted, Fail
<1>4. CASE \/ Answered200(l[2], r, rest) \/ Answered403(l[2], r, rest)
  <2>1. Grown /\ SideTables' /\ link' \in [Links -> Seq(S)]
    BY <1>0, <1>2, <1>4, AnswerWritten
  <2>2. UNCHANGED queued \/ Queue(l, r)
    BY DEF Post, PostFails
  <2>3. queued' \in [Links -> Seq(S)]
    <3> HIDE DEF S, r
    <3> QED
      BY <1>0, <1>2, <2>2, CarriedQueue
  <2> QED
    BY <1>3, <2>1, <2>3, ReachedWritten
<1>5. CASE link' = rest /\ Queue(l, r) /\ UNCHANGED <<tables, seen, history>>
  <2>1. Grown /\ SideTables'
    BY <1>0, <1>5, UnmovedGrown DEF tables, history, SideTables
  <2>2. queued' \in [Links -> Seq(S)]
    <3> HIDE DEF S, r
    <3> QED
      BY <1>0, <1>2, <1>5, CarriedQueue
  <2> QED
    BY <1>2, <1>3, <1>5, <2>1, <2>2, ReachedWritten
<1> QED
  BY <1>4, <1>5 DEF Post, PostFails

LEMMA RetryWritten ==
  ASSUME IInv, WrittenOK, NEW l \in Links, NEW i \in DOMAIN queued[l],
         Retry(l, i) \/ RetryFails(l, i) \/ ExpireStale(l, i)
  PROVE  WrittenOK'
<1> DEFINE S == Genuine(Written, Deleted)
           r == queued[l][i]
<1>0. link \in [Links -> Seq(S)] /\ queued \in [Links -> Seq(S)]
      /\ SideTables /\ FromAuthor /\ l[2] \in Gateways
  BY LinkFacts DEF WrittenOK, Carried
<1>1. /\ r \in S
      /\ Unqueue(l, i) => queued' \in [Links -> Seq(S)]
  <2> HIDE DEF S
  <2> QED
    BY <1>0, CarriedRow
<1>2. Counted'
  <2>1. CASE Retry(l, i) \/ RetryFails(l, i)
    BY <2>1, RoomAssumption DEF WrittenOK, Counted, Retry, RetryFails, Fail
  <2>2. CASE ExpireStale(l, i)
    <3>1. r.kind = "message" => r.m \in Msgs
      BY <1>1, RelayFacts DEF Genuine
    <3>2. \/ swept' = swept
          \/ r.kind = "message" /\ swept' = [swept EXCEPT ![l] = @ \cup {r.m}]
      BY <2>2 DEF ExpireStale
    <3>3. commands' = commands /\ fails' = fails
      BY <2>2 DEF ExpireStale
    <3> HIDE DEF r
    <3> QED
      BY <3>1, <3>2, <3>3 DEF WrittenOK, Counted
  <2> QED
    BY <2>1, <2>2
<1>3. queued' \in [Links -> Seq(S)]
  BY <1>0, <1>1 DEF Retry, RetryFails, ExpireStale
<1>4. CASE Answered200(l[2], r, link) \/ Answered403(l[2], r, link)
  <2>1. Grown /\ SideTables' /\ link' \in [Links -> Seq(S)]
    BY <1>0, <1>1, <1>4, AnswerWritten
  <2> QED
    BY <1>2, <1>3, <2>1, ReachedWritten
<1>5. CASE UNCHANGED <<tables, seen, link, history>>
  <2>1. Grown /\ SideTables' /\ link' = link
    BY <1>0, <1>5, UnmovedGrown DEF tables, history, SideTables
  <2> QED
    BY <1>0, <1>2, <1>3, <2>1, ReachedWritten
<1> QED
  BY <1>4, <1>5 DEF Retry, RetryFails, ExpireStale

LEMMA InitWritten == Init => WrittenOK
<1> SUFFICES ASSUME Init PROVE WrittenOK
  OBVIOUS
<1>1. SideTables /\ FromAuthor
  BY DEF Init, SideTables, FromAuthor
<1>2. Counted
  BY RoomAssumption DEF Init, Counted
<1>3. Carried(link, queued, Genuine(Written, Deleted))
  BY DEF Init, Carried
<1> QED
  BY <1>1, <1>2, <1>3 DEF WrittenOK

LEMMA StepWritten == IInv /\ WrittenOK /\ [Next]_vars => WrittenOK'
<1> SUFFICES ASSUME IInv, WrittenOK, [Next]_vars PROVE WrittenOK'
  OBVIOUS
<1>1. CASE UNCHANGED vars
  BY <1>1 DEF vars, tables, wire, history, WrittenOK, SideTables, Counted, FromAuthor,
              Carried, Written, Deleted, HomeOf
<1>2. CASE Next
  BY <1>2, CommandStepWritten, PostWritten, RetryWritten DEF Next
<1> QED
  BY <1>1, <1>2

THEOREM WrittenHolds == Spec => []WrittenOK
  BY InitWritten, StepWritten, InvHolds, PTL DEF Spec

\* Every variable keeps its type; in particular nobody but a member the owner
\* may mute is ever held muted, on any gateway.
THEOREM RoomTypes == Spec => []TypeOK
<1>1. IInv /\ WrittenOK => TypeOK
  BY DEF IInv, Tables, Types, WireOK, LinksOK, WrittenOK, SideTables, Counted, TypeOK
<1> QED
  BY <1>1, InvHolds, WrittenHolds, PTL

-----------------------------------------------------------------------------
(* A message that is kept is on its way to every gateway that has not got  *)
(* it.                                                                     *)

Sent(r, m) == r.kind = "message" /\ r.m = m
OnLink(x, m, l) == \E i \in DOMAIN x[l] : Sent(x[l][i], m)

\* m is about to be posted to the end of l, waits there in a row, or had a row
\* that became a day old.
Pending(m, l) == OnLink(link, m, l) \/ OnLink(queued, m, l) \/ m \in swept[l]

\* A message that has to arrive: its author still has it, and is not someone
\* the owner may mute.
Kept(m) == Author[m] \notin Moderated /\ row[HomeOf(m)][m] # Absent

Reaches(m) ==
    /\ HomeOf(m) # Host => m \in seen[Host] \/ Pending(m, <<HomeOf(m), Host>>)
    /\ \A g \in Mirrors \ {HomeOf(m)} :
          (HomeOf(m) = Host \/ m \in seen[Host]) => m \in seen[g] \/ Pending(m, <<Host, g>>)
    /\ \A g \in Gateways : m \in seen[g] => row[g][m] # Absent

OnItsWay == \A m \in Msgs : Kept(m) => Reaches(m)

\* What a step must do for m to go on reaching every gateway.
LEMMA ReachesOn ==
  ASSUME NEW m \in Msgs, Reaches(m),
         \A g \in Gateways : m \in seen[g] => m \in seen'[g],
         \A g \in Gateways : m \in seen'[g] => row'[g][m] # Absent,
         \A l \in Links : Pending(m, l) => Pending(m, l)' \/ m \in seen'[l[2]],
         m \in seen'[Host] /\ m \notin seen[Host] =>
            \A g \in Mirrors \ {HomeOf(m)} : Pending(m, <<Host, g>>)'
  PROVE  Reaches(m)'
<1>1. HomeOf(m) \in Gateways /\ Host \in Gateways
  BY RoomAssumption DEF HomeOf
<1>2. ASSUME HomeOf(m) # Host
      PROVE  m \in seen'[Host] \/ Pending(m, <<HomeOf(m), Host>>)'
  <2> DEFINE k == <<HomeOf(m), Host>>
  <2>1. k \in Links /\ k[2] = Host
    BY <1>1, <1>2 DEF Links, Mirrors
  <2>2. m \in seen[Host] \/ Pending(m, k)
    BY <1>2 DEF Reaches
  <2> HIDE DEF k
  <2>3. m \in seen'[Host] \/ Pending(m, k)'
    BY <1>1, <2>1, <2>2
  <2> QED
    BY <2>3 DEF k
<1>3. ASSUME NEW g \in Mirrors \ {HomeOf(m)}, HomeOf(m) = Host \/ m \in seen'[Host]
      PROVE  m \in seen'[g] \/ Pending(m, <<Host, g>>)'
  <2> DEFINE k == <<Host, g>>
  <2>1. k \in Links /\ k[2] = g /\ g \in Gateways
    BY <1>1 DEF Links, Mirrors
  <2>2. CASE HomeOf(m) = Host \/ m \in seen[Host]
    <3>1. m \in seen[g] \/ Pending(m, k)
      BY <2>2 DEF Reaches
    <3> HIDE DEF k
    <3>2. m \in seen'[g] \/ Pending(m, k)'
      BY <2>1, <3>1
    <3> QED
      BY <3>2 DEF k
  <2>3. CASE m \in seen'[Host] /\ m \notin seen[Host]
    BY <2>3
  <2> QED
    BY <1>3, <2>2, <2>3
<1>4. HomeOf(m)' = HomeOf(m) /\ Mirrors' = Mirrors
  BY DEF HomeOf, Mirrors
<1> QED
  BY <1>2, <1>3, <1>4 DEF Reaches, HomeOf, Mirrors, Absent

LEMMA OnLinkAppend ==
  ASSUME NEW x, NEW g, NEW r, NEW except, NEW m, NEW l \in Links,
         x \in [Links -> Seq(Relay)], r \in Relay
  PROVE  /\ OnLink(x, m, l) => OnLink(FanOut(x, g, r, except), m, l)
         /\ l[1] = g /\ l[2] \notin except /\ Sent(r, m) => OnLink(FanOut(x, g, r, except), m, l)
<1> DEFINE y == FanOut(x, g, r, except)
<1>1. y[l] = IF l[1] = g /\ l[2] \notin except THEN Append(x[l], r) ELSE x[l]
  BY DEF FanOut
<1>2. x[l] \in Seq(Relay)
  OBVIOUS
<1> HIDE DEF y
<1>3. OnLink(x, m, l) => OnLink(y, m, l)
  <2> SUFFICES ASSUME OnLink(x, m, l) PROVE OnLink(y, m, l)
    OBVIOUS
  <2>1. PICK i \in DOMAIN x[l] : Sent(x[l][i], m)
    BY DEF OnLink
  <2>2. i \in DOMAIN y[l] /\ y[l][i] = x[l][i]
    BY <1>1, <1>2
  <2> QED
    BY <2>1, <2>2 DEF OnLink
<1>4. ASSUME l[1] = g, l[2] \notin except, Sent(r, m) PROVE OnLink(y, m, l)
  <2>1. Len(x[l]) + 1 \in DOMAIN y[l] /\ y[l][Len(x[l]) + 1] = r
    BY <1>1, <1>2, <1>4
  <2> QED
    BY <2>1, <1>4 DEF OnLink
<1> QED
  BY <1>3, <1>4 DEF y

\* Taking the first relay off a link.
LEMMA OnLinkRest ==
  ASSUME NEW x, NEW m, NEW l \in Links, NEW k \in Links,
         x \in [Links -> Seq(Relay)], x[l] # <<>>, OnLink(x, m, k)
  PROVE  \/ OnLink([x EXCEPT ![l] = Tail(@)], m, k)
         \/ k = l /\ Sent(Head(x[l]), m)
<1> DEFINE y == [x EXCEPT ![l] = Tail(@)]
<1>1. y[k] = IF k = l THEN Tail(x[l]) ELSE x[k]
  OBVIOUS
<1>2. x[l] \in Seq(Relay)
  OBVIOUS
<1> HIDE DEF y
<1>3. PICK i \in DOMAIN x[k] : Sent(x[k][i], m)
  BY DEF OnLink
<1>4. CASE k # l
  BY <1>1, <1>3, <1>4 DEF OnLink, y
<1>5. CASE k = l /\ i = 1
  BY <1>2, <1>3, <1>5
<1>6. CASE k = l /\ i # 1
  <2>1. i - 1 \in DOMAIN y[k] /\ y[k][i - 1] = x[k][i]
    BY <1>1, <1>2, <1>6
  <2> QED
    BY <2>1, <1>3 DEF OnLink, y
<1> QED
  BY <1>4, <1>5, <1>6

LEMMA OnQueueAppend ==
  ASSUME NEW m, NEW l \in Links, NEW k \in Links, NEW r \in Relay,
         queued \in [Links -> Seq(Relay)], Queue(l, r)
  PROVE  /\ OnLink(queued, m, k) => OnLink(queued', m, k)
         /\ Sent(r, m) => OnLink(queued', m, l)
<1>1. queued[l] \in Seq(Relay)
  OBVIOUS
<1>2. queued' = [queued EXCEPT ![l] = Append(@, r)]
  BY DEF Queue
<1>3. queued'[k] = IF k = l THEN Append(queued[l], r) ELSE queued[k]
  BY <1>2
<1>4. ASSUME OnLink(queued, m, k) PROVE OnLink(queued', m, k)
  <2>1. PICK i \in DOMAIN queued[k] : Sent(queued[k][i], m)
    BY <1>4 DEF OnLink
  <2>2. i \in DOMAIN queued'[k] /\ queued'[k][i] = queued[k][i]
    BY <1>1, <1>3
  <2> QED
    BY <2>1, <2>2 DEF OnLink
<1>5. ASSUME Sent(r, m) PROVE OnLink(queued', m, l)
  <2>1. Len(queued[l]) + 1 \in DOMAIN queued'[l] /\ queued'[l][Len(queued[l]) + 1] = r
    BY <1>1, <1>2
  <2> QED
    BY <2>1, <1>5 DEF OnLink
<1> QED
  BY <1>4, <1>5

LEMMA Joined ==
  ASSUME NEW S, NEW a \in Seq(S), NEW b \in Seq(S)
  PROVE  /\ DOMAIN (a \o b) = 1..(Len(a) + Len(b))
         /\ \A n \in 1..(Len(a) + Len(b)) :
               (a \o b)[n] = IF n <= Len(a) THEN a[n] ELSE b[n - Len(a)]
  OBVIOUS

LEMMA OthersStay ==
  ASSUME NEW S, NEW s \in Seq(S), NEW i \in DOMAIN s, NEW j \in DOMAIN s, j # i
  PROVE  \E n \in DOMAIN RemoveAt(s, i) : RemoveAt(s, i)[n] = s[j]
<1> DEFINE a == SubSeq(s, 1, i - 1)
           b == SubSeq(s, i + 1, Len(s))
<1>1. a \in Seq(S) /\ Len(a) = i - 1 /\ \A n \in 1..(i - 1) : a[n] = s[n]
  OBVIOUS
<1>2. b \in Seq(S) /\ Len(b) = Len(s) - i /\ \A n \in 1..(Len(s) - i) : b[n] = s[i + n]
  OBVIOUS
<1>3. RemoveAt(s, i) = a \o b /\ i \in 1..Len(s) /\ j \in 1..Len(s) /\ Len(s) \in Nat
  BY DEF RemoveAt
<1> HIDE DEF a, b
<1>4. /\ DOMAIN (a \o b) = 1..(Len(s) - 1)
      /\ \A n \in 1..(Len(s) - 1) : (a \o b)[n] = IF n <= i - 1 THEN a[n] ELSE b[n - (i - 1)]
  <2>1. /\ DOMAIN (a \o b) = 1..(Len(a) + Len(b))
        /\ \A n \in 1..(Len(a) + Len(b)) :
              (a \o b)[n] = IF n <= Len(a) THEN a[n] ELSE b[n - Len(a)]
    BY <1>1, <1>2, Joined
  <2>2. Len(a) + Len(b) = Len(s) - 1
    BY <1>1, <1>2, <1>3
  <2>3. Len(a) = i - 1
    BY <1>1
  <2> QED
    BY <2>1, <2>2, <2>3
<1>5. CASE j < i
  <2>1. j \in 1..(Len(s) - 1) /\ j \in 1..(i - 1)
    BY <1>3, <1>5
  <2>2. (a \o b)[j] = s[j]
    BY <1>1, <1>4, <2>1
  <2> QED
    BY <1>3, <1>4, <2>1, <2>2
<1>6. CASE j > i
  <2>1. j - 1 \in 1..(Len(s) - 1) /\ ~(j - 1 <= i - 1) /\ j - 1 - (i - 1) = j - i
        /\ j - i \in 1..(Len(s) - i) /\ i + (j - i) = j
    BY <1>3, <1>6
  <2>2. (a \o b)[j - 1] = s[j]
    BY <1>2, <1>4, <2>1
  <2> QED
    BY <1>3, <1>4, <2>1, <2>2
<1> QED
  BY <1>3, <1>5, <1>6

\* Only the row that goes is no longer there.
LEMMA OnQueueWithout ==
  ASSUME NEW m, NEW l \in Links, NEW k \in Links, NEW i \in DOMAIN queued[l],
         queued \in [Links -> Seq(Relay)], Unqueue(l, i), OnLink(queued, m, k)
  PROVE  \/ OnLink(queued', m, k)
         \/ k = l /\ Sent(queued[l][i], m)
<1>1. queued[l] \in Seq(Relay)
  OBVIOUS
<1>2. PICK j \in DOMAIN queued[k] : Sent(queued[k][j], m)
  BY DEF OnLink
<1>3. CASE k = l /\ j = i
  BY <1>2, <1>3
<1>4. CASE k # l
  <2>1. queued'[k] = queued[k]
    BY <1>4 DEF Unqueue
  <2> QED
    BY <1>2, <2>1 DEF OnLink
<1>5. CASE k = l /\ j # i
  <2>1. queued'[k] = RemoveAt(queued[l], i)
    BY <1>5 DEF Unqueue
  <2>2. \E n \in DOMAIN queued'[k] : queued'[k][n] = queued[k][j]
    BY <1>1, <1>5, <2>1, OthersStay
  <2> QED
    BY <1>2, <2>2 DEF OnLink
<1> QED
  BY <1>3, <1>4, <1>5

\* A command takes nothing off the wire.
LEMMA CommandReaches ==
  ASSUME IInv, NEW m \in Msgs, Reaches(m), NEW g, NEW r \in Relay, Command(g, r),
         \A h \in Gateways : row[h][m] # Absent => row'[h][m] # Absent
  PROVE  Reaches(m)'
<1>1. UNCHANGED <<seen, queued, swept>> /\ link' = FanOut(link, g, r, {})
      /\ link \in [Links -> Seq(Relay)]
  BY DEF Command, IInv, WireOK, LinksOK
<1>2. \A l \in Links : Pending(m, l) => Pending(m, l)'
  <2> SUFFICES ASSUME NEW l \in Links, Pending(m, l) PROVE Pending(m, l)'
    OBVIOUS
  <2>1. OnLink(link, m, l) => OnLink(link', m, l)
    BY <1>1, OnLinkAppend
  <2> QED
    BY <1>1, <2>1 DEF Pending
<1>3. \A h \in Gateways : m \in seen'[h] => row'[h][m] # Absent
  BY <1>1 DEF Reaches
<1> QED
  BY <1>1, <1>2, <1>3, RoomAssumption, ReachesOn

\* A new message has been recorded nowhere, and its relay is made for every
\* gateway its author's own knows.
LEMMA SendReaches ==
  ASSUME IInv, WrittenOK, NEW m \in Msgs, Send(m)
  PROVE  Reaches(m)'
<1> DEFINE g == HomeOf(m)
           r == [kind |-> "message", by |-> Author[m], m |-> m]
<1>1. /\ r \in Relay /\ Sent(r, m) /\ g \in Gateways
      /\ seen' = seen /\ link' = FanOut(link, g, r, {})
      /\ link \in [Links -> Seq(Relay)]
  BY RoomAssumption DEF Send, Command, Relay, Sent, HomeOf, IInv, WireOK, LinksOK
<1>2. \A h \in Gateways : m \notin seen'[h]
  BY <1>1 DEF Send, WrittenOK, FromAuthor
<1> HIDE DEF r
<1>3. \A l \in Links : l[1] = g => Pending(m, l)'
  BY <1>1, OnLinkAppend DEF Pending
<1>4. g # Host => Pending(m, <<g, Host>>)'
  <2> SUFFICES ASSUME g # Host PROVE Pending(m, <<g, Host>>)'
    OBVIOUS
  <2> DEFINE k == <<g, Host>>
  <2>1. k \in Links /\ k[1] = g
    BY <1>1 DEF Links, Mirrors
  <2> HIDE DEF k
  <2>2. Pending(m, k)'
    BY <1>3, <2>1
  <2> QED
    BY <2>2 DEF k
<1>5. ASSUME NEW h \in Mirrors, g = Host PROVE Pending(m, <<Host, h>>)'
  <2> DEFINE k == <<Host, h>>
  <2>1. k \in Links /\ k[1] = g
    BY <1>5 DEF Links, Mirrors
  <2> HIDE DEF k
  <2>2. Pending(m, k)'
    BY <1>3, <2>1
  <2> QED
    BY <2>2 DEF k
<1>6. Host \in Gateways /\ Mirrors' = Mirrors /\ HomeOf(m)' = g
  BY RoomAssumption DEF Mirrors, HomeOf
<1> HIDE DEF g
<1> QED
  BY <1>2, <1>4, <1>5, <1>6 DEF Reaches, g, HomeOf, Mirrors, Absent

\* What a relay does to the rows of a kept message.
LEMMA HandleRows ==
  ASSUME IInv, NEW g \in Gateways, NEW r \in Genuine(Written, Deleted), NEW m \in Msgs,
         Kept(m), Handle(g, r)
  PROVE  /\ \A h \in Gateways : row[h][m] # Absent => row'[h][m] # Absent
         /\ Sent(r, m) => row'[g][m] # Absent
<1>0. r \in Relay /\ row \in [Gateways -> [Msgs -> Absent..MaxEdits]]
  BY DEF Genuine, IInv, Tables, Types
<1>1. CASE HandleRoom(g, r)
  <2>1. r.m \in Msgs /\ row' = [row EXCEPT ![g][r.m] = IF @ = Absent THEN 0 ELSE @]
    BY <1>0, <1>1, RelayFacts DEF HandleRoom, SaveMessage
  <2> QED
    BY <1>0, <2>1 DEF Sent, Absent
<1>2. CASE HandleEdit(g, r)
  <2>1. r.m \in Msgs /\ r.v \in 0..MaxEdits /\ r.kind # "message"
        /\ row' = [row EXCEPT ![g][r.m] = IF @ = Absent THEN @ ELSE r.v]
    BY <1>0, <1>2, RelayFacts DEF HandleEdit, UpdateMessage
  <2> QED
    BY <1>0, <2>1 DEF Sent, Absent
<1>3. CASE HandleDelete(g, r)
  <2>1. r.m \in Deleted /\ r.kind # "message" /\ row' = [row EXCEPT ![g][r.m] = Absent]
    BY <1>3 DEF HandleDelete, DeleteMessage, Genuine
  <2>2. r.m # m
    BY <2>1, RoomAssumption
       DEF Deleted, HomeOf, Kept, IInv, Tables, DeletedStaysDeleted, Live
  <2> QED
    BY <1>0, <2>1, <2>2 DEF Sent, Deleted
<1>4. CASE HandleReaction(g, r) \/ HandlePin(g, r) \/ HandleMute(g, r)
  BY <1>4 DEF HandleReaction, HandlePin, HandleMute, SetReaction, SetPin, SetMute, Sent
<1> QED
  BY <1>1, <1>2, <1>3, <1>4 DEF Handle

\* Nobody but its author makes the row of a message on its author's gateway.
LEMMA HandleNotHome ==
  ASSUME IInv, NEW l \in Links, NEW r \in Proper(l, Taken), NEW m \in Msgs,
         Handle(l[2], r), row'[HomeOf(m)][m] # Absent
  PROVE  row[HomeOf(m)][m] # Absent
<1>0. r \in Relay /\ row \in [Gateways -> [Msgs -> Absent..MaxEdits]] /\ HomeOf(m) \in Gateways
  BY RoomAssumption DEF Proper, Signed, IInv, Tables, Types, HomeOf
<1>1. CASE HandleRoom(l[2], r)
  <2>1. r.m \in Msgs /\ l[2] # HomeOf(r.m)
    BY <1>0, <1>1, RelayFacts DEF HandleRoom, Proper, Signed, HomeOf
  <2> QED
    BY <1>0, <1>1, <2>1 DEF HandleRoom, SaveMessage
<1>2. CASE HandleEdit(l[2], r)
  <2>1. r.m \in Msgs
    BY <1>0, <1>2, RelayFacts DEF HandleEdit
  <2> QED
    BY <1>0, <1>2, <2>1 DEF HandleEdit, UpdateMessage
<1>3. CASE HandleDelete(l[2], r)
  <2>1. r.m \in Msgs
    BY <1>0, <1>3, RelayFacts DEF HandleDelete
  <2> QED
    BY <1>0, <1>3, <2>1 DEF HandleDelete, DeleteMessage
<1>4. CASE HandleReaction(l[2], r) \/ HandlePin(l[2], r) \/ HandleMute(l[2], r)
  BY <1>4 DEF HandleReaction, HandlePin, HandleMute, SetReaction, SetPin, SetMute
<1> QED
  BY <1>1, <1>2, <1>3, <1>4 DEF Handle

\* A relay reaches its peer.
Arrives(l, r, links) == Answered200(l[2], r, links) \/ Answered403(l[2], r, links)

LEMMA ArriveKept ==
  ASSUME IInv, NEW l \in Links, NEW r \in Proper(l, Taken), NEW links, NEW m \in Msgs,
         Arrives(l, r, links), Kept(m)'
  PROVE  Kept(m)
<1>1. row' = row \/ Handle(l[2], r)
  BY DEF Arrives, Answered200, Answered403, tables
<1>2. row'[HomeOf(m)][m] # Absent => row[HomeOf(m)][m] # Absent
  BY <1>1, HandleNotHome
<1> QED
  BY <1>2 DEF Kept, HomeOf, Absent

\* The relay of a kept message is not refused: its author is never held muted.
LEMMA KeptNotRefused ==
  ASSUME WrittenOK, NEW l \in Links, NEW r \in Proper(l, Taken), NEW m \in Msgs,
         Kept(m), Sent(r, m)
  PROVE  ~Refuses(l[2], r)
<1>1. l[2] \in Gateways /\ r.by = Author[m]
  BY LinkFacts DEF Proper, Signed, Sent
<1>2. muted[l[2]] \subseteq Moderated
  BY <1>1 DEF WrittenOK, SideTables
<1> QED
  BY <1>1, <1>2 DEF Refuses, Kept

LEMMA ArriveSeen ==
  ASSUME IInv, WrittenOK, NEW l \in Links, NEW r \in Proper(l, Taken),
         r \in Genuine(Written, Deleted), NEW links, NEW m \in Msgs,
         Arrives(l, r, links), Kept(m), Reaches(m)
  PROVE  /\ \A g \in Gateways : m \in seen[g] => m \in seen'[g]
         /\ \A g \in Gateways : m \in seen'[g] => row'[g][m] # Absent
         /\ Sent(r, m) => m \in seen'[l[2]] /\ Answered200(l[2], r, links)
<1> DEFINE g == l[2]
<1>0. g \in Gateways /\ seen \in [Gateways -> SUBSET Msgs]
  BY LinkFacts DEF IInv, Tables, Types
<1>1. CASE Answered200(g, r, links) /\ Known(g, r)
  <2>1. row' = row /\ seen' = seen
    BY <1>1 DEF Answered200, tables
  <2>2. Sent(r, m) => m \in seen[g]
    BY <1>1 DEF Known, Sent
  <2> QED
    BY <1>1, <2>1, <2>2 DEF Reaches
<1>2. CASE Answered200(g, r, links) /\ ~Known(g, r)
  <2>1. Handle(g, r) /\ RecordId(g, r)
    BY <1>2 DEF Answered200
  <2>2. /\ \A h \in Gateways : row[h][m] # Absent => row'[h][m] # Absent
        /\ Sent(r, m) => row'[g][m] # Absent
    BY <1>0, <2>1, HandleRows
  <2>3. \A h \in Gateways :
          /\ m \in seen[h] => m \in seen'[h]
          /\ m \in seen'[h] => m \in seen[h] \/ (h = g /\ Sent(r, m))
    BY <1>0, <2>1 DEF RecordId, Sent
  <2>4. Sent(r, m) => m \in seen'[g]
    BY <1>0, <2>1 DEF RecordId, Sent
  <2>5. \A h \in Gateways : m \in seen'[h] => row'[h][m] # Absent
    BY <2>2, <2>3 DEF Reaches
  <2> QED
    BY <1>2, <2>3, <2>4, <2>5
<1>3. CASE Answered403(g, r, links)
  <2>1. ~Sent(r, m)
    BY <1>3, KeptNotRefused DEF Answered403
  <2>2. row' = row /\ RecordId(g, r)
    BY <1>3 DEF Answered403, tables
  <2>3. \A h \in Gateways : (m \in seen'[h]) = (m \in seen[h])
    BY <1>0, <2>1, <2>2 DEF RecordId, Sent
  <2> QED
    BY <2>1, <2>2, <2>3 DEF Reaches
<1> QED
  BY <1>1, <1>2, <1>3 DEF Arrives

\* The links keep what they had, and the host passes on what it takes.
LEMMA ArriveLinks ==
  ASSUME IInv, WrittenOK, NEW l \in Links, NEW r \in Proper(l, Taken),
         r \in Genuine(Written, Deleted), NEW links, links \in [Links -> Seq(Relay)],
         NEW m \in Msgs, Arrives(l, r, links), Kept(m), Reaches(m)
  PROVE  /\ \A k \in Links : OnLink(links, m, k) => OnLink(link', m, k)
         /\ m \in seen'[Host] /\ m \notin seen[Host] =>
              \A g \in Mirrors \ {HomeOf(m)} : OnLink(link', m, <<Host, g>>)
<1> DEFINE g == l[2]
<1>0. g \in Gateways /\ seen \in [Gateways -> SUBSET Msgs] /\ r \in Relay /\ Host \in Gateways
  BY LinkFacts, RoomAssumption DEF IInv, Tables, Types, Proper
<1>1. CASE Answered200(g, r, links) /\ Known(g, r)
  BY <1>1 DEF Answered200
<1>2. CASE Answered200(g, r, links) /\ ~Known(g, r)
  <2>1. Forward(links, g, r) /\ RecordId(g, r)
    BY <1>2 DEF Answered200
  <2>2. \A k \in Links : OnLink(links, m, k) => OnLink(link', m, k)
    BY <1>0, <2>1, OnLinkAppend DEF Forward
  <2>3. ASSUME m \in seen'[Host], m \notin seen[Host], NEW h \in Mirrors \ {HomeOf(m)}
        PROVE  OnLink(link', m, <<Host, h>>)
    <3> DEFINE k == <<Host, h>>
    <3>1. g = Host /\ Sent(r, m)
      BY <1>0, <2>1, <2>3 DEF RecordId, Sent
    <3>2. r.by = Author[m]
      BY <3>1 DEF Proper, Signed, Sent
    <3>3. k \in Links /\ k[1] = Host /\ k[2] \notin {Home[r.by]}
      BY <3>2 DEF Links, HomeOf
    <3>4. link' = FanOut(links, Host, r, {Home[r.by]})
      BY <2>1, <3>1 DEF Forward
    <3> HIDE DEF k
    <3>5. OnLink(link', m, k)
      BY <1>0, <3>1, <3>3, <3>4, OnLinkAppend
    <3> QED
      BY <3>5 DEF k
  <2> QED
    BY <2>2, <2>3
<1>3. CASE Answered403(g, r, links)
  <2>1. ~Sent(r, m)
    BY <1>3, KeptNotRefused DEF Answered403
  <2>2. link' = links /\ RecordId(g, r)
    BY <1>3 DEF Answered403
  <2>3. (m \in seen'[Host]) = (m \in seen[Host])
    BY <1>0, <2>1, <2>2 DEF RecordId, Sent
  <2> QED
    BY <2>2, <2>3
<1> QED
  BY <1>1, <1>2, <1>3 DEF Arrives

\* So a message stays on its way when a relay arrives that was taken off a
\* link or out of the queue.
LEMMA ArriveReaches ==
  ASSUME IInv, WrittenOK, OnItsWay, NEW l \in Links, NEW r \in Proper(l, Taken),
         r \in Genuine(Written, Deleted), NEW links, links \in [Links -> Seq(Relay)],
         Arrives(l, r, links),
         \A m \in Msgs, k \in Links :
            Pending(m, k) =>
               \/ OnLink(links, m, k) \/ OnLink(queued', m, k) \/ m \in swept'[k]
               \/ k = l /\ Sent(r, m)
  PROVE  OnItsWay'
<1> SUFFICES ASSUME NEW m \in Msgs, Kept(m)' PROVE Reaches(m)'
  BY DEF OnItsWay
<1>1. Kept(m) /\ Reaches(m)
  BY ArriveKept DEF OnItsWay
<1>2. /\ \A g \in Gateways : m \in seen[g] => m \in seen'[g]
      /\ \A g \in Gateways : m \in seen'[g] => row'[g][m] # Absent
      /\ Sent(r, m) => m \in seen'[l[2]]
  BY <1>1, ArriveSeen
<1>3. /\ \A k \in Links : OnLink(links, m, k) => OnLink(link', m, k)
      /\ m \in seen'[Host] /\ m \notin seen[Host] =>
           \A g \in Mirrors \ {HomeOf(m)} : OnLink(link', m, <<Host, g>>)
  BY <1>1, ArriveLinks
<1>4. ASSUME NEW k \in Links, Pending(m, k) PROVE Pending(m, k)' \/ m \in seen'[k[2]]
  <2>1. \/ OnLink(links, m, k) \/ OnLink(queued', m, k) \/ m \in swept'[k]
        \/ k = l /\ Sent(r, m)
    BY <1>4
  <2> QED
    BY <2>1, <1>2, <1>3 DEF Pending
<1>5. m \in seen'[Host] /\ m \notin seen[Host] =>
         \A g \in Mirrors \ {HomeOf(m)} : Pending(m, <<Host, g>>)'
  BY <1>3 DEF Pending
<1> QED
  BY <1>1, <1>2, <1>4, <1>5, ReachesOn

LEMMA CommandStepReaches ==
  ASSUME IInv, WrittenOK, OnItsWay,
         \/ \E m \in Msgs : Send(m) \/ Edit(m) \/ Delete(m)
         \/ \E m \in Msgs, u \in Users, on \in BOOLEAN : React(u, m, on)
         \/ \E m \in Msgs, on \in BOOLEAN : Pin(m, on)
         \/ \E u \in Users, on \in BOOLEAN : Mute(u, on)
  PROVE  OnItsWay'
<1> SUFFICES ASSUME NEW n \in Msgs, Kept(n)' PROVE Reaches(n)'
  BY DEF OnItsWay
<1>0. /\ row \in [Gateways -> [Msgs -> Absent..MaxEdits]] /\ HomeOf(n) \in Gateways
      /\ Author[n] \notin Moderated /\ row'[HomeOf(n)][n] # Absent
  BY RoomAssumption DEF IInv, Tables, Types, HomeOf, Kept, Absent
<1>1. ASSUME NEW m \in Msgs, Send(m) PROVE Reaches(n)'
  <2> DEFINE g == Home[Author[m]]
             r == [kind |-> "message", by |-> Author[m], m |-> m]
  <2>1. CASE n = m
    BY <1>1, <2>1, SendReaches
  <2>2. CASE n # m
    <3>1. r \in Relay /\ Command(g, r) /\ row' = [row EXCEPT ![g][m] = IF @ = Absent THEN 0 ELSE @]
      BY <1>1, RoomAssumption DEF Send, SaveMessage, Relay
    <3>2. \A h \in Gateways : row'[h][n] = row[h][n]
      BY <1>0, <2>2, <3>1
    <3>3. Reaches(n)
      BY <1>0, <3>2 DEF OnItsWay, Kept
    <3> QED
      BY <3>1, <3>2, <3>3, CommandReaches
  <2> QED
    BY <2>1, <2>2
<1>2. ASSUME NEW m \in Msgs, Edit(m) PROVE Reaches(n)'
  <2> DEFINE g == Home[Author[m]]
             v == row[g][m] + 1
             r == [kind |-> "edit", by |-> Author[m], m |-> m, v |-> v]
  <2>1. g \in Gateways /\ row[g][m] \in Absent..MaxEdits
    BY <1>0, RoomAssumption
  <2>2. v \in 0..MaxEdits
    BY <1>2, <2>1, RoomAssumption DEF Edit, Absent
  <2>3. r \in Relay /\ Command(g, r)
    BY <1>2, <2>2, RoomAssumption DEF Edit, Relay
  <2>4. row' = [row EXCEPT ![g][m] = IF @ = Absent THEN @ ELSE v]
    BY <1>2 DEF Edit, UpdateMessage
  <2> HIDE DEF v, g, r
  <2>5. \A h \in Gateways : (row'[h][n] # Absent) = (row[h][n] # Absent)
    BY <1>0, <2>1, <2>2, <2>4 DEF Absent
  <2>6. Reaches(n)
    BY <1>0, <2>5 DEF OnItsWay, Kept
  <2> QED
    BY <2>3, <2>5, <2>6, CommandReaches
<1>3. ASSUME NEW m \in Msgs, Delete(m) PROVE Reaches(n)'
  <2> DEFINE g == Home[Author[m]]
             r == [kind |-> "delete", by |-> Author[m], m |-> m]
  <2>1. r \in Relay /\ Command(g, r) /\ row' = [row EXCEPT ![g][m] = Absent] /\ g \in Gateways
    BY <1>3, RoomAssumption DEF Delete, DeleteMessage, Relay
  <2>2. n # m
    BY <1>0, <2>1 DEF HomeOf
  <2>3. \A h \in Gateways : row'[h][n] = row[h][n]
    BY <1>0, <2>1, <2>2
  <2>4. Reaches(n)
    BY <1>0, <2>3 DEF OnItsWay, Kept
  <2> QED
    BY <2>1, <2>3, <2>4, CommandReaches
<1>4. ASSUME NEW g, NEW r \in Relay, Command(g, r), row' = row PROVE Reaches(n)'
  <2>1. Reaches(n)
    BY <1>0, <1>4 DEF OnItsWay, Kept
  <2> QED
    BY <1>4, <2>1, CommandReaches
<1>5. ASSUME NEW m \in Msgs, NEW u \in Users, NEW on \in BOOLEAN, React(u, m, on) PROVE Reaches(n)'
  <2> DEFINE r == [kind |-> IF on THEN "add" ELSE "remove", by |-> u, m |-> m]
  <2>1. r \in Relay /\ Command(Home[u], r) /\ row' = row
    BY <1>5 DEF React, SetReaction, Relay
  <2> QED
    BY <1>4, <2>1
<1>6. ASSUME NEW m \in Msgs, NEW on \in BOOLEAN, Pin(m, on) PROVE Reaches(n)'
  <2> DEFINE r == [kind |-> IF on THEN "pin" ELSE "unpin", by |-> Owner, m |-> m]
  <2>1. r \in Relay /\ Command(Host, r) /\ row' = row
    BY <1>6, RoomAssumption DEF Pin, SetPin, Relay
  <2> QED
    BY <1>4, <2>1
<1>7. ASSUME NEW u \in Users, NEW on \in BOOLEAN, Mute(u, on) PROVE Reaches(n)'
  <2> DEFINE r == [kind |-> IF on THEN "mute" ELSE "unmute", by |-> Owner, who |-> u]
  <2>1. r \in Relay /\ Command(Host, r) /\ row' = row
    BY <1>7, RoomAssumption DEF Mute, SetMute, Relay
  <2> QED
    BY <1>4, <2>1
<1> QED
  BY <1>1, <1>2, <1>3, <1>5, <1>6, <1>7

LEMMA PostReaches ==
  ASSUME IInv, WrittenOK, OnItsWay, NEW l \in Links, Post(l) \/ PostFails(l)
  PROVE  OnItsWay'
<1> DEFINE r == Head(link[l])
           rest == [link EXCEPT ![l] = Tail(@)]
<1>1. link[l] # <<>>
  BY DEF Post, PostFails
<1>2. link \in [Links -> Seq(Relay)] /\ queued \in [Links -> Seq(Relay)]
  BY DEF IInv, WireOK, LinksOK
<1>3. r \in Proper(l, Taken) /\ r \in Genuine(Written, Deleted) /\ r \in Relay
  <2>1. r \in Proper(l, Taken)
    BY <1>1, RestOK DEF IInv, WireOK
  <2>2. r \in Genuine(Written, Deleted)
    <3> DEFINE S == Genuine(Written, Deleted)
    <3>1. link \in [Links -> Seq(S)]
      BY DEF WrittenOK, Carried
    <3> HIDE DEF S
    <3>2. r \in S
      BY <1>1, <3>1, CarriedRest
    <3> QED
      BY <3>2 DEF S
  <2> QED
    BY <2>1, <2>2 DEF Proper, Signed
<1>4. rest \in [Links -> Seq(Relay)]
  BY <1>1, <1>2, CarriedRest
<1>5. (UNCHANGED queued \/ Queue(l, r)) /\ swept' = swept
  BY DEF Post, PostFails
<1>6. \A m \in Msgs, k \in Links : OnLink(queued, m, k) => OnLink(queued', m, k)
  <2> HIDE DEF r
  <2> QED
    BY <1>2, <1>3, <1>5, OnQueueAppend
<1>7. \A m \in Msgs, k \in Links :
         OnLink(link, m, k) => OnLink(rest, m, k) \/ (k = l /\ Sent(r, m))
  BY <1>1, <1>2, OnLinkRest
<1>8. CASE Arrives(l, r, rest)
  <2>1. \A m \in Msgs, k \in Links :
          Pending(m, k) =>
             \/ OnLink(rest, m, k) \/ OnLink(queued', m, k) \/ m \in swept'[k]
             \/ k = l /\ Sent(r, m)
    BY <1>5, <1>6, <1>7 DEF Pending
  <2> HIDE DEF r, rest
  <2> QED
    BY <1>3, <1>4, <1>8, <2>1, ArriveReaches
<1>9. CASE link' = rest /\ Queue(l, r) /\ UNCHANGED <<tables, seen, history>>
  <2> SUFFICES ASSUME NEW m \in Msgs, Kept(m)' PROVE Reaches(m)'
    BY DEF OnItsWay
  <2>1. row' = row /\ seen' = seen
    BY <1>9 DEF tables
  <2>2. Reaches(m)
    BY <2>1 DEF OnItsWay, Kept, HomeOf, Absent
  <2>3. Sent(r, m) => OnLink(queued', m, l)
    <3> HIDE DEF r
    <3> QED
      BY <1>2, <1>3, <1>9, OnQueueAppend
  <2>4. \A k \in Links : Pending(m, k) => Pending(m, k)'
    BY <1>5, <1>6, <1>7, <1>9, <2>3 DEF Pending
  <2>5. \A g \in Gateways : m \in seen'[g] => row'[g][m] # Absent
    BY <2>1, <2>2 DEF Reaches
  <2> QED
    BY <2>1, <2>2, <2>4, <2>5, RoomAssumption, ReachesOn
<1> QED
  BY <1>8, <1>9 DEF Post, PostFails, Arrives

LEMMA RetryReaches ==
  ASSUME IInv, WrittenOK, OnItsWay, NEW l \in Links, NEW i \in DOMAIN queued[l],
         Retry(l, i) \/ RetryFails(l, i) \/ ExpireStale(l, i)
  PROVE  OnItsWay'
<1> DEFINE r == queued[l][i]
<1>1. link \in [Links -> Seq(Relay)] /\ queued \in [Links -> Seq(Relay)]
  BY DEF IInv, WireOK, LinksOK
<1>2. r \in Proper(l, Taken) /\ r \in Genuine(Written, Deleted)
  <2>1. r \in Proper(l, Taken)
    BY RowOK DEF IInv, WireOK
  <2>2. r \in Genuine(Written, Deleted)
    <3> DEFINE S == Genuine(Written, Deleted)
    <3>1. queued \in [Links -> Seq(S)]
      BY DEF WrittenOK, Carried
    <3> HIDE DEF S
    <3>2. r \in S
      BY <3>1, CarriedRow
    <3> QED
      BY <3>2 DEF S
  <2> QED
    BY <2>1, <2>2
<1>3. \A m \in Msgs, k \in Links :
         OnLink(queued, m, k) => OnLink(queued', m, k) \/ (k = l /\ Sent(r, m))
  <2>1. Unqueue(l, i) \/ queued' = queued
    BY DEF Retry, RetryFails, ExpireStale
  <2>2. CASE Unqueue(l, i)
    BY <1>1, <2>2, OnQueueWithout
  <2>3. CASE queued' = queued
    BY <2>3
  <2> QED
    BY <2>1, <2>2, <2>3
<1>4. CASE Arrives(l, r, link) /\ swept' = swept
  <2>1. \A m \in Msgs, k \in Links :
          Pending(m, k) =>
             \/ OnLink(link, m, k) \/ OnLink(queued', m, k) \/ m \in swept'[k]
             \/ k = l /\ Sent(r, m)
    BY <1>3, <1>4 DEF Pending
  <2> HIDE DEF r
  <2> QED
    BY <1>1, <1>2, <1>4, <2>1, ArriveReaches
<1>5. CASE ExpireStale(l, i)
  <2> SUFFICES ASSUME NEW m \in Msgs, Kept(m)' PROVE Reaches(m)'
    BY DEF OnItsWay
  <2>1. row' = row /\ seen' = seen /\ link' = link
    BY <1>5 DEF ExpireStale, tables
  <2>2. Reaches(m)
    BY <2>1 DEF OnItsWay, Kept, HomeOf, Absent
  <2>3. \A k \in Links : m \in swept[k] => m \in swept'[k]
    BY <1>5 DEF ExpireStale, WrittenOK, Counted
  <2>4. Sent(r, m) => m \in seen[l[2]] \/ m \in swept'[l]
    BY <1>5 DEF ExpireStale, Sent, WrittenOK, Counted
  <2>5. \A k \in Links : Pending(m, k) => Pending(m, k)' \/ m \in seen'[k[2]]
    <3> HIDE DEF r
    <3> QED
      BY <1>3, <2>1, <2>3, <2>4 DEF Pending
  <2>6. \A g \in Gateways : m \in seen'[g] => row'[g][m] # Absent
    BY <2>1, <2>2 DEF Reaches
  <2> QED
    BY <2>1, <2>2, <2>5, <2>6, RoomAssumption, ReachesOn
<1> QED
  BY <1>4, <1>5 DEF Retry, RetryFails, Arrives

LEMMA StepReaches == IInv /\ WrittenOK /\ OnItsWay /\ [Next]_vars => OnItsWay'
<1> SUFFICES ASSUME IInv, WrittenOK, OnItsWay, [Next]_vars PROVE OnItsWay'
  OBVIOUS
<1>1. CASE UNCHANGED vars
  <2>1. UNCHANGED <<row, seen, link, queued, swept>>
    BY <1>1 DEF vars, tables, wire
  <2> QED
    BY <2>1 DEF OnItsWay, Kept, Reaches, Pending, HomeOf, Absent, Mirrors
<1>2. CASE Next
  BY <1>2, CommandStepReaches, PostReaches, RetryReaches DEF Next
<1> QED
  BY <1>1, <1>2

THEOREM OnItsWayHolds == Spec => []OnItsWay
<1>1. Init => OnItsWay
  <2> SUFFICES ASSUME Init, NEW m \in Msgs PROVE ~Kept(m)
    BY DEF OnItsWay
  <2>1. HomeOf(m) \in Gateways
    BY RoomAssumption DEF HomeOf
  <2> QED
    BY <2>1 DEF Init, Kept
<1> QED
  BY <1>1, StepReaches, InvHolds, WrittenHolds, PTL DEF Spec

\* Once nothing is left to post, a message that its author has not deleted is
\* on every gateway, whatever was lost, answered to no one or posted again, but
\* for those on whose way there a row of it was swept.
THEOREM MessagesArrive == Spec => []EveryMessageArrives
<1>1. OnItsWay => EveryMessageArrives
  <2> SUFFICES ASSUME OnItsWay, Quiet, NEW m \in Msgs, row[HomeOf(m)][m] # Absent,
                      Author[m] \notin Moderated, NEW g \in Gateways,
                      \A l \in Route(m, g) : m \notin swept[l]
               PROVE  row[g][m] # Absent
    BY DEF EveryMessageArrives, HomeOf
  <2>1. Reaches(m) /\ HomeOf(m) \in Gateways
    BY RoomAssumption DEF OnItsWay, Kept, HomeOf
  <2>2. \A l \in Route(m, g) : ~Pending(m, l)
    BY DEF Quiet, Pending, OnLink, Route
  <2>3. HomeOf(m) = Host \/ m \in seen[Host]
    <3> SUFFICES ASSUME HomeOf(m) # Host PROVE m \in seen[Host]
      OBVIOUS
    <3> DEFINE k == <<HomeOf(m), Host>>
    <3>1. k \in Route(m, g)
      BY <2>1 DEF Links, Mirrors, Route, HomeOf
    <3>2. m \in seen[Host] \/ Pending(m, k)
      BY <2>1 DEF Reaches
    <3> HIDE DEF k
    <3> QED
      BY <2>2, <3>1, <3>2
  <2>4. CASE g = HomeOf(m)
    BY <2>4
  <2>5. CASE g = Host
    BY <2>1, <2>3, <2>5 DEF Reaches
  <2>6. CASE g \in Mirrors \ {HomeOf(m)}
    <3> DEFINE k == <<Host, g>>
    <3>1. k \in Route(m, g)
      BY <2>6 DEF Links, Route
    <3>2. m \in seen[g] \/ Pending(m, k)
      BY <2>1, <2>3, <2>6 DEF Reaches
    <3> HIDE DEF k
    <3>3. m \in seen[g]
      BY <2>2, <3>1, <3>2
    <3> QED
      BY <2>1, <3>3 DEF Reaches
  <2> QED
    BY <2>4, <2>5, <2>6 DEF Mirrors
<1> QED
  BY <1>1, OnItsWayHolds, PTL

-----------------------------------------------------------------------------
(* While no POST is lost, the relays on a link are what the gateway at its  *)
(* end lacks.                                                              *)

\* The relays of s, each applied by F to what the one before it left, lead from
\* v to w.  F[r] is a function on the values on which r may come.
Leads(s, F, v, w) ==
    \E h : /\ h[0] = v /\ h[Len(s)] = w
           /\ \A i \in 1..Len(s) : h[i - 1] \in DOMAIN F[s[i]] /\ h[i] = F[s[i]][h[i - 1]]

LEMMA LeadsNowhere ==
  ASSUME NEW F, NEW v
  PROVE  Leads(<<>>, F, v, v) /\ \A w : Leads(<<>>, F, v, w) => v = w
<1>1. Leads(<<>>, F, v, v)
  <2> DEFINE h == [i \in {0} |-> v]
  <2>1. h[0] = v /\ h[Len(<<>>)] = v /\ 1..Len(<<>>) = {}
    OBVIOUS
  <2> HIDE DEF h
  <2> QED
    BY <2>1 DEF Leads
<1>2. \A w : Leads(<<>>, F, v, w) => v = w
  BY DEF Leads
<1> QED
  BY <1>1, <1>2

LEMMA LeadsAppend ==
  ASSUME NEW S, NEW s \in Seq(S), NEW r \in S, NEW F, NEW v, NEW w, Leads(s, F, v, w),
         w \in DOMAIN F[r]
  PROVE  Leads(Append(s, r), F, v, F[r][w])
<1> DEFINE n == Len(s)
           t == Append(s, r)
<1>1. PICK h : /\ h[0] = v /\ h[n] = w
               /\ \A i \in 1..n : h[i - 1] \in DOMAIN F[s[i]] /\ h[i] = F[s[i]][h[i - 1]]
  BY DEF Leads
<1>2. n \in Nat /\ Len(t) = n + 1 /\ t[n + 1] = r /\ \A i \in 1..n : t[i] = s[i]
  OBVIOUS
<1> HIDE DEF n, t
<1> DEFINE k == [i \in 0..(n + 1) |-> IF i = n + 1 THEN F[r][w] ELSE h[i]]
<1>3. k[0] = v /\ k[Len(t)] = F[r][w]
  BY <1>1, <1>2
<1>4. ASSUME NEW i \in 1..Len(t)
      PROVE  k[i - 1] \in DOMAIN F[t[i]] /\ k[i] = F[t[i]][k[i - 1]]
  <2>1. CASE i = n + 1
    <3>1. k[i - 1] = w /\ k[i] = F[r][w] /\ t[i] = r
      BY <1>1, <1>2, <2>1
    <3> QED
      BY <3>1
  <2>2. CASE i # n + 1
    <3>1. i \in 1..n /\ i - 1 \in 0..(n + 1) /\ i - 1 # n + 1
      BY <1>2, <2>2
    <3>2. k[i - 1] = h[i - 1] /\ k[i] = h[i] /\ t[i] = s[i]
      BY <1>2, <3>1
    <3> QED
      BY <1>1, <3>1, <3>2
  <2> QED
    BY <2>1, <2>2
<1> HIDE DEF k
<1>5. Leads(t, F, v, F[r][w])
  BY <1>3, <1>4 DEF Leads
<1> QED
  BY <1>5 DEF t

LEMMA LeadsTail ==
  ASSUME NEW S, NEW s \in Seq(S), s # <<>>, NEW F, NEW v, NEW w, Leads(s, F, v, w)
  PROVE  /\ v \in DOMAIN F[Head(s)]
         /\ Leads(Tail(s), F, F[Head(s)][v], w)
<1> DEFINE n == Len(s)
           t == Tail(s)
           r == Head(s)
<1>1. PICK h : /\ h[0] = v /\ h[n] = w
               /\ \A i \in 1..n : h[i - 1] \in DOMAIN F[s[i]] /\ h[i] = F[s[i]][h[i - 1]]
  BY DEF Leads
<1>2. n \in Nat \ {0} /\ Len(t) = n - 1 /\ s[1] = r /\ \A i \in 1..(n - 1) : t[i] = s[i + 1]
  OBVIOUS
<1> HIDE DEF n, t, r
<1>3. h[0] \in DOMAIN F[r] /\ h[1] = F[r][v]
  <2>1. 1 \in 1..n /\ 1 - 1 = 0
    BY <1>2
  <2> QED
    BY <1>1, <1>2, <2>1
<1> DEFINE k == [i \in 0..(n - 1) |-> h[i + 1]]
<1>4. k[0] = F[r][v] /\ k[Len(t)] = w
  BY <1>1, <1>2, <1>3
<1>5. ASSUME NEW i \in 1..Len(t)
      PROVE  k[i - 1] \in DOMAIN F[t[i]] /\ k[i] = F[t[i]][k[i - 1]]
  <2>1. i + 1 \in 1..n /\ i \in 0..(n - 1) /\ i - 1 \in 0..(n - 1) /\ i - 1 + 1 = i /\ i + 1 - 1 = i
        /\ i \in 1..(n - 1)
    BY <1>2
  <2>2. k[i - 1] = h[i] /\ k[i] = h[i + 1] /\ t[i] = s[i + 1]
    BY <1>2, <2>1
  <2>3. h[i + 1 - 1] \in DOMAIN F[s[i + 1]] /\ h[i + 1] = F[s[i + 1]][h[i + 1 - 1]]
    BY <1>1, <2>1
  <2> QED
    BY <2>1, <2>2, <2>3
<1> HIDE DEF k
<1>6. Leads(t, F, F[r][v], w)
  BY <1>4, <1>5 DEF Leads
<1> QED
  BY <1>1, <1>3, <1>6 DEF t, r

-----------------------------------------------------------------------------
(* The ways of an entry that is written on gateway w only: to the host, and *)
(* from the host to the others.                                            *)

Feeds(w) == {l \in Links : l[1] \in {Host, w} /\ l[2] # w}

\* V[g] is what gateway g has of the entry, and F[r] what a relay r makes of it.
Flows(w, F, V, x) == \A l \in Feeds(w) : Leads(x[l], F, V[l[2]], V[l[1]])

\* Gateway g takes r.
Applied(V, U, F, g, r) ==
    /\ V[g] \in DOMAIN F[r]
    /\ U[g] = F[r][V[g]]
    /\ \A h \in Gateways : h # g => U[h] = V[h]

LEMMA SameLink ==
  ASSUME NEW k \in Links, NEW l \in Links, k[1] = l[1], k[2] = l[2]
  PROVE  k = l
  BY DEF Links

LEMMA LinkEnds ==
  ASSUME NEW l \in Links
  PROVE  /\ l[1] \in Gateways /\ l[2] \in Gateways /\ l[1] # l[2]
         /\ l[1] # Host => l[2] = Host
  BY LinkFacts DEF Links

\* A command at g, of a member of g.
LEMMA FlowsCommand ==
  ASSUME NEW x \in [Links -> Seq(Relay)], NEW w, NEW F, NEW V, NEW U, Flows(w, F, V, x),
         NEW g, NEW r \in Relay, Applied(V, U, F, g, r), g # w => U[g] = V[g]
  PROVE  Flows(w, F, U, FanOut(x, g, r, {}))
<1> DEFINE y == FanOut(x, g, r, {})
<1> SUFFICES ASSUME NEW l \in Feeds(w) PROVE Leads(y[l], F, U[l[2]], U[l[1]])
  BY DEF Flows
<1>1. l \in Links /\ l[2] # w /\ l[1] \in {Host, w} /\ x[l] \in Seq(Relay)
  BY DEF Feeds
<1>2. Leads(x[l], F, V[l[2]], V[l[1]])
  BY DEF Flows
<1>3. y[l] = IF l[1] = g THEN Append(x[l], r) ELSE x[l]
  BY <1>1 DEF FanOut
<1> HIDE DEF y
<1>4. CASE l[1] = g
  <2>1. U[l[1]] = F[r][V[l[1]]] /\ V[l[1]] \in DOMAIN F[r] /\ U[l[2]] = V[l[2]]
    BY <1>1, <1>4, LinkEnds DEF Applied
  <2> QED
    BY <1>1, <1>2, <1>3, <1>4, <2>1, LeadsAppend
<1>5. CASE l[1] # g
  <2>1. U[l[1]] = V[l[1]] /\ U[l[2]] = V[l[2]]
    BY <1>1, <1>5, LinkEnds DEF Applied
  <2> QED
    BY <1>2, <1>3, <1>5, <2>1
<1> QED
  BY <1>4, <1>5

\* The first relay of a link arrives, and the host passes it on.
LEMMA FlowsArrive ==
  ASSUME NEW x \in [Links -> Seq(Relay)], NEW w, NEW F, NEW V, NEW U, Flows(w, F, V, x),
         NEW k \in Links, x[k] # <<>>, NEW r \in Relay, r = Head(x[k]),
         k[2] # Home[r.by], k[1] \in {Host, Home[r.by]},
         Applied(V, U, F, k[2], r), Home[r.by] # w => U[k[2]] = V[k[2]],
         NEW rest, rest = [x EXCEPT ![k] = Tail(@)]
  PROVE  Flows(w, F, U, IF k[2] = Host THEN FanOut(rest, Host, r, {Home[r.by]}) ELSE rest)
<1> DEFINE y == IF k[2] = Host THEN FanOut(rest, Host, r, {Home[r.by]}) ELSE rest
<1> SUFFICES ASSUME NEW l \in Feeds(w) PROVE Leads(y[l], F, U[l[2]], U[l[1]])
  BY DEF Flows
<1>1. l \in Links /\ l[2] # w /\ l[1] \in {Host, w} /\ x[l] \in Seq(Relay)
  BY DEF Feeds
<1>2. Leads(x[l], F, V[l[2]], V[l[1]])
  BY DEF Flows
<1>3. rest[l] = IF l = k THEN Tail(x[l]) ELSE x[l]
  BY <1>1
<1>4. y[l] = IF k[2] = Host /\ l[1] = Host /\ l[2] # Home[r.by] THEN Append(rest[l], r) ELSE rest[l]
  BY <1>1 DEF FanOut
<1>5. l[1] # l[2] /\ l[1] \in Gateways /\ l[2] \in Gateways /\ k[1] # k[2] /\ k[2] \in Gateways
      /\ (l[1] # Host => l[2] = Host) /\ (k[1] # Host => k[2] = Host)
  BY <1>1, LinkEnds
<1> HIDE DEF y
<1>6. CASE l = k
  <2>1. y[l] = Tail(x[l])
    BY <1>3, <1>4, <1>5, <1>6
  <2>2. Leads(Tail(x[l]), F, F[r][V[l[2]]], V[l[1]])
    BY <1>1, <1>2, <1>6, LeadsTail
  <2>3. U[l[2]] = F[r][V[l[2]]] /\ U[l[1]] = V[l[1]]
    BY <1>5, <1>6 DEF Applied
  <2> QED
    BY <2>1, <2>2, <2>3
<1>7. CASE l # k /\ l[1] = Host /\ k[2] = Host /\ l[2] # Home[r.by]
  <2>1. y[l] = Append(x[l], r)
    BY <1>3, <1>4, <1>7
  <2>2. U[l[1]] = F[r][V[l[1]]] /\ V[l[1]] \in DOMAIN F[r] /\ U[l[2]] = V[l[2]]
    BY <1>5, <1>7 DEF Applied
  <2> QED
    BY <1>1, <1>2, <2>1, <2>2, LeadsAppend
<1>8. CASE l # k /\ ~(l[1] = Host /\ k[2] = Host /\ l[2] # Home[r.by])
  <2>1. y[l] = x[l]
    BY <1>3, <1>4, <1>8
  <2>2. U[l[1]] = V[l[1]]
    <3>1. CASE l[1] # k[2]
      BY <1>5, <3>1 DEF Applied
    <3>2. CASE l[1] = k[2]
      <4>1. Home[r.by] # w
        BY <1>1, <1>5, <1>8, <3>2
      <4> QED
        BY <3>2, <4>1
    <3> QED
      BY <3>1, <3>2
  <2>3. U[l[2]] = V[l[2]]
    <3>1. CASE l[2] # k[2]
      BY <1>5, <3>1 DEF Applied
    <3>2. CASE l[2] = k[2]
      <4>1. l[1] # k[1]
        BY <1>1, <1>8, <3>2, SameLink
      <4>2. Home[r.by] # w
        BY <1>1, <1>5, <3>2, <4>1
      <4> QED
        BY <3>2, <4>2
    <3> QED
      BY <3>1, <3>2
  <2> QED
    BY <1>2, <2>1, <2>2, <2>3
<1> QED
  BY <1>6, <1>7, <1>8

\* The first relay of a link is not taken, or makes no difference to the entry.
LEMMA FlowsDrop ==
  ASSUME NEW x \in [Links -> Seq(Relay)], NEW w, NEW F, NEW V, Flows(w, F, V, x),
         NEW k \in Links, x[k] # <<>>, NEW r, r = Head(x[k]),
         k \in Feeds(w) => F[r][V[k[2]]] = V[k[2]]
  PROVE  Flows(w, F, V, [x EXCEPT ![k] = Tail(@)])
<1> DEFINE y == [x EXCEPT ![k] = Tail(@)]
<1> SUFFICES ASSUME NEW l \in Feeds(w) PROVE Leads(y[l], F, V[l[2]], V[l[1]])
  BY DEF Flows
<1>1. l \in Links /\ x[l] \in Seq(Relay) /\ Leads(x[l], F, V[l[2]], V[l[1]])
  BY DEF Feeds, Flows
<1>2. y[l] = IF l = k THEN Tail(x[l]) ELSE x[l]
  BY <1>1
<1> HIDE DEF y
<1>3. CASE l = k
  BY <1>1, <1>2, <1>3, LeadsTail
<1>4. CASE l # k
  BY <1>1, <1>2, <1>4
<1> QED
  BY <1>3, <1>4

\* The host passes on a relay that makes no difference to the entry.
LEMMA FlowsPast ==
  ASSUME NEW x \in [Links -> Seq(Relay)], NEW w, NEW F, NEW V, Flows(w, F, V, x),
         NEW r \in Relay, NEW except, V[Host] \in DOMAIN F[r], F[r][V[Host]] = V[Host]
  PROVE  Flows(w, F, V, FanOut(x, Host, r, except))
<1> DEFINE y == FanOut(x, Host, r, except)
<1> SUFFICES ASSUME NEW l \in Feeds(w) PROVE Leads(y[l], F, V[l[2]], V[l[1]])
  BY DEF Flows
<1>1. l \in Links /\ x[l] \in Seq(Relay) /\ Leads(x[l], F, V[l[2]], V[l[1]])
  BY DEF Feeds, Flows
<1>2. y[l] = IF l[1] = Host /\ l[2] \notin except THEN Append(x[l], r) ELSE x[l]
  BY <1>1 DEF FanOut
<1> HIDE DEF y
<1>3. CASE l[1] = Host /\ l[2] \notin except
  BY <1>1, <1>2, <1>3, LeadsAppend
<1>4. CASE ~(l[1] = Host /\ l[2] \notin except)
  BY <1>1, <1>2, <1>4
<1> QED
  BY <1>3, <1>4

\* With nothing on the links, all gateways have the same of the entry.
LEMMA FlowsQuiet ==
  ASSUME NEW x, NEW w \in Gateways, NEW F, NEW V, Flows(w, F, V, x),
         \A l \in Links : x[l] = <<>>, NEW g \in Gateways
  PROVE  V[g] = V[w]
<1>1. \A l \in Feeds(w) : V[l[2]] = V[l[1]]
  <2> SUFFICES ASSUME NEW l \in Feeds(w) PROVE V[l[2]] = V[l[1]]
    OBVIOUS
  <2>1. Leads(<<>>, F, V[l[2]], V[l[1]])
    BY DEF Flows, Feeds
  <2> QED
    BY <2>1, LeadsNowhere
<1>2. ASSUME w # Host PROVE V[Host] = V[w]
  <2> DEFINE k == <<w, Host>>
  <2>1. k \in Feeds(w) /\ k[1] = w /\ k[2] = Host
    BY <1>2 DEF Feeds, Links, Mirrors
  <2> HIDE DEF k
  <2> QED
    BY <1>1, <2>1
<1>3. ASSUME g # Host, g # w PROVE V[g] = V[Host]
  <2> DEFINE k == <<Host, g>>
  <2>1. k \in Feeds(w) /\ k[1] = Host /\ k[2] = g
    BY <1>3 DEF Feeds, Links, Mirrors
  <2> HIDE DEF k
  <2> QED
    BY <1>1, <2>1
<1> QED
  BY <1>2, <1>3

-----------------------------------------------------------------------------
(* The entries: the row of a message and the record of its id, who is       *)
(* muted, what is pinned, and who reacted.                                  *)

Bit(b) == IF b THEN 1 ELSE 0

RowAt(m) == [g \in Gateways |-> row[g][m]]
RowEffect(m) ==
    [r \in Relay |-> [v \in Absent..MaxEdits |->
        IF r.kind = "message" /\ r.m = m THEN IF v = Absent THEN 0 ELSE v
        ELSE IF r.kind = "edit" /\ r.m = m THEN IF v = Absent THEN v ELSE r.v
        ELSE IF r.kind = "delete" /\ r.m = m THEN Absent ELSE v]]

\* A message is relayed to a gateway once.
SeenAt(m) ==
    [g \in Gateways |-> IF g = HomeOf(m) THEN Bit(m \in Written) ELSE Bit(m \in seen[g])]
SeenEffect(m) ==
    [r \in Relay |-> [v \in IF Sent(r, m) THEN {0} ELSE {0, 1} |-> IF Sent(r, m) THEN 1 ELSE v]]

\* What the host took is not refused by those it passes it on to.
MutedAt(u) == [g \in Gateways |-> Bit(u \in muted[g])]
MuteEffect(u) ==
    [r \in Relay |-> [v \in IF r.kind = "message" /\ r.by = u THEN {0} ELSE {0, 1} |->
        IF r.kind = "mute" /\ r.who = u THEN 1
        ELSE IF r.kind = "unmute" /\ r.who = u THEN 0 ELSE v]]

PinnedAt(m) == [g \in Gateways |-> Bit(m \in pins[g])]
PinEffect(m) ==
    [r \in Relay |-> [v \in {0, 1} |->
        IF r.kind = "pin" /\ r.m = m THEN 1
        ELSE IF r.kind = "unpin" /\ r.m = m THEN 0 ELSE v]]

ReactedAt(m, u) == [g \in Gateways |-> Bit(<<m, u>> \in reacted[g])]
ReactEffect(m, u) ==
    [r \in Relay |-> [v \in {0, 1} |->
        IF r.kind = "add" /\ r.m = m /\ r.by = u THEN 1
        ELSE IF r.kind = "remove" /\ r.m = m /\ r.by = u THEN 0 ELSE v]]

\* A row that waits was refused: it is a reaction, or a message whose id is
\* recorded, of someone who may be muted.
Returned(l) ==
    {r \in Relay :
        /\ r.by \in Moderated
        /\ \/ r.kind \in {"add", "remove"}
           \/ r.kind = "message" /\ r.m \in seen[l[2]]}

MessagesFlow ==
    \A m \in Msgs : m \notin refused =>
        /\ Flows(HomeOf(m), RowEffect(m), RowAt(m), link)
        /\ Flows(HomeOf(m), SeenEffect(m), SeenAt(m), link)
MutesFlow == \A u \in Users : Flows(Host, MuteEffect(u), MutedAt(u), link)
MarksFlow ==
    \A m \in Msgs : m \notin Deleted =>
        /\ Flows(Host, PinEffect(m), PinnedAt(m), link)
        /\ \A u \in Users \ Moderated : Flows(Home[u], ReactEffect(m, u), ReactedAt(m, u), link)

RefusedModerated == \A m \in refused : Author[m] \in Moderated

FlowOn == MessagesFlow /\ MutesFlow /\ MarksFlow
Rows == \A l \in Links : queued[l] \in Seq(Returned(l))

\* While no POST is lost.
FlowOK == fails = 0 => FlowOn /\ RefusedModerated /\ Rows

LEMMA RowEffectIs ==
  ASSUME NEW r \in Relay, NEW m
  PROVE  /\ DOMAIN RowEffect(m)[r] = Absent..MaxEdits
         /\ \A v \in Absent..MaxEdits : RowEffect(m)[r][v] =
              IF r.kind = "message" /\ r.m = m THEN IF v = Absent THEN 0 ELSE v
              ELSE IF r.kind = "edit" /\ r.m = m THEN IF v = Absent THEN v ELSE r.v
              ELSE IF r.kind = "delete" /\ r.m = m THEN Absent ELSE v
  BY DEF RowEffect

LEMMA SeenEffectIs ==
  ASSUME NEW r \in Relay, NEW m
  PROVE  /\ DOMAIN SeenEffect(m)[r] = IF Sent(r, m) THEN {0} ELSE {0, 1}
         /\ \A v \in DOMAIN SeenEffect(m)[r] :
              SeenEffect(m)[r][v] = IF Sent(r, m) THEN 1 ELSE v
  BY DEF SeenEffect

LEMMA MuteEffectIs ==
  ASSUME NEW r \in Relay, NEW u
  PROVE  /\ DOMAIN MuteEffect(u)[r] = IF r.kind = "message" /\ r.by = u THEN {0} ELSE {0, 1}
         /\ \A v \in DOMAIN MuteEffect(u)[r] : MuteEffect(u)[r][v] =
              IF r.kind = "mute" /\ r.who = u THEN 1
              ELSE IF r.kind = "unmute" /\ r.who = u THEN 0 ELSE v
  BY DEF MuteEffect

LEMMA PinEffectIs ==
  ASSUME NEW r \in Relay, NEW m
  PROVE  /\ DOMAIN PinEffect(m)[r] = {0, 1}
         /\ \A v \in {0, 1} : PinEffect(m)[r][v] =
              IF r.kind = "pin" /\ r.m = m THEN 1
              ELSE IF r.kind = "unpin" /\ r.m = m THEN 0 ELSE v
  BY DEF PinEffect

LEMMA ReactEffectIs ==
  ASSUME NEW r \in Relay, NEW m, NEW u
  PROVE  /\ DOMAIN ReactEffect(m, u)[r] = {0, 1}
         /\ \A v \in {0, 1} : ReactEffect(m, u)[r][v] =
              IF r.kind = "add" /\ r.m = m /\ r.by = u THEN 1
              ELSE IF r.kind = "remove" /\ r.m = m /\ r.by = u THEN 0 ELSE v
  BY DEF ReactEffect

\* What a gateway does with a relay is what the relay makes of each entry.
LEMMA RowApplied ==
  ASSUME IInv, NEW g \in Gateways, NEW r \in Relay, Handle(g, r), NEW m \in Msgs
  PROVE  Applied(RowAt(m), RowAt(m)', RowEffect(m), g, r)
<1>1. row \in [Gateways -> [Msgs -> Absent..MaxEdits]]
  BY DEF IInv, Tables, Types
<1> DEFINE v == row[g][m]
           w == IF r.kind = "message" /\ r.m = m THEN IF v = Absent THEN 0 ELSE v
                ELSE IF r.kind = "edit" /\ r.m = m THEN IF v = Absent THEN v ELSE r.v
                ELSE IF r.kind = "delete" /\ r.m = m THEN Absent ELSE v
<1>2. row'[g][m] = w /\ \A h \in Gateways : h # g => row'[h][m] = row[h][m]
  <2>1. CASE HandleRoom(g, r)
    BY <1>1, <2>1, RelayFacts DEF HandleRoom, SaveMessage
  <2>2. CASE HandleEdit(g, r)
    BY <1>1, <2>2, RelayFacts DEF HandleEdit, UpdateMessage
  <2>3. CASE HandleDelete(g, r)
    BY <1>1, <2>3, RelayFacts DEF HandleDelete, DeleteMessage
  <2>4. CASE HandleReaction(g, r) \/ HandlePin(g, r) \/ HandleMute(g, r)
    BY <2>4 DEF HandleReaction, HandlePin, HandleMute, SetReaction, SetPin, SetMute
  <2> QED
    BY <2>1, <2>2, <2>3, <2>4 DEF Handle
<1>3. v \in Absent..MaxEdits
  BY <1>1
<1>4. RowEffect(m)[r][v] = w /\ v \in DOMAIN RowEffect(m)[r]
  <2>1. /\ DOMAIN RowEffect(m)[r] = Absent..MaxEdits
        /\ \A u \in Absent..MaxEdits : RowEffect(m)[r][u] =
             IF r.kind = "message" /\ r.m = m THEN IF u = Absent THEN 0 ELSE u
             ELSE IF r.kind = "edit" /\ r.m = m THEN IF u = Absent THEN u ELSE r.v
             ELSE IF r.kind = "delete" /\ r.m = m THEN Absent ELSE u
    BY RowEffectIs
  <2> HIDE DEF v
  <2> QED
    BY <1>3, <2>1, Zenon
<1>5. \A h \in Gateways : RowAt(m)[h] = row[h][m] /\ RowAt(m)'[h] = row'[h][m]
  BY DEF RowAt
<1> HIDE DEF v, w
<1> QED
  BY <1>2, <1>4, <1>5 DEF Applied, v

LEMMA MuteApplied ==
  ASSUME SideTables, NEW g \in Gateways, NEW r \in Relay, Handle(g, r), NEW u \in Users,
         r.kind = "message" /\ r.by = u => u \notin muted[g]
  PROVE  Applied(MutedAt(u), MutedAt(u)', MuteEffect(u), g, r)
<1>1. muted \in [Gateways -> SUBSET Moderated]
  BY DEF SideTables
<1> DEFINE v == Bit(u \in muted[g])
           w == IF r.kind = "mute" /\ r.who = u THEN 1
                ELSE IF r.kind = "unmute" /\ r.who = u THEN 0 ELSE v
<1>2. Bit(u \in muted'[g]) = w /\ \A h \in Gateways : h # g => muted'[h] = muted[h]
  <2>1. CASE HandleRoom(g, r)
    BY <2>1 DEF HandleRoom, SaveMessage
  <2>2. CASE HandleEdit(g, r)
    BY <2>2 DEF HandleEdit, UpdateMessage
  <2>3. CASE HandleDelete(g, r)
    BY <2>3 DEF HandleDelete, DeleteMessage
  <2>4. CASE HandleReaction(g, r) \/ HandlePin(g, r)
    BY <2>4 DEF HandleReaction, HandlePin, SetReaction, SetPin
  <2>5. CASE HandleMute(g, r)
    BY <1>1, <2>5 DEF HandleMute, SetMute, Bit
  <2> QED
    BY <2>1, <2>2, <2>3, <2>4, <2>5 DEF Handle
<1>3. v \in DOMAIN MuteEffect(u)[r]
  <2>1. v \in {0, 1} /\ (r.kind = "message" /\ r.by = u => v = 0)
    BY DEF Bit
  <2> HIDE DEF v
  <2> QED
    BY <2>1, MuteEffectIs
<1>4. MuteEffect(u)[r][v] = w
  <2> HIDE DEF v
  <2> QED
    BY <1>3, MuteEffectIs
<1>5. \A h \in Gateways :
        MutedAt(u)[h] = Bit(u \in muted[h]) /\ MutedAt(u)'[h] = Bit(u \in muted'[h])
  BY DEF MutedAt, Bit
<1> HIDE DEF v, w
<1> QED
  BY <1>2, <1>3, <1>4, <1>5 DEF Applied, v

LEMMA PinApplied ==
  ASSUME SideTables, NEW g \in Gateways, NEW r \in Relay, Handle(g, r), NEW m \in Msgs,
         ~(r.kind = "delete" /\ r.m = m)
  PROVE  Applied(PinnedAt(m), PinnedAt(m)', PinEffect(m), g, r)
<1>1. pins \in [Gateways -> SUBSET Msgs]
  BY DEF SideTables
<1> DEFINE v == Bit(m \in pins[g])
           w == IF r.kind = "pin" /\ r.m = m THEN 1
                ELSE IF r.kind = "unpin" /\ r.m = m THEN 0 ELSE v
<1>2. Bit(m \in pins'[g]) = w /\ \A h \in Gateways : h # g => pins'[h] = pins[h]
  <2>1. CASE HandleRoom(g, r)
    BY <2>1 DEF HandleRoom, SaveMessage
  <2>2. CASE HandleEdit(g, r)
    BY <2>2 DEF HandleEdit, UpdateMessage
  <2>3. CASE HandleDelete(g, r)
    BY <1>1, <2>3 DEF HandleDelete, DeleteMessage, Bit
  <2>4. CASE HandleReaction(g, r) \/ HandleMute(g, r)
    BY <2>4 DEF HandleReaction, HandleMute, SetReaction, SetMute
  <2>5. CASE HandlePin(g, r)
    BY <1>1, <2>5 DEF HandlePin, SetPin, Bit
  <2> QED
    BY <2>1, <2>2, <2>3, <2>4, <2>5 DEF Handle
<1>3. v \in {0, 1}
  BY DEF Bit
<1>4. PinEffect(m)[r][v] = w /\ v \in DOMAIN PinEffect(m)[r]
  <2> HIDE DEF v
  <2> QED
    BY <1>3, PinEffectIs
<1>5. \A h \in Gateways :
        PinnedAt(m)[h] = Bit(m \in pins[h]) /\ PinnedAt(m)'[h] = Bit(m \in pins'[h])
  BY DEF PinnedAt, Bit
<1> HIDE DEF v, w
<1> QED
  BY <1>2, <1>4, <1>5 DEF Applied, v

LEMMA ReactApplied ==
  ASSUME SideTables, NEW g \in Gateways, NEW r \in Relay, Handle(g, r), NEW m \in Msgs,
         NEW u \in Users, ~(r.kind = "delete" /\ r.m = m)
  PROVE  Applied(ReactedAt(m, u), ReactedAt(m, u)', ReactEffect(m, u), g, r)
<1>1. reacted \in [Gateways -> SUBSET (Msgs \X Users)]
  BY DEF SideTables
<1> DEFINE v == Bit(<<m, u>> \in reacted[g])
           w == IF r.kind = "add" /\ r.m = m /\ r.by = u THEN 1
                ELSE IF r.kind = "remove" /\ r.m = m /\ r.by = u THEN 0 ELSE v
<1>2. Bit(<<m, u>> \in reacted'[g]) = w /\ \A h \in Gateways : h # g => reacted'[h] = reacted[h]
  <2>1. CASE HandleRoom(g, r)
    BY <2>1 DEF HandleRoom, SaveMessage
  <2>2. CASE HandleEdit(g, r)
    BY <2>2 DEF HandleEdit, UpdateMessage
  <2>3. CASE HandleDelete(g, r)
    BY <1>1, <2>3 DEF HandleDelete, DeleteMessage, Bit
  <2>4. CASE HandlePin(g, r) \/ HandleMute(g, r)
    BY <2>4 DEF HandlePin, HandleMute, SetPin, SetMute
  <2>5. CASE HandleReaction(g, r)
    BY <1>1, <2>5 DEF HandleReaction, SetReaction, Bit
  <2> QED
    BY <2>1, <2>2, <2>3, <2>4, <2>5 DEF Handle
<1>3. v \in {0, 1}
  BY DEF Bit
<1>4. ReactEffect(m, u)[r][v] = w /\ v \in DOMAIN ReactEffect(m, u)[r]
  <2> HIDE DEF v
  <2> QED
    BY <1>3, ReactEffectIs
<1>5. \A h \in Gateways : /\ ReactedAt(m, u)[h] = Bit(<<m, u>> \in reacted[h])
                          /\ ReactedAt(m, u)'[h] = Bit(<<m, u>> \in reacted'[h])
  BY DEF ReactedAt, Bit
<1> HIDE DEF v, w
<1> QED
  BY <1>2, <1>4, <1>5 DEF Applied, v

-----------------------------------------------------------------------------
(* A relay that makes no difference to an entry, and who can make one.     *)

\* r makes no difference to an entry.
Idle(F, r) == \A v \in DOMAIN F[r] : F[r][v] = v

\* Only a member of gateway w makes a difference to the entry.
Own(w, F) == \A r \in Relay : Signed(r) /\ Home[r.by] # w => Idle(F, r)

LEMMA RowIdle ==
  ASSUME NEW r \in Relay, NEW m, r.kind \in {"message", "edit", "delete"} => r.m # m
  PROVE  Idle(RowEffect(m), r)
<1> SUFFICES ASSUME NEW v \in DOMAIN RowEffect(m)[r] PROVE RowEffect(m)[r][v] = v
  BY DEF Idle
<1>1. v \in Absent..MaxEdits
  BY RowEffectIs, Zenon
<1>2. \A u \in Absent..MaxEdits : RowEffect(m)[r][u] =
        IF r.kind = "message" /\ r.m = m THEN IF u = Absent THEN 0 ELSE u
        ELSE IF r.kind = "edit" /\ r.m = m THEN IF u = Absent THEN u ELSE r.v
        ELSE IF r.kind = "delete" /\ r.m = m THEN Absent ELSE u
  BY RowEffectIs
<1> QED
  BY <1>1, <1>2, Zenon

LEMMA IdleEntries ==
  ASSUME NEW r \in Relay, r.kind \in {"message", "add", "remove"}
  PROVE  /\ \A m \in Msgs : ~Sent(r, m) => Idle(RowEffect(m), r) /\ Idle(SeenEffect(m), r)
         /\ \A u \in Users : Idle(MuteEffect(u), r)
         /\ \A m \in Msgs : Idle(PinEffect(m), r)
         /\ \A m \in Msgs, u \in Users :
              r.kind = "message" \/ r.by # u => Idle(ReactEffect(m, u), r)
<1>1. ASSUME NEW m \in Msgs, ~Sent(r, m)
      PROVE  Idle(RowEffect(m), r) /\ Idle(SeenEffect(m), r)
  <2>1. Idle(RowEffect(m), r)
    BY <1>1, RowIdle DEF Sent
  <2>2. Idle(SeenEffect(m), r)
    BY <1>1, SeenEffectIs DEF Idle
  <2> QED
    BY <2>1, <2>2
<1>2. ASSUME NEW u \in Users PROVE Idle(MuteEffect(u), r)
  BY MuteEffectIs DEF Idle
<1>3. ASSUME NEW m \in Msgs PROVE Idle(PinEffect(m), r)
  BY PinEffectIs DEF Idle
<1>4. ASSUME NEW m \in Msgs, NEW u \in Users, r.kind = "message" \/ r.by # u
      PROVE  Idle(ReactEffect(m, u), r)
  BY <1>4, ReactEffectIs DEF Idle
<1> QED
  BY <1>1, <1>2, <1>3, <1>4

LEMMA OwnRow ==
  ASSUME NEW m \in Msgs
  PROVE  Own(HomeOf(m), RowEffect(m)) /\ Own(HomeOf(m), SeenEffect(m))
<1> SUFFICES ASSUME NEW r \in Relay, Signed(r), Home[r.by] # HomeOf(m)
             PROVE  Idle(RowEffect(m), r) /\ Idle(SeenEffect(m), r)
  BY DEF Own
<1>1. r.kind \in {"message", "edit", "delete"} => r.m # m
  BY DEF Signed, HomeOf
<1>2. Idle(RowEffect(m), r)
  BY <1>1, RowIdle
<1>3. Idle(SeenEffect(m), r)
  BY <1>1, SeenEffectIs DEF Idle, Sent
<1> QED
  BY <1>2, <1>3

LEMMA OwnMute ==
  ASSUME NEW u
  PROVE  Own(Host, MuteEffect(u))
<1> SUFFICES ASSUME NEW r \in Relay, Signed(r), Home[r.by] # Host
             PROVE  Idle(MuteEffect(u), r)
  BY DEF Own
<1>1. r.kind \notin {"mute", "unmute"}
  BY RoomAssumption DEF Signed
<1> QED
  BY <1>1, MuteEffectIs DEF Idle

LEMMA OwnPin ==
  ASSUME NEW m
  PROVE  Own(Host, PinEffect(m))
<1> SUFFICES ASSUME NEW r \in Relay, Signed(r), Home[r.by] # Host
             PROVE  Idle(PinEffect(m), r)
  BY DEF Own
<1>1. r.kind \notin {"pin", "unpin"}
  BY RoomAssumption DEF Signed
<1> QED
  BY <1>1, PinEffectIs DEF Idle

LEMMA OwnReact ==
  ASSUME NEW m, NEW u
  PROVE  Own(Home[u], ReactEffect(m, u))
<1> SUFFICES ASSUME NEW r \in Relay, Signed(r), Home[r.by] # Home[u]
             PROVE  Idle(ReactEffect(m, u), r)
  BY DEF Own
<1> QED
  BY ReactEffectIs DEF Idle

\* A command of a member, whose relay leaves their gateway.
LEMMA FlowsIssued ==
  ASSUME NEW x \in [Links -> Seq(Relay)], NEW w, NEW F, NEW V, NEW U, Flows(w, F, V, x),
         Own(w, F), NEW r \in Relay, Signed(r), Applied(V, U, F, Home[r.by], r)
  PROVE  Flows(w, F, U, FanOut(x, Home[r.by], r, {}))
<1>1. Home[r.by] # w => U[Home[r.by]] = V[Home[r.by]]
  BY DEF Own, Idle, Applied
<1> DEFINE g == Home[r.by]
<1>2. Applied(V, U, F, g, r) /\ (g # w => U[g] = V[g])
  BY <1>1
<1> HIDE DEF g
<1>3. Flows(w, F, U, FanOut(x, g, r, {}))
  BY <1>2, FlowsCommand
<1> QED
  BY <1>3 DEF g

LEMMA FlowsTaken ==
  ASSUME NEW x \in [Links -> Seq(Relay)], NEW w, NEW F, NEW V, NEW U, Flows(w, F, V, x),
         Own(w, F), NEW k \in Links, x[k] # <<>>, NEW T, NEW r \in Proper(k, T), r = Head(x[k]),
         Applied(V, U, F, k[2], r), NEW rest, rest = [x EXCEPT ![k] = Tail(@)],
         NEW y, y = IF k[2] = Host THEN FanOut(rest, Host, r, {Home[r.by]}) ELSE rest
  PROVE  Flows(w, F, U, y)
<1>1. r \in Relay /\ Signed(r) /\ k[2] # Home[r.by] /\ k[1] \in {Host, Home[r.by]}
  BY DEF Proper
<1>2. Home[r.by] # w => U[k[2]] = V[k[2]]
  BY <1>1 DEF Own, Idle, Applied
<1> QED
  BY <1>1, <1>2, FlowsArrive

LEMMA FlowsIdle ==
  ASSUME NEW x \in [Links -> Seq(Relay)], NEW w, NEW F, NEW V, Flows(w, F, V, x),
         NEW k \in Links, x[k] # <<>>, Idle(F, Head(x[k]))
  PROVE  Flows(w, F, V, [x EXCEPT ![k] = Tail(@)])
<1>1. k \in Feeds(w) => F[Head(x[k])][V[k[2]]] = V[k[2]]
  <2> SUFFICES ASSUME k \in Feeds(w) PROVE F[Head(x[k])][V[k[2]]] = V[k[2]]
    OBVIOUS
  <2>1. Leads(x[k], F, V[k[2]], V[k[1]]) /\ x[k] \in Seq(Relay)
    BY DEF Flows
  <2>2. V[k[2]] \in DOMAIN F[Head(x[k])]
    BY <2>1, LeadsTail
  <2> QED
    BY <2>2 DEF Idle
<1> QED
  BY <1>1, FlowsDrop

-----------------------------------------------------------------------------
(* The commands, and what they and the relays do to each entry.            *)

\* A member's command, by the relay it makes.
Issued(r) ==
    /\ r \in Relay /\ Signed(r)
    /\ Handle(Home[r.by], r) /\ Command(Home[r.by], r)
    /\ r.kind = "message" => r.m \notin Written /\ r.by \notin muted[Home[r.by]]
    /\ r.kind = "delete" => row[HomeOf(r.m)][r.m] # Absent

LEMMA CommandIssued ==
  ASSUME IInv,
         \/ \E m \in Msgs : Send(m) \/ Edit(m) \/ Delete(m)
         \/ \E m \in Msgs, u \in Users, on \in BOOLEAN : React(u, m, on)
         \/ \E m \in Msgs, on \in BOOLEAN : Pin(m, on)
         \/ \E u \in Users, on \in BOOLEAN : Mute(u, on)
  PROVE  \E r \in Relay : Issued(r)
<1>1. ASSUME NEW m \in Msgs, Send(m) PROVE \E r \in Relay : Issued(r)
  <2> DEFINE r == [kind |-> "message", by |-> Author[m], m |-> m]
  <2>1. r \in Relay /\ r.kind = "message" /\ r.by = Author[m] /\ r.m = m
    BY RoomAssumption DEF Relay
  <2>2. /\ Command(Home[Author[m]], r) /\ SaveMessage(Home[Author[m]], m)
        /\ m \notin Written /\ Author[m] \notin muted[Home[Author[m]]]
    BY <1>1 DEF Send
  <2> HIDE DEF r
  <2>3. Handle(Home[r.by], r) /\ Command(Home[r.by], r)
    BY <2>1, <2>2 DEF Handle, HandleRoom
  <2> QED
    BY <2>1, <2>2, <2>3 DEF Issued, Signed
<1>2. ASSUME NEW m \in Msgs, Edit(m) PROVE \E r \in Relay : Issued(r)
  <2> DEFINE g == Home[Author[m]]
             v == row[g][m] + 1
             r == [kind |-> "edit", by |-> Author[m], m |-> m, v |-> v]
  <2>1. g \in Gateways /\ row[g][m] \in Absent..MaxEdits
    BY RoomAssumption DEF IInv, Tables, Types
  <2>2. v \in 0..MaxEdits
    BY <1>2, <2>1, RoomAssumption DEF Edit, Absent
  <2>3. r \in Relay /\ r.kind = "edit" /\ r.by = Author[m] /\ r.m = m /\ r.v = v
    BY <2>2, RoomAssumption DEF Relay
  <2>4. Command(g, r) /\ UpdateMessage(g, m, v)
    BY <1>2 DEF Edit
  <2> HIDE DEF r, v
  <2>5. Handle(Home[r.by], r) /\ Command(Home[r.by], r)
    BY <2>3, <2>4 DEF Handle, HandleEdit
  <2> QED
    BY <2>3, <2>5 DEF Issued, Signed
<1>3. ASSUME NEW m \in Msgs, Delete(m) PROVE \E r \in Relay : Issued(r)
  <2> DEFINE r == [kind |-> "delete", by |-> Author[m], m |-> m]
  <2>1. r \in Relay /\ r.kind = "delete" /\ r.by = Author[m] /\ r.m = m
    BY RoomAssumption DEF Relay
  <2>2. /\ Command(Home[Author[m]], r) /\ DeleteMessage(Home[Author[m]], m)
        /\ row[Home[Author[m]]][m] # Absent
    BY <1>3 DEF Delete
  <2> HIDE DEF r
  <2>3. Handle(Home[r.by], r) /\ Command(Home[r.by], r)
    BY <2>1, <2>2 DEF Handle, HandleDelete
  <2> QED
    BY <2>1, <2>2, <2>3 DEF Issued, Signed, HomeOf
<1>4. ASSUME NEW m \in Msgs, NEW u \in Users, NEW on \in BOOLEAN, React(u, m, on)
      PROVE  \E r \in Relay : Issued(r)
  <2> DEFINE k == IF on THEN "add" ELSE "remove"
             r == [kind |-> k, by |-> u, m |-> m]
  <2>1. k \in {"add", "remove"} /\ (k = "add") = on
    OBVIOUS
  <2>2. Command(Home[u], r) /\ SetReaction(Home[u], m, u, on)
    BY <1>4 DEF React
  <2> HIDE DEF k
  <2>3. r \in Relay /\ r.kind = k /\ r.by = u /\ r.m = m
    BY <2>1 DEF Relay
  <2> HIDE DEF r
  <2>4. HandleReaction(Home[r.by], r) /\ Command(Home[r.by], r)
    BY <2>1, <2>2, <2>3 DEF HandleReaction
  <2> QED
    BY <2>1, <2>3, <2>4 DEF Issued, Signed, Handle
<1>5. ASSUME NEW m \in Msgs, NEW on \in BOOLEAN, Pin(m, on) PROVE \E r \in Relay : Issued(r)
  <2> DEFINE k == IF on THEN "pin" ELSE "unpin"
             r == [kind |-> k, by |-> Owner, m |-> m]
  <2>1. k \in {"pin", "unpin"} /\ (k = "pin") = on /\ Home[Owner] = Host
    BY RoomAssumption
  <2>2. Command(Host, r) /\ SetPin(Host, m, on)
    BY <1>5 DEF Pin
  <2> HIDE DEF k
  <2>3. r \in Relay /\ r.kind = k /\ r.by = Owner /\ r.m = m
    BY <2>1, RoomAssumption DEF Relay
  <2> HIDE DEF r
  <2>4. HandlePin(Home[r.by], r) /\ Command(Home[r.by], r)
    BY <2>1, <2>2, <2>3 DEF HandlePin
  <2> QED
    BY <2>1, <2>3, <2>4 DEF Issued, Signed, Handle
<1>6. ASSUME NEW u \in Users, NEW on \in BOOLEAN, Mute(u, on) PROVE \E r \in Relay : Issued(r)
  <2> DEFINE k == IF on THEN "mute" ELSE "unmute"
             r == [kind |-> k, by |-> Owner, who |-> u]
  <2>1. k \in {"mute", "unmute"} /\ (k = "mute") = on /\ Home[Owner] = Host
    BY RoomAssumption
  <2>2. Command(Host, r) /\ SetMute(Host, u, on)
    BY <1>6 DEF Mute
  <2> HIDE DEF k
  <2>3. r \in Relay /\ r.kind = k /\ r.by = Owner /\ r.who = u
    BY <2>1, RoomAssumption DEF Relay
  <2> HIDE DEF r
  <2>4. HandleMute(Home[r.by], r) /\ Command(Home[r.by], r)
    BY <2>1, <2>2, <2>3 DEF HandleMute
  <2> QED
    BY <2>1, <2>3, <2>4 DEF Issued, Signed, Handle
<1> QED
  BY <1>1, <1>2, <1>3, <1>4, <1>5, <1>6

\* Only sending a message writes one.
LEMMA WrittenBySending ==
  ASSUME Tables, NEW g \in Gateways, NEW r \in Relay, Handle(g, r), NEW m \in Msgs
  PROVE  /\ ~(Sent(r, m) /\ g = HomeOf(m)) => (m \in Written') = (m \in Written)
         /\ Sent(r, m) /\ g = HomeOf(m) => m \in Written'
<1> DEFINE h == HomeOf(m)
<1>0. h \in Gateways /\ row \in [Gateways -> [Msgs -> Absent..MaxEdits]]
      /\ gone \in [Gateways -> SUBSET Msgs]
  BY RoomAssumption DEF HomeOf, Tables, Types
<1>1. /\ (m \in Written) = (row[h][m] # Absent \/ m \in gone[h])
      /\ (m \in Written') = (row'[h][m] # Absent \/ m \in gone'[h])
  BY DEF Written, HomeOf, Absent
<1> HIDE DEF h
<1>2. CASE HandleRoom(g, r)
  <2>1. r.m \in Msgs /\ row' = [row EXCEPT ![g][r.m] = IF @ = Absent THEN 0 ELSE @]
        /\ gone' = gone
    BY <1>2, RelayFacts DEF HandleRoom, SaveMessage
  <2>2. CASE r.m = m /\ g = h
    <3>1. row'[h][m] # Absent
      BY <1>0, <2>1, <2>2 DEF Absent
    <3> QED
      BY <1>1, <1>2, <2>2, <3>1 DEF Sent, HandleRoom, h
  <2>3. CASE ~(r.m = m /\ g = h)
    <3>1. row'[h][m] = row[h][m]
      BY <1>0, <2>1, <2>3
    <3> QED
      BY <1>1, <2>1, <2>3, <3>1 DEF Sent, h
  <2> QED
    BY <2>2, <2>3
<1>3. CASE HandleEdit(g, r)
  <2>1. r.m \in Msgs /\ r.v \in 0..MaxEdits /\ r.kind # "message" /\ gone' = gone
        /\ row' = [row EXCEPT ![g][r.m] = IF @ = Absent THEN @ ELSE r.v]
    BY <1>3, RelayFacts DEF HandleEdit, UpdateMessage
  <2>2. (row'[h][m] # Absent) = (row[h][m] # Absent)
    BY <1>0, <2>1 DEF Absent
  <2> QED
    BY <1>1, <2>1, <2>2 DEF Sent
<1>4. CASE HandleDelete(g, r)
  <2>1. r.m \in Msgs /\ r.kind # "message" /\ row' = [row EXCEPT ![g][r.m] = Absent]
        /\ gone' = IF row[g][r.m] = Absent THEN gone ELSE [gone EXCEPT ![g] = @ \cup {r.m}]
    BY <1>4, RelayFacts DEF HandleDelete, DeleteMessage
  <2>2. (row'[h][m] # Absent \/ m \in gone'[h]) = (row[h][m] # Absent \/ m \in gone[h])
    <3>1. CASE r.m = m /\ g = h
      BY <1>0, <2>1, <3>1
    <3>2. CASE ~(r.m = m /\ g = h)
      BY <1>0, <2>1, <3>2
    <3> QED
      BY <3>1, <3>2
  <2> QED
    BY <1>1, <2>1, <2>2 DEF Sent
<1>5. CASE HandleReaction(g, r) \/ HandlePin(g, r) \/ HandleMute(g, r)
  BY <1>1, <1>5 DEF HandleReaction, HandlePin, HandleMute, SetReaction, SetPin, SetMute, Sent
<1> QED
  BY <1>2, <1>3, <1>4, <1>5 DEF Handle

LEMMA DeletedGrows ==
  ASSUME Tables, NEW g \in Gateways, NEW r \in Relay, Handle(g, r)
  PROVE  /\ Deleted \subseteq Deleted'
         /\ r.kind = "delete" /\ g = HomeOf(r.m) /\ row[g][r.m] # Absent => r.m \in Deleted'
<1>0. gone \in [Gateways -> SUBSET Msgs] /\ \A m \in Msgs : HomeOf(m) \in Gateways
  BY RoomAssumption DEF HomeOf, Tables, Types
<1>1. \A m : (m \in Deleted) = (m \in Msgs /\ m \in gone[HomeOf(m)])
  BY DEF Deleted
<1>2. \A m : (m \in Deleted') = (m \in Msgs /\ m \in gone'[HomeOf(m)])
  BY DEF Deleted, HomeOf
<1>3. \A h \in Gateways : gone[h] \subseteq gone'[h]
  BY <1>0 DEF Handle, HandleRoom, HandleEdit, HandleDelete, HandleReaction, HandlePin, HandleMute,
              SaveMessage, UpdateMessage, DeleteMessage, SetReaction, SetPin, SetMute
<1>4. ASSUME r.kind = "delete", g = HomeOf(r.m), row[g][r.m] # Absent PROVE r.m \in Deleted'
  <2>1. DeleteMessage(g, r.m)
    BY <1>4 DEF Handle, HandleRoom, HandleEdit, HandleDelete, HandleReaction, HandlePin, HandleMute
  <2>2. r.m \in Msgs /\ r.m \in gone'[g]
    BY <1>0, <1>4, <2>1, RelayFacts DEF DeleteMessage
  <2> QED
    BY <1>2, <1>4, <2>2
<1>5. Deleted \subseteq Deleted'
  BY <1>0, <1>1, <1>2, <1>3
<1> QED
  BY <1>4, <1>5

LEMMA SeenApplied ==
  ASSUME Tables, NEW g \in Gateways, NEW r \in Relay, Handle(g, r), NEW m \in Msgs,
         Sent(r, m) => SeenAt(m)[g] = 0,
         \/ g # HomeOf(m) /\ RecordId(g, r)
         \/ g = HomeOf(m) /\ seen' = seen
         \/ ~Sent(r, m) /\ (RecordId(g, r) \/ seen' = seen)
  PROVE  Applied(SeenAt(m), SeenAt(m)', SeenEffect(m), g, r)
<1> DEFINE v == SeenAt(m)[g]
<1>1. \A h \in Gateways :
        /\ SeenAt(m)[h] = IF h = HomeOf(m) THEN Bit(m \in Written) ELSE Bit(m \in seen[h])
        /\ SeenAt(m)'[h] = IF h = HomeOf(m) THEN Bit(m \in Written') ELSE Bit(m \in seen'[h])
  BY DEF SeenAt, HomeOf, Bit
<1>2. seen \in [Gateways -> SUBSET Msgs]
  BY DEF Tables, Types
<1>3. \A h \in Gateways : (m \in seen'[h]) = (m \in seen[h] \/ (h = g /\ h # HomeOf(m) /\ Sent(r, m)))
                           \/ (h = HomeOf(m))
  BY <1>2 DEF RecordId, Sent
<1>4. \A h \in Gateways \ {g} : SeenAt(m)'[h] = SeenAt(m)[h]
  BY <1>1, <1>3, WrittenBySending
<1>5. SeenAt(m)'[g] = IF Sent(r, m) THEN 1 ELSE v
  BY <1>1, <1>3, WrittenBySending DEF Bit
<1>6. v \in DOMAIN SeenEffect(m)[r]
  <2>1. v \in {0, 1}
    BY <1>1 DEF Bit
  <2>2. Sent(r, m) => v = 0
    OBVIOUS
  <2> HIDE DEF v
  <2> QED
    BY <2>1, <2>2, SeenEffectIs
<1>7. SeenEffect(m)[r][v] = IF Sent(r, m) THEN 1 ELSE v
  <2> HIDE DEF v
  <2> QED
    BY <1>6, SeenEffectIs
<1> QED
  BY <1>4, <1>5, <1>6, <1>7 DEF Applied

-----------------------------------------------------------------------------
(* Every step keeps FlowOK.                                                *)

LEMMA FlowOnNext ==
  ASSUME \A m \in Msgs \ refused' :
           /\ Flows(HomeOf(m), RowEffect(m), RowAt(m)', link')
           /\ Flows(HomeOf(m), SeenEffect(m), SeenAt(m)', link'),
         \A u \in Users : Flows(Host, MuteEffect(u), MutedAt(u)', link'),
         \A m \in Msgs \ Deleted' :
           /\ Flows(Host, PinEffect(m), PinnedAt(m)', link')
           /\ \A u \in Users \ Moderated :
                Flows(Home[u], ReactEffect(m, u), ReactedAt(m, u)', link')
  PROVE  FlowOn'
<1>1. MessagesFlow'
  BY DEF MessagesFlow, HomeOf
<1>2. MutesFlow'
  BY DEF MutesFlow
<1>3. MarksFlow'
  BY DEF MarksFlow
<1> QED
  BY <1>1, <1>2, <1>3 DEF FlowOn

LEMMA IssuedFlow ==
  ASSUME IInv, WrittenOK, FlowOn, NEW r \in Relay, Issued(r)
  PROVE  FlowOn'
<1> DEFINE g == Home[r.by]
           y == FanOut(link, g, r, {})
<1>1. g \in Gateways /\ SideTables /\ Tables /\ link \in [Links -> Seq(Relay)]
  BY RelayFacts, RoomAssumption DEF WrittenOK, IInv, WireOK, LinksOK
<1>2. /\ Signed(r) /\ Handle(g, r) /\ link' = y
      /\ seen' = seen /\ refused' = refused
      /\ r.kind = "message" => r.m \notin Written /\ r.by \notin muted[g]
  BY DEF Issued, Command
<1>3. ASSUME NEW m \in Msgs \ refused'
      PROVE  /\ Flows(HomeOf(m), RowEffect(m), RowAt(m)', link')
             /\ Flows(HomeOf(m), SeenEffect(m), SeenAt(m)', link')
  <2>1. /\ Flows(HomeOf(m), RowEffect(m), RowAt(m), link)
        /\ Flows(HomeOf(m), SeenEffect(m), SeenAt(m), link)
    BY <1>2, <1>3 DEF FlowOn, MessagesFlow
  <2>2. Applied(RowAt(m), RowAt(m)', RowEffect(m), g, r)
    BY <1>1, <1>2, RowApplied
  <2>3. Sent(r, m) => g = HomeOf(m) /\ SeenAt(m)[g] = 0
    BY <1>1, <1>2 DEF Sent, Signed, HomeOf, SeenAt, Bit
  <2>4. Applied(SeenAt(m), SeenAt(m)', SeenEffect(m), g, r)
    BY <1>1, <1>2, <2>3, SeenApplied
  <2> QED
    BY <1>1, <1>2, <2>1, <2>2, <2>4, OwnRow, FlowsIssued
<1>4. ASSUME NEW u \in Users PROVE Flows(Host, MuteEffect(u), MutedAt(u)', link')
  <2>1. Flows(Host, MuteEffect(u), MutedAt(u), link)
    BY DEF FlowOn, MutesFlow
  <2>2. Applied(MutedAt(u), MutedAt(u)', MuteEffect(u), g, r)
    BY <1>1, <1>2, MuteApplied
  <2> QED
    BY <1>1, <1>2, <2>1, <2>2, OwnMute, FlowsIssued
<1>5. ASSUME NEW m \in Msgs \ Deleted'
      PROVE  /\ Flows(Host, PinEffect(m), PinnedAt(m)', link')
             /\ \A u \in Users \ Moderated :
                  Flows(Home[u], ReactEffect(m, u), ReactedAt(m, u)', link')
  <2>1. m \notin Deleted /\ ~(r.kind = "delete" /\ r.m = m)
    <3>1. r.kind = "delete" /\ r.m = m => g = HomeOf(r.m) /\ row[g][r.m] # Absent
      BY <1>2 DEF Issued, Signed, HomeOf
    <3> QED
      BY <1>1, <1>2, <1>5, <3>1, DeletedGrows
  <2>2. Flows(Host, PinEffect(m), PinnedAt(m)', link')
    <3>1. Flows(Host, PinEffect(m), PinnedAt(m), link)
      BY <2>1 DEF FlowOn, MarksFlow
    <3>2. Applied(PinnedAt(m), PinnedAt(m)', PinEffect(m), g, r)
      BY <1>1, <1>2, <2>1, PinApplied
    <3> QED
      BY <1>1, <1>2, <3>1, <3>2, OwnPin, FlowsIssued
  <2>3. ASSUME NEW u \in Users \ Moderated
        PROVE  Flows(Home[u], ReactEffect(m, u), ReactedAt(m, u)', link')
    <3>1. Flows(Home[u], ReactEffect(m, u), ReactedAt(m, u), link)
      BY <2>1 DEF FlowOn, MarksFlow
    <3>2. Applied(ReactedAt(m, u), ReactedAt(m, u)', ReactEffect(m, u), g, r)
      BY <1>1, <1>2, <2>1, ReactApplied
    <3> QED
      BY <1>1, <1>2, <3>1, <3>2, OwnReact, FlowsIssued
  <2> QED
    BY <2>2, <2>3
<1> QED
  BY <1>3, <1>4, <1>5, FlowOnNext

\* A relay is posted and taken.
LEMMA TakenFlow ==
  ASSUME IInv, WrittenOK, FlowOn, NEW l \in Links, link[l] # <<>>, NEW r, r = Head(link[l]),
         NEW rest, rest = [link EXCEPT ![l] = Tail(@)],
         Answered200(l[2], r, rest), ~Known(l[2], r)
  PROVE  FlowOn'
<1> DEFINE g == l[2]
<1>1. /\ g \in Gateways /\ SideTables /\ Tables /\ link \in [Links -> Seq(Relay)]
      /\ r \in Proper(l, Taken) /\ r \in Relay /\ Signed(r) /\ g # Home[r.by]
  <2>1. LinksOK(link, Taken) /\ SideTables /\ Tables
    BY DEF WrittenOK, IInv, WireOK
  <2>2. r \in Proper(l, Taken)
    BY <2>1, RestOK
  <2> QED
    BY <2>1, <2>2, LinkFacts DEF LinksOK, Proper
<1>2. /\ Handle(g, r) /\ RecordId(g, r) /\ refused' = refused /\ ~Refuses(g, r)
      /\ link' = IF g = Host THEN FanOut(rest, Host, r, {Home[r.by]}) ELSE rest
  BY DEF Answered200, Forward
<1>3. r \in Genuine(Written, Deleted)
  <2> DEFINE S == Genuine(Written, Deleted)
  <2>1. link \in [Links -> Seq(S)]
    BY DEF WrittenOK, Carried
  <2> HIDE DEF S
  <2>2. r \in S
    BY <2>1, SeqParts
  <2> QED
    BY <2>2 DEF S
<1> HIDE DEF g
<1>4. ASSUME NEW m \in Msgs \ refused'
      PROVE  /\ Flows(HomeOf(m), RowEffect(m), RowAt(m)', link')
             /\ Flows(HomeOf(m), SeenEffect(m), SeenAt(m)', link')
  <2>1. /\ Flows(HomeOf(m), RowEffect(m), RowAt(m), link)
        /\ Flows(HomeOf(m), SeenEffect(m), SeenAt(m), link)
    BY <1>2, <1>4 DEF FlowOn, MessagesFlow
  <2>2. Applied(RowAt(m), RowAt(m)', RowEffect(m), g, r)
    BY <1>1, <1>2, RowApplied
  <2>3. Sent(r, m) => g # HomeOf(m) /\ SeenAt(m)[g] = 0
    BY <1>1 DEF Sent, Signed, HomeOf, SeenAt, Bit, Known, g
  <2>4. Applied(SeenAt(m), SeenAt(m)', SeenEffect(m), g, r)
    BY <1>1, <1>2, <2>3, SeenApplied
  <2>5. Flows(HomeOf(m), RowEffect(m), RowAt(m)', link')
    BY <1>1, <1>2, <2>1, <2>2, OwnRow, FlowsTaken DEF g
  <2>6. Flows(HomeOf(m), SeenEffect(m), SeenAt(m)', link')
    BY <1>1, <1>2, <2>1, <2>4, OwnRow, FlowsTaken DEF g
  <2> QED
    BY <2>5, <2>6
<1>5. ASSUME NEW u \in Users PROVE Flows(Host, MuteEffect(u), MutedAt(u)', link')
  <2>1. Flows(Host, MuteEffect(u), MutedAt(u), link)
    BY DEF FlowOn, MutesFlow
  <2>2. r.kind = "message" /\ r.by = u => u \notin muted[g]
    BY <1>2 DEF Refuses
  <2>3. Applied(MutedAt(u), MutedAt(u)', MuteEffect(u), g, r)
    BY <1>1, <1>2, <2>2, MuteApplied
  <2> QED
    BY <1>1, <1>2, <2>1, <2>3, OwnMute, FlowsTaken DEF g
<1>6. ASSUME NEW m \in Msgs \ Deleted'
      PROVE  /\ Flows(Host, PinEffect(m), PinnedAt(m)', link')
             /\ \A u \in Users \ Moderated :
                  Flows(Home[u], ReactEffect(m, u), ReactedAt(m, u)', link')
  <2>1. m \notin Deleted
    BY <1>1, <1>2, <1>6, DeletedGrows
  <2>2. ~(r.kind = "delete" /\ r.m = m)
    BY <1>3, <2>1 DEF Genuine
  <2>3. Flows(Host, PinEffect(m), PinnedAt(m)', link')
    <3>1. Flows(Host, PinEffect(m), PinnedAt(m), link)
      BY <2>1 DEF FlowOn, MarksFlow
    <3>2. Applied(PinnedAt(m), PinnedAt(m)', PinEffect(m), g, r)
      BY <1>1, <1>2, <2>2, PinApplied
    <3> QED
      BY <1>1, <1>2, <3>1, <3>2, OwnPin, FlowsTaken DEF g
  <2>4. ASSUME NEW u \in Users \ Moderated
        PROVE  Flows(Home[u], ReactEffect(m, u), ReactedAt(m, u)', link')
    <3>1. Flows(Home[u], ReactEffect(m, u), ReactedAt(m, u), link)
      BY <2>1 DEF FlowOn, MarksFlow
    <3>2. Applied(ReactedAt(m, u), ReactedAt(m, u)', ReactEffect(m, u), g, r)
      BY <1>1, <1>2, <2>2, ReactApplied
    <3> QED
      BY <1>1, <1>2, <3>1, <3>2, OwnReact, FlowsTaken DEF g
  <2> QED
    BY <2>3, <2>4
<1> QED
  BY <1>4, <1>5, <1>6, FlowOnNext

\* A relay is posted and changes nothing: a message that came before or is
\* refused, or a reaction that is refused.
LEMMA PassedFlow ==
  ASSUME IInv, FlowOn, NEW l \in Links, link[l] # <<>>, NEW r \in Relay, r = Head(link[l]),
         link' = [link EXCEPT ![l] = Tail(@)], UNCHANGED <<tables, gone>>,
         refused \subseteq refused', r.kind \in {"message", "add", "remove"},
         r.kind = "message" \/ r.by \in Moderated,
         \A m \in Msgs \ refused' :
            ~Sent(r, m) /\ \A g \in Gateways : (m \in seen'[g]) = (m \in seen[g])
  PROVE  FlowOn'
<1>1. link \in [Links -> Seq(Relay)] /\ Deleted' = Deleted
  BY DEF IInv, WireOK, LinksOK, Deleted, HomeOf
<1>2. ASSUME NEW m \in Msgs \ refused'
      PROVE  /\ Flows(HomeOf(m), RowEffect(m), RowAt(m)', link')
             /\ Flows(HomeOf(m), SeenEffect(m), SeenAt(m)', link')
  <2>1. /\ Flows(HomeOf(m), RowEffect(m), RowAt(m), link)
        /\ Flows(HomeOf(m), SeenEffect(m), SeenAt(m), link)
    BY <1>2 DEF FlowOn, MessagesFlow
  <2>2. RowAt(m)' = RowAt(m)
    BY DEF RowAt, tables
  <2>3. SeenAt(m)' = SeenAt(m)
    <3>1. Written' = Written
      BY DEF Written, tables
    <3>2. \A g \in Gateways : Bit(m \in seen'[g]) = Bit(m \in seen[g])
      BY <1>2 DEF Bit
    <3> QED
      BY <3>1, <3>2 DEF SeenAt, HomeOf, Bit
  <2>4. Idle(RowEffect(m), r) /\ Idle(SeenEffect(m), r)
    BY <1>2, IdleEntries
  <2> QED
    BY <1>1, <2>1, <2>2, <2>3, <2>4, FlowsIdle
<1>3. ASSUME NEW u \in Users PROVE Flows(Host, MuteEffect(u), MutedAt(u)', link')
  <2>1. Flows(Host, MuteEffect(u), MutedAt(u), link) /\ Idle(MuteEffect(u), r)
    BY IdleEntries DEF FlowOn, MutesFlow
  <2>2. MutedAt(u)' = MutedAt(u)
    BY DEF MutedAt, Bit, tables
  <2> QED
    BY <1>1, <2>1, <2>2, FlowsIdle
<1>4. ASSUME NEW m \in Msgs \ Deleted'
      PROVE  /\ Flows(Host, PinEffect(m), PinnedAt(m)', link')
             /\ \A u \in Users \ Moderated :
                  Flows(Home[u], ReactEffect(m, u), ReactedAt(m, u)', link')
  <2>1. Flows(Host, PinEffect(m), PinnedAt(m), link) /\ Idle(PinEffect(m), r)
    BY <1>1, <1>4, IdleEntries DEF FlowOn, MarksFlow
  <2>2. PinnedAt(m)' = PinnedAt(m)
    BY DEF PinnedAt, Bit, tables
  <2>3. ASSUME NEW u \in Users \ Moderated
        PROVE  Flows(Home[u], ReactEffect(m, u), ReactedAt(m, u)', link')
    <3>1. Flows(Home[u], ReactEffect(m, u), ReactedAt(m, u), link)
      BY <1>1, <1>4 DEF FlowOn, MarksFlow
    <3>2. Idle(ReactEffect(m, u), r)
      BY IdleEntries
    <3>3. ReactedAt(m, u)' = ReactedAt(m, u)
      BY DEF ReactedAt, Bit, tables
    <3> QED
      BY <1>1, <3>1, <3>2, <3>3, FlowsIdle
  <2> QED
    BY <1>1, <2>1, <2>2, <2>3, FlowsIdle
<1> QED
  BY <1>2, <1>3, <1>4, FlowOnNext

LEMMA FlowsBeside ==
  ASSUME IInv, NEW w, NEW F, NEW V, Flows(w, F, V, link), NEW r \in Relay, Idle(F, r),
         V[Host] \in DOMAIN F[r],
         link' = link \/ \E except : link' = FanOut(link, Host, r, except)
  PROVE  Flows(w, F, V, link')
<1>1. link \in [Links -> Seq(Relay)] /\ F[r][V[Host]] = V[Host]
  BY DEF IInv, WireOK, LinksOK, Idle
<1>2. CASE link' = link
  BY <1>2
<1>3. ASSUME NEW except, link' = FanOut(link, Host, r, except) PROVE Flows(w, F, V, link')
  BY <1>1, <1>3, FlowsPast
<1> QED
  BY <1>2, <1>3

\* A reaction of someone who may be muted, posted again.
LEMMA RetriedFlow ==
  ASSUME IInv, WrittenOK, FlowOn, NEW l \in Links, NEW r \in Relay,
         r.kind \in {"add", "remove"}, r.by \in Moderated, Arrives(l, r, link)
  PROVE  FlowOn'
<1>1. /\ UNCHANGED <<row, pins, muted, seen, gone, refused>>
      /\ reacted' = reacted \/ SetReaction(l[2], r.m, r.by, r.kind = "add")
      /\ link' = link \/ \E except : link' = FanOut(link, Host, r, except)
  <2>1. CASE Answered403(l[2], r, link)
    BY <2>1 DEF Answered403, RecordId, tables
  <2>2. CASE Answered200(l[2], r, link)
    <3>1. HandleReaction(l[2], r) /\ RecordId(l[2], r) /\ Forward(link, l[2], r) /\ refused' = refused
      BY <2>2 DEF Answered200, Known, Handle, HandleRoom, HandleEdit, HandleDelete, HandlePin, HandleMute
    <3> QED
      BY <3>1 DEF HandleReaction, SetReaction, RecordId, Forward
  <2> QED
    BY <2>1, <2>2 DEF Arrives
<1>2. Host \in Gateways /\ Deleted' = Deleted /\ Written' = Written
  BY <1>1, RoomAssumption DEF Deleted, HomeOf, Written
<1>3. ASSUME NEW m \in Msgs \ refused'
      PROVE  /\ Flows(HomeOf(m), RowEffect(m), RowAt(m)', link')
             /\ Flows(HomeOf(m), SeenEffect(m), SeenAt(m)', link')
  <2>1. /\ Flows(HomeOf(m), RowEffect(m), RowAt(m), link)
        /\ Flows(HomeOf(m), SeenEffect(m), SeenAt(m), link)
    BY <1>1, <1>3 DEF FlowOn, MessagesFlow
  <2>2. RowAt(m)' = RowAt(m) /\ SeenAt(m)' = SeenAt(m)
    BY <1>1, <1>2 DEF RowAt, SeenAt, HomeOf, Bit
  <2>3. ~Sent(r, m) /\ Idle(RowEffect(m), r) /\ Idle(SeenEffect(m), r)
    BY IdleEntries DEF Sent
  <2>4. RowAt(m)[Host] \in DOMAIN RowEffect(m)[r]
    <3>1. RowAt(m)[Host] \in Absent..MaxEdits
      BY <1>2 DEF RowAt, IInv, Tables, Types
    <3> QED
      BY <3>1, RowEffectIs
  <2>5. SeenAt(m)[Host] \in DOMAIN SeenEffect(m)[r]
    <3>1. SeenAt(m)[Host] \in {0, 1}
      BY <1>2 DEF SeenAt, Bit
    <3> QED
      BY <2>3, <3>1, SeenEffectIs
  <2> QED
    BY <1>1, <2>1, <2>2, <2>3, <2>4, <2>5, FlowsBeside
<1>4. ASSUME NEW u \in Users PROVE Flows(Host, MuteEffect(u), MutedAt(u)', link')
  <2>1. Flows(Host, MuteEffect(u), MutedAt(u), link) /\ Idle(MuteEffect(u), r)
    BY IdleEntries DEF FlowOn, MutesFlow
  <2>2. MutedAt(u)' = MutedAt(u)
    BY <1>1 DEF MutedAt, Bit
  <2>3. MutedAt(u)[Host] \in DOMAIN MuteEffect(u)[r]
    <3>1. MutedAt(u)[Host] \in {0, 1}
      BY <1>2 DEF MutedAt, Bit
    <3> QED
      BY <3>1, MuteEffectIs
  <2> QED
    BY <1>1, <2>1, <2>2, <2>3, FlowsBeside
<1>5. ASSUME NEW m \in Msgs \ Deleted'
      PROVE  /\ Flows(Host, PinEffect(m), PinnedAt(m)', link')
             /\ \A u \in Users \ Moderated :
                  Flows(Home[u], ReactEffect(m, u), ReactedAt(m, u)', link')
  <2>1. Flows(Host, PinEffect(m), PinnedAt(m), link) /\ Idle(PinEffect(m), r)
    BY <1>2, <1>5, IdleEntries DEF FlowOn, MarksFlow
  <2>2. PinnedAt(m)' = PinnedAt(m)
    BY <1>1 DEF PinnedAt, Bit
  <2>3. PinnedAt(m)[Host] \in DOMAIN PinEffect(m)[r]
    <3>1. PinnedAt(m)[Host] \in {0, 1}
      BY <1>2 DEF PinnedAt, Bit
    <3> QED
      BY <3>1, PinEffectIs
  <2>4. ASSUME NEW u \in Users \ Moderated
        PROVE  Flows(Home[u], ReactEffect(m, u), ReactedAt(m, u)', link')
    <3>1. Flows(Home[u], ReactEffect(m, u), ReactedAt(m, u), link)
      BY <1>2, <1>5 DEF FlowOn, MarksFlow
    <3>2. Idle(ReactEffect(m, u), r)
      BY IdleEntries
    <3>3. ReactedAt(m, u)' = ReactedAt(m, u)
      <4>1. \A g \in Gateways : (<<m, u>> \in reacted'[g]) = (<<m, u>> \in reacted[g])
        BY <1>1 DEF SetReaction, WrittenOK, SideTables
      <4>2. \A g \in Gateways : Bit(<<m, u>> \in reacted'[g]) = Bit(<<m, u>> \in reacted[g])
        BY <4>1 DEF Bit
      <4> QED
        BY <4>2 DEF ReactedAt, Bit
    <3>4. ReactedAt(m, u)[Host] \in DOMAIN ReactEffect(m, u)[r]
      <4>1. ReactedAt(m, u)[Host] \in {0, 1}
        BY <1>2 DEF ReactedAt, Bit
      <4> QED
        BY <4>1, ReactEffectIs
    <3> QED
      BY <1>1, <3>1, <3>2, <3>3, <3>4, FlowsBeside
  <2>5. Flows(Host, PinEffect(m), PinnedAt(m)', link')
    BY <1>1, <2>1, <2>2, <2>3, FlowsBeside
  <2> QED
    BY <2>4, <2>5
<1> QED
  BY <1>3, <1>4, <1>5, FlowOnNext

\* What became of the rows of the queues.
RowsKept ==
    \/ queued' = queued
    \/ \E l \in Links : \E r \in Returned(l)' : Queue(l, r)
    \/ \E l \in Links : \E i \in DOMAIN queued[l] : Unqueue(l, i)

LEMMA RowsNext ==
  ASSUME IInv, Rows, \A g \in Gateways : seen[g] \subseteq seen'[g], RowsKept
  PROVE  Rows'
<1>1. ASSUME NEW k \in Links
      PROVE  queued[k] \in Seq(Returned(k)')
  <2>1. Returned(k) \subseteq Returned(k)'
    BY LinkFacts DEF Returned
  <2>2. queued[k] \in Seq(Returned(k))
    BY DEF Rows
  <2> QED
    BY <2>1, <2>2, SeqWider
<1>2. queued \in [Links -> Seq(Relay)]
  BY DEF IInv, WireOK, LinksOK
<1>3. CASE queued' = queued
  BY <1>1, <1>3 DEF Rows
<1>4. ASSUME NEW l \in Links, NEW r \in Returned(l)', Queue(l, r)
      PROVE  Rows'
  <2> SUFFICES ASSUME NEW k \in Links PROVE queued'[k] \in Seq(Returned(k)')
    BY DEF Rows
  <2>1. queued'[k] = IF k = l THEN Append(queued[k], r) ELSE queued[k]
    BY <1>2, <1>4 DEF Queue
  <2>2. CASE k = l
    BY <1>1, <1>4, <2>1, <2>2, SeqAppend
  <2>3. CASE k # l
    BY <1>1, <2>1, <2>3
  <2> QED
    BY <2>2, <2>3
<1>5. ASSUME NEW l \in Links, NEW i \in DOMAIN queued[l], Unqueue(l, i)
      PROVE  Rows'
  <2> SUFFICES ASSUME NEW k \in Links PROVE queued'[k] \in Seq(Returned(k)')
    BY DEF Rows
  <2>1. queued'[k] = IF k = l THEN RemoveAt(queued[k], i) ELSE queued[k]
    BY <1>2, <1>5 DEF Unqueue
  <2>2. CASE k = l
    BY <1>1, <2>1, <2>2, SeqWithout
  <2>3. CASE k # l
    BY <1>1, <2>1, <2>3
  <2> QED
    BY <2>2, <2>3
<1> QED
  BY <1>3, <1>4, <1>5 DEF RowsKept

\* A gateway that has recorded a message is not relayed it once more, but one
\* that the host refused.
LEMMA SentOnce ==
  ASSUME IInv, FlowOn, NEW l \in Links, link[l] # <<>>, NEW m \in Msgs,
         Sent(Head(link[l]), m), m \in seen[l[2]]
  PROVE  m \in refused
<1> SUFFICES ASSUME m \notin refused PROVE FALSE
  OBVIOUS
<1> DEFINE r == Head(link[l])
<1>1. r \in Proper(l, Taken) /\ link[l] \in Seq(Relay) /\ r \in Relay
  <2>1. LinksOK(link, Taken)
    BY DEF IInv, WireOK
  <2>2. r \in Proper(l, Taken)
    BY <2>1, RestOK
  <2> QED
    BY <2>1, <2>2 DEF LinksOK, Proper
<1>2. l[2] # HomeOf(m) /\ l \in Feeds(HomeOf(m)) /\ l[2] \in Gateways
  BY <1>1, LinkFacts DEF Proper, Signed, Sent, HomeOf, Feeds
<1>3. Flows(HomeOf(m), SeenEffect(m), SeenAt(m), link)
  BY DEF FlowOn, MessagesFlow
<1>4. Leads(link[l], SeenEffect(m), SeenAt(m)[l[2]], SeenAt(m)[l[1]])
  BY <1>2, <1>3 DEF Flows
<1>5. SeenAt(m)[l[2]] \in DOMAIN SeenEffect(m)[r]
  BY <1>1, <1>4, LeadsTail
<1>6. SeenAt(m)[l[2]] = 1
  BY <1>2 DEF SeenAt, Bit
<1> QED
  BY <1>1, <1>5, <1>6, SeenEffectIs

\* What the host took is not refused by another gateway.
LEMMA RefusedByHost ==
  ASSUME IInv, FlowOn, NEW l \in Links, link[l] # <<>>, Head(link[l]).kind = "message",
         Refuses(l[2], Head(link[l]))
  PROVE  l[2] = Host
<1> SUFFICES ASSUME l[2] # Host PROVE FALSE
  OBVIOUS
<1> DEFINE r == Head(link[l])
           u == r.by
<1>1. r \in Relay /\ link[l] \in Seq(Relay) /\ u \in Users
  BY SeqParts, RelayFacts DEF IInv, WireOK, LinksOK
<1>2. l \in Feeds(Host) /\ l[2] \in Gateways
  BY LinkEnds DEF Feeds
<1>3. Flows(Host, MuteEffect(u), MutedAt(u), link)
  BY <1>1 DEF FlowOn, MutesFlow
<1>4. Leads(link[l], MuteEffect(u), MutedAt(u)[l[2]], MutedAt(u)[l[1]])
  BY <1>2, <1>3 DEF Flows
<1>5. MutedAt(u)[l[2]] \in DOMAIN MuteEffect(u)[r]
  BY <1>1, <1>4, LeadsTail
<1>6. MutedAt(u)[l[2]] = 1
  BY <1>2 DEF MutedAt, Bit, Refuses
<1> QED
  BY <1>1, <1>5, <1>6, MuteEffectIs

LEMMA PostFlow ==
  ASSUME IInv, WrittenOK, FlowOn, RefusedModerated, Rows, NEW l \in Links, Post(l)
  PROVE  FlowOn' /\ RefusedModerated' /\ Rows'
<1> DEFINE r == Head(link[l])
           rest == [link EXCEPT ![l] = Tail(@)]
           g == l[2]
<1>1. /\ link[l] # <<>>
      /\ \/ Answered200(g, r, rest) /\ queued' = queued
         \/ Answered403(g, r, rest) /\ Queue(l, r)
  BY DEF Post
<1>2. r \in Proper(l, Taken) /\ r \in Relay /\ Signed(r) /\ r.by \in Users
      /\ g \in Gateways /\ g # Home[r.by]
  <2>1. LinksOK(link, Taken)
    BY DEF IInv, WireOK
  <2>2. r \in Proper(l, Taken)
    BY <1>1, <2>1, RestOK
  <2> QED
    BY <2>2, LinkFacts, RelayFacts DEF Proper
<1>3. seen \in [Gateways -> SUBSET Msgs] /\ refused \subseteq Msgs
      /\ muted \in [Gateways -> SUBSET Moderated]
  BY DEF IInv, Tables, Types, WrittenOK, SideTables
<1> HIDE DEF g
<1>4. CASE Answered200(g, r, rest) /\ queued' = queued /\ Known(g, r)
  <2>1. link' = rest /\ UNCHANGED <<tables, seen, gone, refused>> /\ r.kind = "message"
    BY <1>4 DEF Answered200, history, Known
  <2>2. \A m \in Msgs \ refused : ~Sent(r, m)
    BY <1>1, <1>4, SentOnce DEF Known, Sent, g
  <2>3. FlowOn'
    BY <1>1, <1>2, <2>1, <2>2, PassedFlow
  <2>4. Rows'
    BY <1>4, <2>1, RowsNext DEF RowsKept
  <2> QED
    BY <2>1, <2>3, <2>4 DEF RefusedModerated
<1>5. CASE Answered200(g, r, rest) /\ queued' = queued /\ ~Known(g, r)
  <2>1. RecordId(g, r) /\ refused' = refused
    BY <1>5 DEF Answered200
  <2>2. FlowOn'
    BY <1>1, <1>5, TakenFlow DEF g
  <2>3. \A h \in Gateways : seen[h] \subseteq seen'[h]
    BY <1>3, <2>1 DEF RecordId
  <2>4. Rows'
    BY <1>5, <2>3, RowsNext DEF RowsKept
  <2> QED
    BY <2>1, <2>2, <2>4 DEF RefusedModerated
<1>6. CASE Answered403(g, r, rest) /\ Queue(l, r)
  <2>1. /\ link' = rest /\ UNCHANGED <<tables, gone>> /\ Refuses(g, r) /\ RecordId(g, r)
        /\ refused' = IF r.kind = "message" /\ g = Host THEN refused \cup {r.m} ELSE refused
    BY <1>6 DEF Answered403
  <2>2. r.kind \in {"message", "add", "remove"} /\ r.by \in Moderated
    BY <1>2, <1>3, <2>1 DEF Refuses
  <2>3. r.kind = "message" => g = Host /\ r.m \in Msgs /\ Author[r.m] = r.by
    BY <1>1, <1>2, <2>1, RefusedByHost, RelayFacts DEF g, Signed
  <2>4. \A m \in Msgs \ refused' :
          ~Sent(r, m) /\ \A h \in Gateways : (m \in seen'[h]) = (m \in seen[h])
    BY <1>3, <2>1, <2>3 DEF Sent, RecordId
  <2>5. FlowOn'
    BY <1>1, <1>2, <2>1, <2>2, <2>4, PassedFlow
  <2>6. RefusedModerated'
    BY <2>1, <2>2, <2>3 DEF RefusedModerated
  <2>7. \A h \in Gateways : seen[h] \subseteq seen'[h]
    BY <1>3, <2>1 DEF RecordId
  <2>8. r.kind = "message" => r.m \in seen'[g]
    BY <1>2, <1>3, <2>1, <2>3 DEF RecordId
  <2>9. r \in Returned(l)'
    <3> HIDE DEF r
    <3> QED
      BY <1>2, <2>2, <2>8 DEF Returned, g
  <2>10. Rows'
    <3> HIDE DEF r
    <3> QED
      BY <1>6, <2>7, <2>9, RowsNext DEF RowsKept
  <2> QED
    BY <2>5, <2>6, <2>10
<1> QED
  BY <1>1, <1>4, <1>5, <1>6

LEMMA RetryFlow ==
  ASSUME IInv, WrittenOK, FlowOn, RefusedModerated, Rows, NEW l \in Links,
         NEW i \in DOMAIN queued[l], Retry(l, i)
  PROVE  FlowOn' /\ RefusedModerated' /\ Rows'
<1> DEFINE r == queued[l][i]
           g == l[2]
<1>1. \/ Answered200(g, r, link) /\ Unqueue(l, i)
      \/ Answered403(g, r, link) /\ queued' = queued
  BY DEF Retry
<1>2. queued[l][i] \in Returned(l)
  <2> DEFINE S == Returned(l)
  <2>1. queued[l] \in Seq(S)
    BY DEF Rows
  <2> HIDE DEF S
  <2>2. queued[l][i] \in S
    BY <2>1, SeqWithout
  <2> QED
    BY <2>2 DEF S
<1>3. /\ r \in Relay /\ r.by \in Moderated
      /\ r.kind \in {"add", "remove"} \/ (r.kind = "message" /\ r.m \in seen[g])
  BY <1>2 DEF Returned
<1>4. CASE r.kind = "message" /\ r.m \in seen[g]
  <2>1. Known(g, r)
    BY <1>4 DEF Known
  <2>2. Answered200(g, r, link) /\ Unqueue(l, i) /\ link' = link
        /\ UNCHANGED <<tables, seen, history>>
    BY <1>1, <2>1 DEF Answered200, Answered403
  <2>3. FlowOn'
    BY <2>2 DEF FlowOn, MessagesFlow, MutesFlow, MarksFlow, RowAt, SeenAt, MutedAt, PinnedAt,
               ReactedAt, Written, Deleted, HomeOf, Bit, tables, history
  <2>4. Rows'
    BY <2>2, RowsNext DEF RowsKept
  <2> QED
    BY <2>2, <2>3, <2>4 DEF RefusedModerated, history
<1>5. CASE r.kind \in {"add", "remove"}
  <2>1. FlowOn'
    BY <1>1, <1>3, <1>5, RetriedFlow DEF Arrives
  <2>2. seen' = seen /\ refused' = refused
    BY <1>1, <1>5 DEF Answered200, Answered403, Known, RecordId
  <2>3. Rows'
    BY <1>1, <2>2, RowsNext DEF RowsKept
  <2> QED
    BY <2>1, <2>2, <2>3 DEF RefusedModerated
<1> QED
  BY <1>3, <1>4, <1>5

\* Nothing that the relays lead to changes.
LEMMA StillFlow ==
  ASSUME FlowOn, UNCHANGED <<tables, seen, link, history>>
  PROVE  FlowOn'
  BY DEF FlowOn, MessagesFlow, MutesFlow, MarksFlow, RowAt, SeenAt, MutedAt, PinnedAt,
         ReactedAt, Written, Deleted, HomeOf, Bit, tables, history

LEMMA StepFlow == IInv /\ WrittenOK /\ FlowOK /\ [Next]_vars => FlowOK'
<1> SUFFICES ASSUME IInv, WrittenOK, FlowOK, [Next]_vars, fails' = 0
             PROVE  FlowOn' /\ RefusedModerated' /\ Rows'
  BY DEF FlowOK
<1>1. fails \in Nat /\ (fails = 0 => FlowOn /\ RefusedModerated /\ Rows)
  BY RoomAssumption DEF WrittenOK, Counted, FlowOK
<1>2. CASE UNCHANGED vars
  <2>1. FlowOn /\ RefusedModerated /\ Rows /\ UNCHANGED <<tables, seen, link, queued, history>>
    BY <1>1, <1>2 DEF vars, wire
  <2> QED
    BY <2>1, StillFlow, RowsNext DEF RowsKept, RefusedModerated, history
<1>3. CASE \/ \E m \in Msgs : Send(m) \/ Edit(m) \/ Delete(m)
           \/ \E m \in Msgs, u \in Users, on \in BOOLEAN : React(u, m, on)
           \/ \E m \in Msgs, on \in BOOLEAN : Pin(m, on)
           \/ \E u \in Users, on \in BOOLEAN : Mute(u, on)
  <2>1. PICK r \in Relay : Issued(r)
    BY <1>3, CommandIssued
  <2>2. UNCHANGED <<seen, queued, fails, refused>>
    BY <2>1 DEF Issued, Command
  <2>3. FlowOn /\ RefusedModerated /\ Rows
    BY <1>1, <2>2
  <2> QED
    BY <2>1, <2>2, <2>3, IssuedFlow, RowsNext DEF RowsKept, RefusedModerated
<1>4. ASSUME NEW l \in Links, Post(l) PROVE FlowOn' /\ RefusedModerated' /\ Rows'
  <2>1. fails' = fails
    BY <1>4 DEF Post
  <2> QED
    BY <1>1, <1>4, <2>1, PostFlow
<1>5. ASSUME NEW l \in Links, PostFails(l) PROVE FALSE
  <2>1. fails' = fails + 1
    BY <1>5 DEF PostFails, Fail
  <2> QED
    BY <1>1, <2>1
<1>6. ASSUME NEW l \in Links, NEW i \in DOMAIN queued[l], Retry(l, i)
      PROVE  FlowOn' /\ RefusedModerated' /\ Rows'
  <2>1. fails' = fails
    BY <1>6 DEF Retry
  <2> QED
    BY <1>1, <1>6, <2>1, RetryFlow
<1>7. ASSUME NEW l \in Links, NEW i \in DOMAIN queued[l], RetryFails(l, i) PROVE FALSE
  <2>1. fails' = fails + 1
    BY <1>7 DEF RetryFails, Fail
  <2> QED
    BY <1>1, <2>1
<1>8. ASSUME NEW l \in Links, NEW i \in DOMAIN queued[l], ExpireStale(l, i)
      PROVE  FlowOn' /\ RefusedModerated' /\ Rows'
  <2>1. fails' = fails /\ Unqueue(l, i) /\ UNCHANGED <<tables, seen, link, history>>
    BY <1>8 DEF ExpireStale
  <2> QED
    BY <1>1, <2>1, StillFlow, RowsNext DEF RowsKept, RefusedModerated, history
<1> QED
  BY <1>2, <1>3, <1>4, <1>5, <1>6, <1>7, <1>8 DEF Next

LEMMA InitFlow == Init => FlowOK
<1> SUFFICES ASSUME Init PROVE FlowOn /\ RefusedModerated /\ Rows
  BY DEF FlowOK
<1>1. ASSUME NEW w, NEW F, NEW V, \A g, h \in Gateways : V[g] = V[h]
      PROVE  Flows(w, F, V, link)
  <2> SUFFICES ASSUME NEW l \in Feeds(w) PROVE Leads(link[l], F, V[l[2]], V[l[1]])
    BY DEF Flows
  <2>1. link[l] = <<>> /\ V[l[2]] = V[l[1]]
    BY <1>1, LinkFacts DEF Init, Feeds
  <2> QED
    BY <2>1, LeadsNowhere
<1>2. ASSUME NEW m \in Msgs
      PROVE  /\ Flows(HomeOf(m), RowEffect(m), RowAt(m), link)
             /\ Flows(HomeOf(m), SeenEffect(m), SeenAt(m), link)
             /\ Flows(Host, PinEffect(m), PinnedAt(m), link)
  <2>1. \A g \in Gateways : RowAt(m)[g] = Absent /\ PinnedAt(m)[g] = 0
    BY DEF Init, RowAt, PinnedAt, Bit
  <2>2. m \notin Written
    BY RoomAssumption DEF Init, Written
  <2>3. \A g \in Gateways : SeenAt(m)[g] = 0
    BY <2>2 DEF Init, SeenAt, Bit
  <2> QED
    BY <1>1, <2>1, <2>3
<1>3. ASSUME NEW m \in Msgs, NEW u \in Users
      PROVE  Flows(Home[u], ReactEffect(m, u), ReactedAt(m, u), link)
  <2>1. \A g \in Gateways : ReactedAt(m, u)[g] = 0
    BY DEF Init, ReactedAt, Bit
  <2> QED
    BY <1>1, <2>1
<1>4. ASSUME NEW u \in Users PROVE Flows(Host, MuteEffect(u), MutedAt(u), link)
  <2>1. \A g \in Gateways : MutedAt(u)[g] = 0
    BY DEF Init, MutedAt, Bit
  <2> QED
    BY <1>1, <2>1
<1>5. RefusedModerated /\ Rows
  BY DEF Init, RefusedModerated, Rows
<1> QED
  BY <1>2, <1>3, <1>4, <1>5 DEF FlowOn, MessagesFlow, MutesFlow, MarksFlow

LEMMA MeetAtRest ==
  ASSUME IInv, FlowOK, Quiet, fails = 0
  PROVE  HistoriesMeet
<1>1. FlowOn /\ RefusedModerated /\ \A l \in Links : link[l] = <<>>
  BY DEF Quiet, FlowOK
<1>2. Host \in Gateways /\ \A m \in Msgs : HomeOf(m) \in Gateways
  BY RoomAssumption DEF HomeOf
<1>3. ASSUME NEW m \in Msgs \ refused, NEW g \in Gateways
      PROVE  row[g][m] = row[HomeOf(m)][m]
  <2>1. Flows(HomeOf(m), RowEffect(m), RowAt(m), link)
    BY <1>1 DEF FlowOn, MessagesFlow
  <2> DEFINE w == HomeOf(m)
  <2>0. w \in Gateways /\ Flows(w, RowEffect(m), RowAt(m), link)
    BY <1>2, <2>1
  <2> HIDE DEF w
  <2>2. RowAt(m)[g] = RowAt(m)[w]
    BY <1>1, <2>0, FlowsQuiet
  <2> QED
    BY <2>0, <2>2 DEF RowAt, w
<1>4. \A m \in refused : HomeOf(m) # Host /\ \A g \in Gateways \ {HomeOf(m)} : row[g][m] = Absent
  BY DEF HomeOf, IInv, Tables, Types, Held, RefusedIsSeen
<1>5. ASSUME NEW g \in Gateways, NEW m \in Msgs
      PROVE  /\ Author[m] \notin Moderated => row[g][m] = row[Home[Author[m]]][m]
             /\ g # Home[Author[m]] => row[g][m] = row[Host][m]
  <2>1. CASE m \in refused
    BY <1>1, <1>2, <1>4, <2>1 DEF RefusedModerated, HomeOf
  <2>2. CASE m \notin refused
    BY <1>2, <1>3, <2>2 DEF HomeOf
  <2> QED
    BY <2>1, <2>2
<1>6. ASSUME NEW m \in Msgs, row[Host][m] # Absent PROVE m \notin Deleted
  <2>1. m \notin refused
    BY <1>2, <1>4, <1>6
  <2>2. row[HomeOf(m)][m] # Absent
    BY <1>2, <1>3, <1>6, <2>1
  <2> QED
    BY <1>2, <2>2 DEF Deleted, IInv, Tables, DeletedStaysDeleted, Live
<1>7. ASSUME NEW g \in Gateways, NEW m \in Live(Host) PROVE (m \in pins[g]) = (m \in pins[Host])
  <2>1. m \in Msgs \ Deleted
    BY <1>6 DEF Live
  <2>2. Flows(Host, PinEffect(m), PinnedAt(m), link)
    BY <1>1, <2>1 DEF FlowOn, MarksFlow
  <2>3. PinnedAt(m)[g] = PinnedAt(m)[Host]
    BY <1>1, <1>2, <2>2, FlowsQuiet
  <2> QED
    BY <1>2, <2>3 DEF PinnedAt, Bit
<1>8. ASSUME NEW g \in Gateways, NEW m \in Live(Host), NEW u \in Users \ Moderated
      PROVE  (<<m, u>> \in reacted[g]) = (<<m, u>> \in reacted[Host])
  <2>1. m \in Msgs \ Deleted /\ Home[u] \in Gateways
    BY <1>6, RoomAssumption DEF Live
  <2>2. Flows(Home[u], ReactEffect(m, u), ReactedAt(m, u), link)
    BY <1>1, <2>1 DEF FlowOn, MarksFlow
  <2>3. /\ ReactedAt(m, u)[g] = ReactedAt(m, u)[Home[u]]
        /\ ReactedAt(m, u)[Host] = ReactedAt(m, u)[Home[u]]
    BY <1>1, <1>2, <2>1, <2>2, FlowsQuiet
  <2> QED
    BY <1>2, <2>3 DEF ReactedAt, Bit
<1> QED
  BY <1>5, <1>7, <1>8 DEF HistoriesMeet

\* While no POST is lost, what is on a link turns what the gateway at its end
\* has of every message, pin, reaction and mute into what the sender has.
THEOREM FlowHolds == Spec => []FlowOK
  BY InitFlow, StepFlow, InvHolds, WrittenHolds, PTL DEF Spec

\* Gateways that lost no POST end up with the same texts, pins and reactions,
\* whoever wrote, edited, deleted, pinned and muted meanwhile, and in whatever
\* order the relays of different gateways came.
THEOREM HistoriesEndAlike == Spec => []HistoriesMeet
<1>1. IInv /\ FlowOK => HistoriesMeet
  BY MeetAtRest DEF HistoriesMeet
<1> QED
  BY <1>1, InvHolds, FlowHolds, PTL
=============================================================================
