------------------------ MODULE FriendRequest_proofs ------------------------
(***************************************************************************)
(* Friend requests, for any gateways and requests.  Whatever is lost,      *)
(* late, repeated or interrupted, a request makes one contact at most on   *)
(* each side, none at its requester once it was reported failed, an answer *)
(* given is final, and each POST has one sender at a time.  If acceptances *)
(* are answered and none comes early, a withdrawn request adds nobody; if  *)
(* also no request expires and no gateway restarts, contacts are mutual.   *)
(***************************************************************************)
EXTENDS FriendRequest, TLAPS

\* What the proofs need of the types.
Types ==
    /\ row \in [Gateways -> [Requests -> Status]]
    /\ contacts \in [Gateways -> [Requests -> Nat]]
    /\ nonces \in [Gateways -> SUBSET Requests]
    /\ told \in [Requests -> Told]

\* A gateway that has made a contact for a request has its answer.
ContactIsAnswered ==
    \A g \in Gateways, i \in Requests :
       /\ contacts[g][i] <= 1
       /\ contacts[g][i] # 0 => row[g][i] \notin {"none", "pending"}

\* The requester saves a request once: when its first POST is through.
SavedOnce ==
    \A i \in Requests :
       /\ told[i] = "nothing" => row[Issuer[i]][i] = "none"
       /\ <<"invite", i>> \in first =>
             row[Issuer[i]][i] = "none" /\ told[i] # "nothing"

\* While an acceptance is awaited its request is accepted and not yet a contact.
AcceptsOnce ==
    \A i \in Requests :
       <<"accept", i>> \in first =>
          row[Target[i]][i] = "accepted" /\ contacts[Target[i]][i] = 0

\* The target has a row only of a request whose id it has seen.
RowIsSeen ==
    \A i \in Requests : row[Target[i]][i] # "none" => i \in nonces[Target[i]]

\* The inductive invariant.
Inv == Types /\ ContactIsAnswered /\ SavedOnce /\ AcceptsOnce /\ RowIsSeen

Final == \A g \in Gateways, i \in Requests :
            row[g][i] \notin {"none", "pending"} =>
               \/ row'[g][i] = row[g][i]
               \/ /\ g = Target[i] /\ <<"accept", i>> \in first
                  /\ row[g][i] = "accepted" /\ row'[g][i] = "withdrawn"

\* The initial states satisfy the invariant.
LEMMA InitInv == Init => Inv
  BY FriendRequestAssumption
     DEF Init, Inv, Types, ContactIsAnswered, SavedOnce, AcceptsOnce, RowIsSeen,
         Status, Told

-----------------------------------------------------------------------------
(* What the helpers change.                                                *)

\* mark_invite_status changes one row.
LEMMA SetRowFacts ==
  ASSUME row \in [Gateways -> [Requests -> Status]],
         NEW g \in Gateways, NEW i \in Requests, NEW s \in Status, SetRow(g, i, s)
  PROVE  /\ row' \in [Gateways -> [Requests -> Status]]
         /\ \A h \in Gateways, j \in Requests :
               row'[h][j] = IF h = g /\ j = i THEN s ELSE row[h][j]
  BY DEF SetRow

\* save_relationship makes one more contact of one request.
LEMMA AddContactFacts ==
  ASSUME contacts \in [Gateways -> [Requests -> Nat]],
         NEW g \in Gateways, NEW i \in Requests, AddContact(g, i)
  PROVE  /\ contacts' \in [Gateways -> [Requests -> Nat]]
         /\ \A h \in Gateways, j \in Requests :
               contacts'[h][j] = IF h = g /\ j = i THEN contacts[g][i] + 1
                                                   ELSE contacts[h][j]
  BY DEF AddContact

\* Settling the others accepts pending rows and leaves the rest as it is.
LEMMA SettledFacts ==
  ASSUME row \in [Gateways -> [Requests -> Status]],
         NEW g \in Gateways, NEW i \in Requests
  PROVE  /\ SettledRows(g, i) \in [Requests -> Status]
         /\ SettledRows(g, i)[i] = row[g][i]
         /\ \A j \in Requests :
               \/ SettledRows(g, i)[j] = row[g][j]
               \/ row[g][j] = "pending" /\ SettledRows(g, i)[j] = "accepted"
  BY DEF SettledRows, Others, Status

\* An id recorded leaves the others recorded.
LEMMA NonceFacts ==
  ASSUME nonces \in [Gateways -> SUBSET Requests],
         NEW g \in Gateways, NEW i \in Requests,
         nonces' = [nonces EXCEPT ![g] = @ \cup {i}]
  PROVE  /\ nonces' \in [Gateways -> SUBSET Requests]
         /\ i \in nonces'[g]
         /\ \A h \in Gateways : nonces[h] \subseteq nonces'[h]
  OBVIOUS

\* A step that leaves rows, contacts and ids alone, awaits no new request or
\* acceptance and takes back nothing it said.
Quiet ==
    /\ UNCHANGED <<row, contacts, nonces>>
    /\ told' \in [Requests -> Told]
    /\ \A i \in Requests :
          /\ told'[i] = "nothing" => told[i] = "nothing"
          /\ <<"invite", i>> \in first' => <<"invite", i>> \in first
          /\ <<"accept", i>> \in first' => <<"accept", i>> \in first

\* Quiet steps keep the invariant and every answer.
LEMMA QuietStep == Inv /\ Quiet => Inv' /\ Final
  BY DEF Inv, Types, ContactIsAnswered, SavedOnce, AcceptsOnce, RowIsSeen, Quiet,
         Final

-----------------------------------------------------------------------------
(* Steps that change a row, a contact or an id.                            *)

\* A request goes from one gateway to another.
LEMMA Ends ==
  \A i \in Requests :
     Issuer[i] \in Gateways /\ Target[i] \in Gateways /\ Issuer[i] # Target[i]
  BY FriendRequestAssumption

\* A request is asked for: awaited, and no longer one nobody was told of.
LEMMA AskStep ==
  ASSUME Inv, NEW i \in Requests, Ask(i)
  PROVE  Inv' /\ Final
<1>1. /\ told[i] = "nothing" /\ told' = [told EXCEPT ![i] = "asking"]
      /\ first' = first \cup {<<"invite", i>>}
      /\ UNCHANGED <<row, contacts, nonces>>
  BY DEF Ask
<1>2. /\ told' \in [Requests -> Told]
      /\ \A j \in Requests : told'[j] = IF j = i THEN "asking" ELSE told[j]
  BY <1>1 DEF Inv, Types, Told
<1>3. Types' /\ ContactIsAnswered' /\ RowIsSeen' /\ Final
  BY <1>1, <1>2 DEF Inv, Types, ContactIsAnswered, RowIsSeen, Final
<1>4. SavedOnce'
  BY <1>1, <1>2 DEF Inv, SavedOnce
<1>5. AcceptsOnce'
  BY <1>1 DEF Inv, AcceptsOnce
<1> QED
  BY <1>3, <1>4, <1>5 DEF Inv

\* The first POST is through and the request is saved, by AskDelivered,
\* AskQueued or a restart between its commits.
LEMMA SaveStep ==
  ASSUME Inv, NEW i \in Requests,
         SetRow(Issuer[i], i, "pending"), <<"invite", i>> \in first,
         <<"invite", i>> \notin first', first' \subseteq first,
         told' \in [Requests -> Told],
         \A j \in Requests : told'[j] = "nothing" => told[j] = "nothing",
         UNCHANGED <<contacts, nonces>>
  PROVE  Inv' /\ Final
<1>1. Issuer[i] \in Gateways /\ Issuer[i] # Target[i] /\ "pending" \in Status
  BY Ends DEF Status
<1>2. /\ row' \in [Gateways -> [Requests -> Status]]
      /\ \A h \in Gateways, j \in Requests :
            row'[h][j] = IF h = Issuer[i] /\ j = i THEN "pending" ELSE row[h][j]
  BY <1>1, SetRowFacts DEF Inv, Types
<1>3. row[Issuer[i]][i] = "none" /\ told[i] # "nothing"
  BY DEF Inv, SavedOnce
<1>4. Types' /\ Final
  BY <1>2, <1>3 DEF Inv, Types, Final
<1>5. ContactIsAnswered'
  BY <1>1, <1>2, <1>3 DEF Inv, Types, ContactIsAnswered
<1>6. SavedOnce'
  BY <1>2, <1>3, Ends DEF Inv, SavedOnce
<1>7. \A j \in Requests : row'[Target[j]][j] = row[Target[j]][j]
  BY <1>2, Ends
<1>8. AcceptsOnce'
  BY <1>7 DEF Inv, AcceptsOnce
<1>9. RowIsSeen'
  BY <1>7 DEF Inv, RowIsSeen
<1> QED
  BY <1>4, <1>5, <1>6, <1>8, <1>9 DEF Inv

\* A pending row is answered: withdrawn, ignored, failed or expired.
LEMMA AnswerStep ==
  ASSUME Inv, NEW g \in Gateways, NEW i \in Requests,
         NEW s \in Status \ {"none", "pending"},
         row[g][i] = "pending", SetRow(g, i, s),
         \A j \in Requests :
            /\ <<"invite", j>> \in first' => <<"invite", j>> \in first
            /\ <<"accept", j>> \in first' => <<"accept", j>> \in first,
         told' \in [Requests -> Told],
         \A j \in Requests : told'[j] = "nothing" => told[j] = "nothing",
         UNCHANGED <<contacts, nonces>>
  PROVE  Inv' /\ Final
<1>1. /\ row' \in [Gateways -> [Requests -> Status]]
      /\ \A h \in Gateways, j \in Requests :
            row'[h][j] = IF h = g /\ j = i THEN s ELSE row[h][j]
  BY SetRowFacts DEF Inv, Types
<1>2. Types' /\ Final
  BY <1>1 DEF Inv, Types, Final
<1>3. ContactIsAnswered'
  BY <1>1 DEF Inv, ContactIsAnswered
<1>4. \A h \in Gateways, j \in Requests :
         row[h][j] # "pending" => row'[h][j] = row[h][j]
  BY <1>1
<1>5. SavedOnce'
  BY <1>4, Ends DEF Inv, SavedOnce
<1>6. AcceptsOnce'
  BY <1>4, Ends DEF Inv, AcceptsOnce
<1>7. RowIsSeen'
  BY <1>1, Ends DEF Inv, RowIsSeen
<1> QED
  BY <1>2, <1>3, <1>5, <1>6, <1>7 DEF Inv

\* The target accepts; the POST is awaited.
LEMMA AcceptStep ==
  ASSUME Inv, NEW i \in Requests, Accept(i)
  PROVE  Inv' /\ Final
<1>1. /\ row[Target[i]][i] = "pending" /\ SetRow(Target[i], i, "accepted")
      /\ first' = first \cup {<<"accept", i>>}
      /\ UNCHANGED <<contacts, nonces, told>>
  BY DEF Accept, MayAnswer
<1>2. Target[i] \in Gateways /\ Target[i] # Issuer[i] /\ "accepted" \in Status
  BY Ends DEF Status
<1>3. /\ row' \in [Gateways -> [Requests -> Status]]
      /\ \A h \in Gateways, j \in Requests :
            row'[h][j] = IF h = Target[i] /\ j = i THEN "accepted" ELSE row[h][j]
  BY <1>1, <1>2, SetRowFacts DEF Inv, Types
<1>4. Types' /\ Final
  BY <1>1, <1>3 DEF Inv, Types, Final
<1>5. contacts[Target[i]][i] = 0
  BY <1>1, <1>2 DEF Inv, ContactIsAnswered
<1>6. ContactIsAnswered' /\ RowIsSeen'
  BY <1>1, <1>2, <1>3, Ends
  DEF Inv, ContactIsAnswered, RowIsSeen
<1>7. SavedOnce'
  <2>1. \A j \in Requests : row'[Issuer[j]][j] = row[Issuer[j]][j]
    BY <1>2, <1>3, Ends
  <2> QED
    BY <1>1, <2>1 DEF Inv, SavedOnce
<1>8. AcceptsOnce'
  BY <1>1, <1>2, <1>3, <1>5, Ends DEF Inv, AcceptsOnce
<1> QED
  BY <1>4, <1>6, <1>7, <1>8 DEF Inv

\* The target's POST has come to an end and the contact is made.
LEMMA AcceptedStep ==
  ASSUME Inv, NEW i \in Requests, Accepted(i)
  PROVE  Inv' /\ Final
<1> DEFINE g == Target[i]
           r == SettledRows(g, i)
<1>1. /\ <<"accept", i>> \in first /\ first' = first \ {<<"accept", i>>}
      /\ AddContact(g, i) /\ row' = [row EXCEPT ![g] = r]
      /\ UNCHANGED <<nonces, told>>
  BY DEF Accepted
<1>2. g \in Gateways
  BY Ends
<1>3. row[g][i] = "accepted" /\ contacts[g][i] = 0
  BY <1>1 DEF Inv, AcceptsOnce
<1>4. /\ r \in [Requests -> Status] /\ r[i] = row[g][i]
      /\ \A j \in Requests : \/ r[j] = row[g][j]
                             \/ row[g][j] = "pending" /\ r[j] = "accepted"
  BY <1>2, SettledFacts DEF Inv, Types
<1> HIDE DEF r
<1>5. /\ row' \in [Gateways -> [Requests -> Status]]
      /\ \A h \in Gateways, j \in Requests :
            \/ row'[h][j] = row[h][j]
            \/ row[h][j] = "pending" /\ row'[h][j] = "accepted"
      /\ row'[g][i] = "accepted"
  BY <1>1, <1>2, <1>3, <1>4 DEF Inv, Types
<1>6. /\ contacts' \in [Gateways -> [Requests -> Nat]]
      /\ \A h \in Gateways, j \in Requests :
            contacts'[h][j] = IF h = g /\ j = i THEN 1 ELSE contacts[h][j]
  BY <1>1, <1>2, <1>3, AddContactFacts DEF Inv, Types
<1> HIDE DEF g
<1>7. Types' /\ Final
  BY <1>1, <1>5, <1>6 DEF Inv, Types, Final
<1>8. ContactIsAnswered'
  BY <1>5, <1>6 DEF Inv, ContactIsAnswered
<1>9. \A h \in Gateways, j \in Requests :
         row[h][j] # "pending" => row'[h][j] = row[h][j]
  BY <1>5
<1>10. SavedOnce'
  BY <1>1, <1>9, Ends DEF Inv, SavedOnce
<1>11. RowIsSeen'
  BY <1>1, <1>5, Ends DEF Inv, RowIsSeen
<1>12. \A j \in Requests : <<"accept", j>> \in first' =>
                              <<"accept", j>> \in first /\ j # i
  BY <1>1
<1>13. AcceptsOnce'
  BY <1>6, <1>9, <1>12, Ends DEF Inv, AcceptsOnce
<1> QED
  BY <1>7, <1>8, <1>10, <1>11, <1>13 DEF Inv

\* The requester no longer wants it: the target's acceptance becomes void.
LEMMA AcceptGoneStep ==
  ASSUME Inv, NEW i \in Requests, AcceptGone(i)
  PROVE  Inv' /\ Final
<1>1. /\ <<"accept", i>> \in first /\ first' = first \ {<<"accept", i>>}
      /\ SetRow(Target[i], i, "withdrawn")
      /\ UNCHANGED <<contacts, nonces, told>>
  BY DEF AcceptGone
<1>2. Target[i] \in Gateways /\ Target[i] # Issuer[i] /\ "withdrawn" \in Status
  BY Ends DEF Status
<1>3. row[Target[i]][i] = "accepted" /\ contacts[Target[i]][i] = 0
  BY <1>1 DEF Inv, AcceptsOnce
<1>4. /\ row' \in [Gateways -> [Requests -> Status]]
      /\ \A h \in Gateways, j \in Requests :
            row'[h][j] = IF h = Target[i] /\ j = i THEN "withdrawn" ELSE row[h][j]
  BY <1>1, <1>2, SetRowFacts DEF Inv, Types
<1>5. Types' /\ Final
  BY <1>1, <1>3, <1>4 DEF Inv, Types, Final
<1>6. ContactIsAnswered' /\ RowIsSeen'
  BY <1>1, <1>2, <1>3, <1>4, Ends
  DEF Inv, ContactIsAnswered, RowIsSeen
<1>7. /\ \A j \in Requests : row'[Issuer[j]][j] = row[Issuer[j]][j]
      /\ \A j \in Requests \ {i} : row'[Target[j]][j] = row[Target[j]][j]
  BY <1>2, <1>4, Ends
<1>8. SavedOnce'
  BY <1>1, <1>7 DEF Inv, SavedOnce
<1>9. \A j \in Requests : <<"accept", j>> \in first' =>
                             <<"accept", j>> \in first /\ j # i
  BY <1>1
<1>10. AcceptsOnce'
  BY <1>1, <1>7, <1>9 DEF Inv, AcceptsOnce
<1> QED
  BY <1>5, <1>6, <1>8, <1>10 DEF Inv

\* Only a pending request is accepted, and only an unseen one gets a card.
LEMMA CodeFacts ==
  \A i \in Requests :
     /\ AcceptCode(i) = "ok" => row[Issuer[i]][i] = "pending"
     /\ InviteCode(i) = "ok" => i \notin expired /\ i \notin nonces[Target[i]]
  BY DEF AcceptCode, InviteCode, Seen

\* The requester's gateway is told of an acceptance.
LEMMA HandleAcceptStep ==
  ASSUME Inv, NEW i \in Requests, HandleAccept(i)
  PROVE  Inv' /\ Final
<1> DEFINE g == Issuer[i]
           r == SettledRows(g, i)
           s == [r EXCEPT ![i] = "accepted"]
<1>1. UNCHANGED <<first, told>>
  BY DEF HandleAccept
<1>2. CASE AcceptCode(i) # "ok"
  <2>1. Quiet
    BY <1>1, <1>2 DEF HandleAccept, Quiet, Inv, Types
  <2> QED
    BY <2>1, QuietStep
<1>3. CASE AcceptCode(i) = "ok"
  <2>1. /\ nonces' = [nonces EXCEPT ![g] = @ \cup {i}] /\ AddContact(g, i)
        /\ row' = [row EXCEPT ![g] = s]
    BY <1>3 DEF HandleAccept
  <2>2. g \in Gateways /\ row[g][i] = "pending" /\ contacts[g][i] = 0
    BY <1>3, Ends, CodeFacts DEF Inv, ContactIsAnswered
  <2>3. /\ r \in [Requests -> Status]
        /\ \A j \in Requests : \/ r[j] = row[g][j]
                               \/ row[g][j] = "pending" /\ r[j] = "accepted"
    BY <2>2, SettledFacts DEF Inv, Types
  <2> HIDE DEF r
  <2>4. /\ s \in [Requests -> Status] /\ s[i] = "accepted"
        /\ \A j \in Requests : \/ s[j] = row[g][j]
                               \/ row[g][j] = "pending" /\ s[j] = "accepted"
    BY <2>2, <2>3 DEF Status
  <2> HIDE DEF s
  <2>5. /\ row' \in [Gateways -> [Requests -> Status]]
        /\ \A h \in Gateways, j \in Requests :
              \/ row'[h][j] = row[h][j]
              \/ row[h][j] = "pending" /\ row'[h][j] = "accepted"
        /\ row'[g][i] = "accepted"
    BY <2>1, <2>2, <2>4 DEF Inv, Types
  <2>6. /\ contacts' \in [Gateways -> [Requests -> Nat]]
        /\ \A h \in Gateways, j \in Requests :
              contacts'[h][j] = IF h = g /\ j = i THEN 1 ELSE contacts[h][j]
    BY <2>1, <2>2, AddContactFacts DEF Inv, Types
  <2>7. /\ nonces' \in [Gateways -> SUBSET Requests]
        /\ \A h \in Gateways : nonces[h] \subseteq nonces'[h]
    BY <2>1, <2>2, NonceFacts DEF Inv, Types
  <2>8. \A j \in Requests : contacts'[Target[j]][j] = contacts[Target[j]][j]
    BY <2>6, Ends
  <2> HIDE DEF g
  <2>9. Types' /\ Final
    BY <1>1, <2>5, <2>6, <2>7 DEF Inv, Types, Final
  <2>10. ContactIsAnswered'
    BY <2>5, <2>6 DEF Inv, ContactIsAnswered
  <2>11. \A h \in Gateways, j \in Requests :
            row[h][j] # "pending" => row'[h][j] = row[h][j]
    BY <2>5
  <2>12. SavedOnce'
    BY <1>1, <2>11, Ends DEF Inv, SavedOnce
  <2>13. AcceptsOnce'
    BY <1>1, <2>8, <2>11, Ends DEF Inv, AcceptsOnce
  <2>14. RowIsSeen'
    BY <2>5, <2>7, Ends DEF Inv, RowIsSeen
  <2> QED
    BY <2>9, <2>10, <2>12, <2>13, <2>14 DEF Inv
<1> QED
  BY <1>2, <1>3

\* The target's gateway gets a request.
LEMMA HandleInviteStep ==
  ASSUME Inv, NEW i \in Requests, HandleInvite(i)
  PROVE  Inv' /\ Final
<1> DEFINE g == Target[i]
<1>1. UNCHANGED <<contacts, first, told>>
  BY DEF HandleInvite
<1>2. g \in Gateways /\ g # Issuer[i] /\ "pending" \in Status
  BY Ends DEF Status
<1>3. /\ nonces' \in [Gateways -> SUBSET Requests]
      /\ i \notin expired => i \in nonces'[g]
      /\ \A h \in Gateways : nonces[h] \subseteq nonces'[h]
  <2>1. CASE i \in expired
    BY <2>1 DEF HandleInvite, Inv, Types
  <2>2. CASE i \notin expired
    BY <1>2, <2>2, NonceFacts DEF HandleInvite, Inv, Types
  <2> QED
    BY <2>1, <2>2
<1>4. CASE InviteCode(i) # "ok"
  <2>1. UNCHANGED row
    BY <1>4 DEF HandleInvite
  <2>2. Types' /\ Final
    BY <1>1, <1>3, <2>1 DEF Inv, Types, Final
  <2>3. ContactIsAnswered' /\ SavedOnce' /\ AcceptsOnce'
    BY <1>1, <2>1 DEF Inv, ContactIsAnswered, SavedOnce, AcceptsOnce
  <2>4. RowIsSeen'
    BY <1>3, <2>1, Ends DEF Inv, RowIsSeen
  <2> QED
    BY <2>2, <2>3, <2>4 DEF Inv
<1>5. CASE InviteCode(i) = "ok"
  <2>1. i \notin expired /\ row[g][i] = "none" /\ contacts[g][i] = 0
    BY <1>2, <1>5, CodeFacts DEF Inv, RowIsSeen, ContactIsAnswered
  <2>2. /\ row' \in [Gateways -> [Requests -> Status]]
        /\ \A h \in Gateways, j \in Requests :
              row'[h][j] = IF h = g /\ j = i THEN "pending" ELSE row[h][j]
    BY <1>2, <1>5, SetRowFacts DEF HandleInvite, Inv, Types
  <2>3. Types' /\ Final
    BY <1>1, <1>3, <2>1, <2>2 DEF Inv, Types, Final
  <2>4. ContactIsAnswered'
    BY <1>1, <2>1, <2>2 DEF Inv, ContactIsAnswered
  <2>5. \A j \in Requests : row'[Issuer[j]][j] = row[Issuer[j]][j]
    BY <1>2, <2>2, Ends
  <2>6. SavedOnce'
    BY <1>1, <2>5 DEF Inv, SavedOnce
  <2>7. \A h \in Gateways, j \in Requests :
           row[h][j] # "none" => row'[h][j] = row[h][j]
    BY <2>1, <2>2
  <2>8. AcceptsOnce'
    BY <1>1, <2>7, Ends DEF Inv, AcceptsOnce
  <2>9. RowIsSeen'
    BY <1>3, <2>1, <2>2, Ends DEF Inv, RowIsSeen
  <2> QED
    BY <2>3, <2>4, <2>6, <2>8, <2>9 DEF Inv
<1> QED
  BY <1>4, <1>5

-----------------------------------------------------------------------------
(* Every step.                                                             *)

\* The steps of the requester and its gateway's handlers.
LEMMA RequesterStep ==
  ASSUME Inv, NEW i \in Requests, Requester(i)
  PROVE  Inv' /\ Final
<1>1. CASE Ask(i)
  BY <1>1, AskStep
<1>2. CASE AskDelivered(i) \/ AskQueued(i)
  <2>1. /\ <<"invite", i>> \in first /\ first' = first \ {<<"invite", i>>}
        /\ SetRow(Issuer[i], i, "pending")
        /\ UNCHANGED <<contacts, nonces>>
    BY <1>2 DEF AskDelivered, AskQueued
  <2>2. told' = [told EXCEPT ![i] = "sent"] \/ told' = [told EXCEPT ![i] = "queued"]
    BY <1>2 DEF AskDelivered, AskQueued
  <2>3. /\ told' \in [Requests -> Told]
        /\ \A j \in Requests : told'[j] = "nothing" => told[j] = "nothing"
    BY <2>2 DEF Inv, Types, Told
  <2> QED
    BY <2>1, <2>3, SaveStep
<1>3. CASE Withdraw(i)
  <2>1. "withdrawn" \in Status \ {"none", "pending"} /\ Issuer[i] \in Gateways
    BY Ends DEF Status
  <2> QED
    BY <1>3, <2>1, AnswerStep DEF Withdraw, Inv, Types
<1>4. CASE WithdrawQueued(i)
  <2>1. first' = first \/ first' = first \cup {<<"withdraw", i>>}
    BY <1>4 DEF WithdrawQueued
  <2>2. Quiet
    BY <1>4, <2>1 DEF WithdrawQueued, Quiet, Inv, Types
  <2> QED
    BY <2>2, QuietStep
<1>5. CASE HandleAccept(i)
  BY <1>5, HandleAcceptStep
<1>6. CASE HandleDecline(i)
  <2>1. CASE row[Issuer[i]][i] = "pending"
    <3>1. "declined" \in Status \ {"none", "pending"} /\ Issuer[i] \in Gateways
      BY Ends DEF Status
    <3> QED
      BY <1>6, <2>1, <3>1, AnswerStep DEF HandleDecline, Inv, Types
  <2>2. CASE row[Issuer[i]][i] # "pending"
    <3>1. Quiet
      BY <1>6, <2>2 DEF HandleDecline, Quiet, Inv, Types
    <3> QED
      BY <3>1, QuietStep
  <2> QED
    BY <2>1, <2>2
<1> QED
  BY <1>1, <1>2, <1>3, <1>4, <1>5, <1>6 DEF Requester

\* The steps of the target and its gateway's handlers.
LEMMA InviteeStep ==
  ASSUME Inv, NEW i \in Requests, Invitee(i)
  PROVE  Inv' /\ Final
<1>1. Target[i] \in Gateways /\ {"withdrawn", "declined"} \subseteq Status
  BY Ends DEF Status
<1>2. CASE HandleInvite(i)
  BY <1>2, HandleInviteStep
<1>3. CASE HandleWithdraw(i)
  <2>1. CASE row[Target[i]][i] = "pending"
    BY <1>1, <1>3, <2>1, AnswerStep DEF HandleWithdraw, Inv, Types
  <2>2. CASE row[Target[i]][i] # "pending"
    <3>1. Quiet
      BY <1>3, <2>2 DEF HandleWithdraw, Quiet, Inv, Types
    <3> QED
      BY <3>1, QuietStep
  <2> QED
    BY <2>1, <2>2
<1>4. CASE Accept(i)
  BY <1>4, AcceptStep
<1>5. CASE Accepted(i)
  BY <1>5, AcceptedStep
<1>6. CASE AcceptGone(i)
  BY <1>6, AcceptGoneStep
<1>7. CASE Decline(i)
  <2>1. /\ row[Target[i]][i] = "pending" /\ SetRow(Target[i], i, "declined")
        /\ first' = first \cup {<<"decline", i>>}
        /\ UNCHANGED <<contacts, nonces, told>>
    BY <1>7 DEF Decline, MayAnswer
  <2> QED
    BY <1>1, <2>1, AnswerStep DEF Inv, Types
<1> QED
  BY <1>2, <1>3, <1>4, <1>5, <1>6, <1>7 DEF Invitee

\* A request that is not delivered fails only while it is pending.
LEMMA UndeliverableStep ==
  ASSUME Inv, NEW i \in Requests, NEW s \in {"failed", "expired"},
         Undeliverable(i, s), UNCHANGED <<contacts, nonces, first>>
  PROVE  Inv' /\ Final
<1>1. CASE row[Issuer[i]][i] = "pending"
  <2>1. SetRow(Issuer[i], i, s) /\ told' = [told EXCEPT ![i] = "failed"]
    BY <1>1 DEF Undeliverable
  <2>2. /\ told' \in [Requests -> Told]
        /\ \A j \in Requests : told'[j] = "nothing" => told[j] = "nothing"
    BY <2>1 DEF Inv, Types, Told
  <2>3. s \in Status \ {"none", "pending"} /\ Issuer[i] \in Gateways
    BY Ends DEF Status
  <2> QED
    BY <1>1, <2>1, <2>2, <2>3, AnswerStep
<1>2. CASE row[Issuer[i]][i] # "pending"
  <2>1. Quiet
    BY <1>2 DEF Undeliverable, Quiet, Inv, Types
  <2> QED
    BY <2>1, QuietStep
<1> QED
  BY <1>1, <1>2

\* The steps of the queue.
LEMMA QueueStep ==
  ASSUME Inv, NEW i \in Requests, Queue(i)
  PROVE  Inv' /\ Final
<1>1. CASE DropSettled(i)
  <2>1. Quiet
    BY <1>1 DEF DropSettled, Quiet, Inv, Types
  <2> QED
    BY <2>1, QuietStep
<1>2. CASE RequestDelivered(i)
  <2>1. /\ told' = [told EXCEPT ![i] = "delivered"]
        /\ UNCHANGED <<row, contacts, nonces, first>>
    BY <1>2 DEF RequestDelivered
  <2>2. /\ told' \in [Requests -> Told]
        /\ \A j \in Requests : told'[j] = "nothing" => told[j] = "nothing"
    BY <2>1 DEF Inv, Types, Told
  <2>3. Quiet
    BY <2>1, <2>2 DEF Quiet
  <2> QED
    BY <2>3, QuietStep
<1>3. CASE RequestRefused(i)
  BY <1>3, UndeliverableStep DEF RequestRefused
<1>4. CASE SweepRequest(i)
  BY <1>4, UndeliverableStep DEF SweepRequest
<1>5. CASE \E k \in Kinds \ {"accept"} : Retry(k, i) \/ RetryFailed(k, i)
  <2>1. Quiet
    BY <1>5 DEF Retry, RetryFailed, Quiet, Inv, Types
  <2> QED
    BY <2>1, QuietStep
<1> QED
  BY <1>1, <1>2, <1>3, <1>4, <1>5 DEF Queue

\* A restart forgets what is awaited.
LEMMA InterruptFacts ==
  ASSUME NEW g \in Gateways, Interrupt(g)
  PROVE  first' \subseteq first /\ UNCHANGED <<contacts, nonces, told>>
  BY DEF Interrupt

\* The invariant is inductive, and no step takes back an answer.
LEMMA Step == Inv /\ [Next]_vars => Inv' /\ (Final \/ UNCHANGED vars)
<1> SUFFICES ASSUME Inv, [Next]_vars
             PROVE  Inv' /\ (Final \/ UNCHANGED vars)
  OBVIOUS
<1>1. ASSUME NEW i \in Requests, Requester(i) \/ Invitee(i) \/ Queue(i)
      PROVE  Inv' /\ Final
  BY <1>1, RequesterStep, InviteeStep, QueueStep
<1>2. ASSUME NEW i \in Requests, Expire(i)
      PROVE  Inv' /\ Final
  <2>1. Quiet
    BY <1>2 DEF Expire, Quiet, Inv, Types
  <2> QED
    BY <2>1, QuietStep
<1>3. ASSUME NEW i \in Requests, RestartUnqueued(i)
      PROVE  Inv' /\ Final
  <2>1. Interrupt(Issuer[i]) /\ Issuer[i] \in Gateways
    BY <1>3, Ends DEF RestartUnqueued
  <2>2. first' \subseteq first /\ UNCHANGED <<contacts, nonces, told>>
    BY <2>1, InterruptFacts
  <2>3. <<"invite", i>> \in first /\ SetRow(Issuer[i], i, "pending")
    BY <1>3 DEF RestartUnqueued
  <2>4. <<"invite", i>> \notin first'
    BY <2>1 DEF Interrupt, Sender
  <2> QED
    BY <2>2, <2>3, <2>4, SaveStep DEF Inv, Types
<1>4. ASSUME NEW i \in Requests, NEW k \in {"decline", "withdraw"}, Notice(k, i)
      PROVE  Inv' /\ Final
  <2>1. Quiet
    BY <1>4 DEF Notice, NoticeTold, NoticeQueued, NoticeDelivered, SweepNotice,
                Quiet, Inv, Types
  <2> QED
    BY <2>1, QuietStep
<1>5. ASSUME NEW g \in Gateways, Restart(g)
      PROVE  Inv' /\ Final
  <2>1. first' \subseteq first /\ UNCHANGED <<row, contacts, nonces, told>>
    BY <1>5, InterruptFacts DEF Restart
  <2>2. Quiet
    BY <2>1 DEF Quiet, Inv, Types
  <2> QED
    BY <2>2, QuietStep
<1>6. CASE UNCHANGED vars
  BY <1>6 DEF vars, Inv, Types, ContactIsAnswered, SavedOnce, AcceptsOnce,
              RowIsSeen
<1> QED
  BY <1>1, <1>2, <1>3, <1>4, <1>5, <1>6 DEF Next

-----------------------------------------------------------------------------
\* What the rows, contacts and ids satisfy in every reachable state.
THEOREM FriendInvariant == Spec => []Inv
<1> QED
  BY InitInv, Step, PTL DEF Spec

\* A request makes at most one contact on each side, for any gateways and
\* requests and whatever is lost, late, repeated or interrupted.
THEOREM FriendOnePerRequest == Spec => []OnePerRequest
<1>1. Inv => OnePerRequest
  BY DEF Inv, ContactIsAnswered, OnePerRequest
<1> QED
  BY <1>1, FriendInvariant, PTL

\* An answer given is final: no row that was accepted, ignored, withdrawn or
\* has failed changes again, but for an acceptance the requester refuses.
THEOREM FriendAnswersFinal == Spec => AnswersAreFinal
<1>1. Inv /\ [Next]_vars => Final \/ UNCHANGED vars
  BY Step
<1>2. Final <=> \A g \in Gateways, i \in Requests :
          row[g][i] \notin {"none", "pending"} =>
             \/ row'[g][i] = row[g][i]
             \/ /\ g = Target[i] /\ <<"accept", i>> \in first
                /\ row[g][i] = "accepted" /\ row'[g][i] = "withdrawn"
  BY DEF Final
<1> QED
  BY <1>1, <1>2, FriendInvariant, PTL DEF Spec, AnswersAreFinal

-----------------------------------------------------------------------------
(* Where a POST is: awaited by a handler, in the queue, or being retried.  *)

At(p) == Sender(p[1], p[2])

\* In the queue, or its row in the hands of the worker.
Waits(p) == p \in queue[At(p)] \/ worker[At(p)] = p

Out(p) == p \in first \/ Waits(p)

WireTypes ==
    /\ queue \in [Gateways -> SUBSET Posts]
    /\ worker \in [Gateways -> Posts \cup {NoRow}]
    /\ first \subseteq Posts
    /\ post \in [Posts -> PostState]
    /\ withdrawing \subseteq Requests
    /\ expired \subseteq Requests
    /\ restarts \in 0..MaxRestarts

\* A POST has one sender at a time, and what is unsettled is awaited by it.
Placed ==
    \A p \in Posts :
       /\ p \in first => ~Waits(p)
       /\ post[p] \in {"sent"} \cup Codes => p \in first \/ worker[At(p)] = p

\* A POST is made for a reason that lasts: so none is made twice.
Begun ==
    \A i \in Requests :
       /\ Waits(<<"invite", i>>) => told[i] # "nothing"
       /\ Out(<<"withdraw", i>>) => row[Issuer[i]][i] = "withdrawn" /\ i \notin withdrawing
       /\ i \in withdrawing => row[Issuer[i]][i] = "withdrawn"
       /\ Out(<<"decline", i>>) => row[Target[i]][i] = "declined"
       /\ ~Waits(<<"accept", i>>)

PostOK == WireTypes /\ Placed /\ Begun

\* A kind and a request make a POST, of one of the two gateways.
LEMMA PostParts ==
  ASSUME NEW k \in Kinds, NEW i \in Requests
  PROVE  /\ <<k, i>> \in Posts /\ <<k, i>>[1] = k /\ <<k, i>>[2] = i
         /\ At(<<k, i>>) = Sender(k, i) /\ Sender(k, i) \in Gateways
         /\ <<k, i>> # NoRow
  BY FriendRequestAssumption DEF Posts, Sender, At

\* A POST is of a kind and a request.
LEMMA PostsParts ==
  ASSUME NEW p \in Posts
  PROVE  /\ p[1] \in Kinds /\ p[2] \in Requests /\ p = <<p[1], p[2]>>
         /\ At(p) \in Gateways /\ p # NoRow
  BY FriendRequestAssumption DEF Posts, Sender, At

-----------------------------------------------------------------------------
(* What a step does to the POSTs.                                          *)

\* A handler makes the POST k, i and awaits it.
Starts(k, i) ==
    /\ first' = first \cup {<<k, i>>}
    /\ SendPost(k, i)
    /\ UNCHANGED <<queue, worker>>

\* It is answered by the other gateway.
Handled(k, i) ==
    /\ \E code \in Codes : Answer(k, i, code)
    /\ UNCHANGED <<first, queue, worker>>

\* Whoever awaits it reads its answer or gives it up.
Over(k, i) == GotAnswer(k, i, Codes) \/ NoAnswer(k, i)

\* The handler that made it is through; unless it is an acceptance it may queue it.
Finishes(k, i) ==
    /\ <<k, i>> \in first
    /\ first' = first \ {<<k, i>>}
    /\ Over(k, i)
    /\ worker' = worker
    /\ \/ queue' = queue
       \/ k # "accept" /\ queue' = [queue EXCEPT ![Sender(k, i)] = @ \cup {<<k, i>>}]

\* The worker has the row's POST behind it.
Settles(k, i) ==
    /\ worker[Sender(k, i)] = <<k, i>>
    /\ worker' = [worker EXCEPT ![Sender(k, i)] = NoRow]
    /\ Over(k, i)
    /\ first' = first
    /\ \/ queue' = queue
       \/ queue' = [queue EXCEPT ![Sender(k, i)] = @ \ {<<k, i>>}]

\* A queued row is taken off without a POST.
Drops(k, i) ==
    /\ worker[Sender(k, i)] = NoRow
    /\ queue' = [queue EXCEPT ![Sender(k, i)] = @ \ {<<k, i>>}]
    /\ UNCHANGED <<first, worker, post>>

\* The values of post, queue and worker after each kind of change.
LEMMA PostValue ==
  ASSUME WireTypes, NEW k \in Kinds, NEW i \in Requests, NEW v \in PostState,
         post' = [post EXCEPT ![<<k, i>>] = v]
  PROVE  /\ post' \in [Posts -> PostState]
         /\ post'[<<k, i>>] = v
         /\ \A p \in Posts : p # <<k, i>> => post'[p] = post[p]
  BY PostParts DEF WireTypes

\* An answer reaches whoever still awaits it.
LEMMA AnswerValue ==
  ASSUME WireTypes, NEW k \in Kinds, NEW i \in Requests, NEW code \in Codes, Answer(k, i, code)
  PROVE  /\ post' \in [Posts -> PostState]
         /\ post'[<<k, i>>] = IF post[<<k, i>>] = "sent" THEN code ELSE "idle"
         /\ \A p \in Posts : p # <<k, i>> => post'[p] = post[p]
<1> DEFINE v == IF post[<<k, i>>] = "sent" THEN code ELSE "idle"
<1>1. v \in PostState /\ post' = [post EXCEPT ![<<k, i>>] = v]
  BY DEF Answer, PostState
<1> HIDE DEF v
<1>2. /\ post' \in [Posts -> PostState]
      /\ post'[<<k, i>>] = v
      /\ \A p \in Posts : p # <<k, i>> => post'[p] = post[p]
  BY <1>1, PostValue
<1> QED
  BY <1>2 DEF v

\* What was awaited no longer is.
LEMMA OverValue ==
  ASSUME WireTypes, NEW k \in Kinds, NEW i \in Requests, Over(k, i)
  PROVE  /\ post' \in [Posts -> PostState]
         /\ post'[<<k, i>>] \in {"idle", "late"}
         /\ k \notin Lossy => post'[<<k, i>>] = "idle" /\ post[<<k, i>>] \in Codes
         /\ \A p \in Posts : p # <<k, i>> => post'[p] = post[p]
<1>1. CASE GotAnswer(k, i, Codes)
  <2>1. "idle" \in PostState /\ post' = [post EXCEPT ![<<k, i>>] = "idle"]
    BY <1>1 DEF GotAnswer, PostState
  <2>2. /\ post' \in [Posts -> PostState]
        /\ post'[<<k, i>>] = "idle"
        /\ \A p \in Posts : p # <<k, i>> => post'[p] = post[p]
    BY <2>1, PostValue
  <2> QED
    BY <1>1, <2>2 DEF GotAnswer
<1>2. CASE NoAnswer(k, i)
  <2> DEFINE v == IF post[<<k, i>>] = "sent" THEN "late" ELSE "idle"
  <2>1. v \in PostState /\ post' = [post EXCEPT ![<<k, i>>] = v] /\ v \in {"idle", "late"}
    BY <1>2 DEF NoAnswer, PostState
  <2> HIDE DEF v
  <2>2. /\ post' \in [Posts -> PostState]
        /\ post'[<<k, i>>] = v
        /\ \A p \in Posts : p # <<k, i>> => post'[p] = post[p]
    BY <2>1, PostValue
  <2> QED
    BY <1>2, <2>1, <2>2 DEF NoAnswer
<1> QED
  BY <1>1, <1>2 DEF Over

\* The queue changes by one row at most.
LEMMA QueueValue ==
  ASSUME WireTypes, NEW k \in Kinds, NEW i \in Requests,
         \/ queue' = queue
         \/ queue' = [queue EXCEPT ![Sender(k, i)] = @ \cup {<<k, i>>}]
         \/ queue' = [queue EXCEPT ![Sender(k, i)] = @ \ {<<k, i>>}]
  PROVE  /\ queue' \in [Gateways -> SUBSET Posts]
         /\ \A p \in Posts : p # <<k, i>> => (p \in queue'[At(p)] <=> p \in queue[At(p)])
<1>1. /\ <<k, i>> \in Posts /\ Sender(k, i) \in Gateways
      /\ \A p \in Posts : At(p) \in Gateways
  BY PostParts, PostsParts
<1>2. queue' \in [Gateways -> SUBSET Posts]
  BY <1>1 DEF WireTypes
<1>3. ASSUME NEW p \in Posts, p # <<k, i>>
      PROVE  p \in queue'[At(p)] <=> p \in queue[At(p)]
  <2> DEFINE g == At(p)
             s == Sender(k, i)
  <2>1. g \in Gateways /\ s \in Gateways
    BY <1>1
  <2> HIDE DEF g, s
  <2>2. p \in queue'[g] <=> p \in queue[g]
    <3>1. CASE queue' = queue
      BY <3>1
    <3>2. CASE queue' = [queue EXCEPT ![s] = @ \cup {<<k, i>>}]
      BY <1>3, <2>1, <3>2 DEF WireTypes
    <3>3. CASE queue' = [queue EXCEPT ![s] = @ \ {<<k, i>>}]
      BY <1>3, <2>1, <3>3 DEF WireTypes
    <3> QED
      BY <3>1, <3>2, <3>3 DEF s
  <2> QED
    BY <2>2 DEF g
<1> QED
  BY <1>2, <1>3

\* The worker takes or puts down one row.
LEMMA WorkerValue ==
  ASSUME WireTypes, NEW k \in Kinds, NEW i \in Requests,
         NEW w \in {NoRow, <<k, i>>},
         worker[Sender(k, i)] \in {NoRow, <<k, i>>},
         worker' = [worker EXCEPT ![Sender(k, i)] = w]
  PROVE  /\ worker' \in [Gateways -> Posts \cup {NoRow}]
         /\ worker'[Sender(k, i)] = w
         /\ \A p \in Posts : p # <<k, i>> => (worker'[At(p)] = p <=> worker[At(p)] = p)
<1>1. /\ <<k, i>> \in Posts /\ Sender(k, i) \in Gateways
      /\ \A p \in Posts : At(p) \in Gateways /\ p # NoRow
  BY PostParts, PostsParts
<1>2. /\ worker' \in [Gateways -> Posts \cup {NoRow}] /\ worker'[Sender(k, i)] = w
      /\ \A g \in Gateways : g # Sender(k, i) => worker'[g] = worker[g]
  BY <1>1 DEF WireTypes
<1> QED
  BY <1>1, <1>2

\* The worker tries a queued row.
Attempts(k, i) ==
    /\ worker[Sender(k, i)] = NoRow
    /\ <<k, i>> \in queue[Sender(k, i)]
    /\ worker' = [worker EXCEPT ![Sender(k, i)] = <<k, i>>]
    /\ SendPost(k, i)
    /\ UNCHANGED <<first, queue>>

\* What is to be shown of each kind of change: the types, and that a POST is
\* awaited or waits afterwards only if it was before, or is k, i started now.
Sound(k, i) ==
    /\ queue' \in [Gateways -> SUBSET Posts]
    /\ worker' \in [Gateways -> Posts \cup {NoRow}]
    /\ first' \subseteq Posts
    /\ post' \in [Posts -> PostState]
    /\ Placed'
    /\ \A p \in Posts :
          /\ p \in first' => p \in first \/ (p = <<k, i>> /\ Starts(k, i))
          /\ Waits(p)' => Waits(p) \/ (p \in first /\ p[1] # "accept")

\* Placed' holds of every POST but k, i if that is the only one that moved.
LEMMA OthersPlaced ==
  ASSUME Placed, NEW k \in Kinds, NEW i \in Requests,
         \A p \in Posts : p # <<k, i>> =>
            /\ post'[p] = post[p]
            /\ p \in first' <=> p \in first
            /\ p \in queue'[At(p)] <=> p \in queue[At(p)]
            /\ worker'[At(p)] = p <=> worker[At(p)] = p
  PROVE  \A p \in Posts : p # <<k, i>> =>
            /\ p \in first' => p \in first /\ ~Waits(p)'
            /\ Waits(p)' <=> Waits(p)
            /\ post'[p] \in {"sent"} \cup Codes => p \in first' \/ worker'[At(p)] = p
  BY DEF Placed, Waits

\* Each kind of change is sound: a POST made by a handler ...
LEMMA StartsSound ==
  ASSUME WireTypes, Placed, NEW k \in Kinds, NEW i \in Requests,
         Starts(k, i), ~Out(<<k, i>>)
  PROVE  Sound(k, i)
<1> DEFINE p0 == <<k, i>>
<1>1. p0 \in Posts /\ p0[1] = k
  BY PostParts
<1>2. /\ post' \in [Posts -> PostState] /\ post'[p0] = "sent"
      /\ \A p \in Posts : p # p0 => post'[p] = post[p]
  <2>1. "sent" \in PostState
    BY DEF PostState
  <2> QED
    BY <2>1, PostValue DEF Starts, SendPost
<1>3. first' = first \cup {p0} /\ queue' = queue /\ worker' = worker
  BY DEF Starts
<1>4. \A p \in Posts : p # p0 =>
            /\ p \in first' => p \in first /\ ~Waits(p)'
            /\ Waits(p)' <=> Waits(p)
            /\ post'[p] \in {"sent"} \cup Codes => p \in first' \/ worker'[At(p)] = p
  BY <1>2, <1>3, OthersPlaced
<1>5. p0 \in first' /\ ~Waits(p0)'
  BY <1>3 DEF Out, Waits
<1> HIDE DEF p0
<1>6. Placed'
  BY <1>4, <1>5 DEF Placed
<1>7. \A p \in Posts :
          /\ p \in first' => p \in first \/ (p = p0 /\ Starts(k, i))
          /\ Waits(p)' => Waits(p) \/ (p \in first /\ p[1] # "accept")
  BY <1>4, <1>5
<1> QED
  BY <1>1, <1>2, <1>3, <1>6, <1>7 DEF Sound, WireTypes, p0

\* ... its answer by the other gateway ...
LEMMA HandledSound ==
  ASSUME WireTypes, Placed, NEW k \in Kinds, NEW i \in Requests, Handled(k, i)
  PROVE  Sound(k, i)
<1> DEFINE p0 == <<k, i>>
<1>1. p0 \in Posts
  BY PostParts
<1> PICK code \in Codes : Answer(k, i, code)
  BY DEF Handled
<1>2. /\ post' \in [Posts -> PostState]
      /\ post'[p0] = IF post[p0] = "sent" THEN code ELSE "idle"
      /\ \A p \in Posts : p # p0 => post'[p] = post[p]
  BY AnswerValue
<1>3. UNCHANGED <<first, queue, worker>>
  BY DEF Handled
<1>4. \A p \in Posts : p # p0 =>
            /\ p \in first' => p \in first /\ ~Waits(p)'
            /\ Waits(p)' <=> Waits(p)
            /\ post'[p] \in {"sent"} \cup Codes => p \in first' \/ worker'[At(p)] = p
  BY <1>2, <1>3, OthersPlaced
<1>5. /\ p0 \in first' <=> p0 \in first
      /\ Waits(p0)' <=> Waits(p0)
      /\ worker'[At(p0)] = p0 <=> worker[At(p0)] = p0
      /\ post'[p0] \in {"sent"} \cup Codes => post[p0] = "sent"
  BY <1>2, <1>3 DEF Waits, Codes
<1> HIDE DEF p0
<1>6. Placed'
  BY <1>1, <1>4, <1>5 DEF Placed
<1>7. \A p \in Posts :
          /\ p \in first' => p \in first \/ (p = p0 /\ Starts(k, i))
          /\ Waits(p)' => Waits(p) \/ (p \in first /\ p[1] # "accept")
  BY <1>4, <1>5
<1> QED
  BY <1>2, <1>3, <1>6, <1>7 DEF Sound, WireTypes, p0

\* ... its end for the handler that awaits it ...
LEMMA FinishesSound ==
  ASSUME WireTypes, Placed, NEW k \in Kinds, NEW i \in Requests, Finishes(k, i)
  PROVE  Sound(k, i)
<1> DEFINE p0 == <<k, i>>
<1>1. p0 \in Posts /\ p0[1] = k
  BY PostParts
<1>2. /\ post' \in [Posts -> PostState] /\ post'[p0] \in {"idle", "late"}
      /\ \A p \in Posts : p # p0 => post'[p] = post[p]
  BY OverValue DEF Finishes
<1>3. p0 \in first /\ first' = first \ {p0} /\ worker' = worker
  BY DEF Finishes
<1>4. /\ queue' \in [Gateways -> SUBSET Posts]
      /\ \A p \in Posts : p # p0 => (p \in queue'[At(p)] <=> p \in queue[At(p)])
  BY QueueValue DEF Finishes
<1>5. \A p \in Posts : p # p0 =>
            /\ p \in first' => p \in first /\ ~Waits(p)'
            /\ Waits(p)' <=> Waits(p)
            /\ post'[p] \in {"sent"} \cup Codes => p \in first' \/ worker'[At(p)] = p
  BY <1>2, <1>3, <1>4, OthersPlaced
<1>6. p0 \notin first' /\ post'[p0] \notin {"sent"} \cup Codes
  BY <1>2, <1>3 DEF Codes
<1>7. Waits(p0)' => Waits(p0) \/ k # "accept"
  <2>1. CASE queue' = queue
    BY <1>3, <2>1 DEF Waits
  <2>2. CASE queue' # queue
    BY <2>2 DEF Finishes
  <2> QED
    BY <2>1, <2>2
<1> HIDE DEF p0
<1>8. Placed'
  BY <1>5, <1>6 DEF Placed
<1>9. \A p \in Posts :
          /\ p \in first' => p \in first \/ (p = p0 /\ Starts(k, i))
          /\ Waits(p)' => Waits(p) \/ (p \in first /\ p[1] # "accept")
  BY <1>1, <1>3, <1>5, <1>6, <1>7
<1> QED
  BY <1>2, <1>3, <1>4, <1>8, <1>9 DEF Sound, WireTypes, p0

\* ... or for the worker that retries it ...
LEMMA SettlesSound ==
  ASSUME WireTypes, Placed, NEW k \in Kinds, NEW i \in Requests, Settles(k, i)
  PROVE  Sound(k, i)
<1> DEFINE p0 == <<k, i>>
<1>1. p0 \in Posts /\ p0 # NoRow /\ At(p0) = Sender(k, i)
  BY PostParts
<1>2. /\ post' \in [Posts -> PostState] /\ post'[p0] \in {"idle", "late"}
      /\ \A p \in Posts : p # p0 => post'[p] = post[p]
  BY OverValue DEF Settles
<1>3. first' = first /\ Waits(p0)
  BY <1>1 DEF Settles, Waits
<1>4. /\ queue' \in [Gateways -> SUBSET Posts]
      /\ \A p \in Posts : p # p0 => (p \in queue'[At(p)] <=> p \in queue[At(p)])
  BY QueueValue DEF Settles
<1>5. /\ worker' \in [Gateways -> Posts \cup {NoRow}] /\ worker'[At(p0)] = NoRow
      /\ \A p \in Posts : p # p0 => (worker'[At(p)] = p <=> worker[At(p)] = p)
  BY <1>1, WorkerValue DEF Settles
<1>6. \A p \in Posts : p # p0 =>
            /\ p \in first' => p \in first /\ ~Waits(p)'
            /\ Waits(p)' <=> Waits(p)
            /\ post'[p] \in {"sent"} \cup Codes => p \in first' \/ worker'[At(p)] = p
  BY <1>2, <1>3, <1>4, <1>5, OthersPlaced
<1>7. p0 \notin first' /\ post'[p0] \notin {"sent"} \cup Codes
  BY <1>1, <1>2, <1>3 DEF Codes, Placed
<1> HIDE DEF p0
<1>8. Placed'
  BY <1>6, <1>7 DEF Placed
<1>9. \A p \in Posts :
          /\ p \in first' => p \in first \/ (p = p0 /\ Starts(k, i))
          /\ Waits(p)' => Waits(p) \/ (p \in first /\ p[1] # "accept")
  BY <1>3, <1>6
<1> QED
  BY <1>2, <1>3, <1>4, <1>5, <1>8, <1>9 DEF Sound, WireTypes, p0

\* ... and the retry itself.
LEMMA AttemptsSound ==
  ASSUME WireTypes, Placed, NEW k \in Kinds, NEW i \in Requests, Attempts(k, i)
  PROVE  Sound(k, i)
<1> DEFINE p0 == <<k, i>>
<1>1. p0 \in Posts /\ At(p0) = Sender(k, i)
  BY PostParts
<1>2. /\ post' \in [Posts -> PostState]
      /\ \A p \in Posts : p # p0 => post'[p] = post[p]
  <2>1. "sent" \in PostState
    BY DEF PostState
  <2> QED
    BY <2>1, PostValue DEF Attempts, SendPost
<1>3. first' = first /\ queue' = queue /\ Waits(p0)
  BY <1>1 DEF Attempts, Waits
<1>4. /\ worker' \in [Gateways -> Posts \cup {NoRow}] /\ worker'[At(p0)] = p0
      /\ \A p \in Posts : p # p0 => (worker'[At(p)] = p <=> worker[At(p)] = p)
  BY <1>1, WorkerValue DEF Attempts
<1>5. \A p \in Posts : p # p0 =>
            /\ p \in first' => p \in first /\ ~Waits(p)'
            /\ Waits(p)' <=> Waits(p)
            /\ post'[p] \in {"sent"} \cup Codes => p \in first' \/ worker'[At(p)] = p
  BY <1>2, <1>3, <1>4, OthersPlaced
<1>6. p0 \notin first'
  BY <1>1, <1>3 DEF Placed
<1> HIDE DEF p0
<1>7. Placed'
  BY <1>4, <1>5, <1>6 DEF Placed
<1>8. \A p \in Posts :
          /\ p \in first' => p \in first \/ (p = p0 /\ Starts(k, i))
          /\ Waits(p)' => Waits(p) \/ (p \in first /\ p[1] # "accept")
  BY <1>3, <1>5
<1> QED
  BY <1>2, <1>3, <1>4, <1>7, <1>8 DEF Sound, WireTypes, p0

\* No POST is made, answered or given up: one may leave the queue.
LEMMA DropsSound ==
  ASSUME WireTypes, Placed, NEW k \in Kinds, NEW i \in Requests,
         Drops(k, i) \/ UNCHANGED <<first, queue, worker, post>>
  PROVE  Sound(k, i)
<1> DEFINE p0 == <<k, i>>
<1>1. p0 \in Posts /\ At(p0) = Sender(k, i) /\ At(p0) \in Gateways
  BY PostParts
<1>2. UNCHANGED <<first, worker, post>>
  BY DEF Drops
<1>3. /\ queue' \in [Gateways -> SUBSET Posts]
      /\ \A p \in Posts : p # p0 => (p \in queue'[At(p)] <=> p \in queue[At(p)])
  BY QueueValue DEF Drops
<1>4. p0 \in queue'[At(p0)] => p0 \in queue[At(p0)]
  <2> DEFINE g == At(p0)
  <2>1. g \in Gateways
    BY <1>1
  <2>2. queue' = queue \/ queue' = [queue EXCEPT ![g] = @ \ {p0}]
    BY <1>1 DEF Drops
  <2> HIDE DEF g, p0
  <2>3. p0 \in queue'[g] => p0 \in queue[g]
    BY <2>1, <2>2 DEF WireTypes
  <2> QED
    BY <2>3 DEF g
<1> HIDE DEF p0
<1>5. \A p \in Posts : p \in queue'[At(p)] => p \in queue[At(p)]
  BY <1>3, <1>4
<1>6. \A p \in Posts : Waits(p)' => Waits(p)
  BY <1>2, <1>5 DEF Waits
<1>7. Placed'
  BY <1>2, <1>6 DEF Placed
<1> QED
  BY <1>2, <1>3, <1>6, <1>7 DEF Sound, WireTypes

\* A restart of one gateway.
LEMMA InterruptSound ==
  ASSUME WireTypes, Placed, NEW g \in Gateways, Interrupt(g),
         NEW k \in Kinds, NEW i \in Requests
  PROVE  Sound(k, i)
<1>1. /\ first' = {p \in first : At(p) # g} /\ queue' = queue
      /\ worker' = [worker EXCEPT ![g] = NoRow]
  BY DEF Interrupt, At
<1>2. post' \in [Posts -> PostState]
  BY DEF Interrupt, WireTypes, PostState
<1>3. /\ worker' \in [Gateways -> Posts \cup {NoRow}]
      /\ worker'[g] = NoRow
      /\ \A h \in Gateways : h # g => worker'[h] = worker[h]
  BY <1>1 DEF WireTypes
<1>4. ASSUME NEW p \in Posts
      PROVE  /\ Waits(p)' => Waits(p)
             /\ p \in first' => p \in first
             /\ post'[p] \in {"sent"} \cup Codes => p \in first' \/ worker'[At(p)] = p
  <2>1. p # NoRow /\ At(p) \in Gateways
    BY PostsParts
  <2>2. CASE At(p) = g
    <3>1. post'[p] \in {"idle", "late"}
      BY <2>2 DEF Interrupt, At
    <3> QED
      BY <1>1, <1>3, <2>1, <2>2, <3>1 DEF Waits, Codes
  <2>3. CASE At(p) # g
    <3>1. post'[p] = post[p]
      BY <2>3 DEF Interrupt, At
    <3> QED
      BY <1>1, <1>3, <2>1, <2>3, <3>1 DEF Waits, Placed
  <2> QED
    BY <2>2, <2>3
<1>5. Placed'
  BY <1>4 DEF Placed
<1> QED
  BY <1>1, <1>2, <1>3, <1>4, <1>5 DEF Sound, WireTypes

-----------------------------------------------------------------------------
(* Every step moves one POST at most, or is a restart.                     *)

\* Answers that were given stay: those that POSTs of Begun were made for.
Lasting ==
    \A i \in Requests :
       /\ row[Issuer[i]][i] \notin {"none", "pending"} => row'[Issuer[i]][i] = row[Issuer[i]][i]
       /\ row[Target[i]][i] = "declined" => row'[Target[i]][i] = "declined"
       /\ told[i] # "nothing" => told'[i] # "nothing"

\* The answers a POST is made for are final, by Step.
LEMMA AnswersLast ==
  ASSUME Inv, [Next]_vars, \A i \in Requests : told'[i] = "nothing" => told[i] = "nothing"
  PROVE  Lasting
<1>1. Final \/ UNCHANGED vars
  BY Step
<1>2. CASE Final
  BY <1>2, Ends DEF Final, Lasting
<1>3. CASE UNCHANGED vars
  BY <1>3 DEF Lasting, vars
<1> QED
  BY <1>1, <1>2, <1>3

\* What is told is never nothing again.
LEMMA ToldStep ==
  ASSUME Inv, [Next]_vars, NEW j \in Requests, told'[j] = "nothing"
  PROVE  told[j] = "nothing"
<1>0. told \in [Requests -> Told]
  BY DEF Inv, Types
<1>1. \/ told' = told
      \/ \E i \in Requests, t \in Told \ {"nothing"} : told' = [told EXCEPT ![i] = t]
  <2> USE DEF Told
  <2>1. ASSUME NEW i \in Requests, Requester(i)
        PROVE  told' = told \/ \E t \in Told \ {"nothing"} : told' = [told EXCEPT ![i] = t]
    BY <2>1 DEF Requester, Ask, AskDelivered, AskQueued, Withdraw, WithdrawQueued,
                HandleAccept, HandleDecline
  <2>2. ASSUME NEW i \in Requests, Invitee(i)
        PROVE  told' = told
    BY <2>2 DEF Invitee, HandleInvite, HandleWithdraw, Accept, Accepted, AcceptGone, Decline
  <2>3. ASSUME NEW i \in Requests, Queue(i)
        PROVE  told' = told \/ \E t \in Told \ {"nothing"} : told' = [told EXCEPT ![i] = t]
    BY <2>3 DEF Queue, DropSettled, RequestDelivered, RequestRefused, SweepRequest,
                Undeliverable, Retry, RetryFailed
  <2>4. ASSUME NEW i \in Requests,
               \/ Expire(i) \/ RestartUnqueued(i)
               \/ \E k \in {"decline", "withdraw"} : Notice(k, i)
        PROVE  told' = told
    BY <2>4 DEF Expire, RestartUnqueued, Interrupt, Notice, NoticeTold, NoticeQueued,
                NoticeDelivered, SweepNotice
  <2>5. ASSUME NEW g \in Gateways, Restart(g)
        PROVE  told' = told
    BY <2>5 DEF Restart, Interrupt
  <2>6. CASE UNCHANGED vars
    BY <2>6 DEF vars
  <2> QED
    BY <2>1, <2>2, <2>3, <2>4, <2>5, <2>6 DEF Next
<1> QED
  BY <1>0, <1>1

\* Why Begun lasts: a new POST has its reason, a new withdrawal is the first.
LEMMA BegunKept ==
  ASSUME Inv, Begun, Lasting, NEW k \in Kinds, NEW i \in Requests, Sound(k, i),
         Starts(k, i) =>
            /\ k = "withdraw" => row'[Issuer[i]][i] = "withdrawn" /\ i \notin withdrawing'
            /\ k = "decline" => row'[Target[i]][i] = "declined",
         \A j \in Requests : j \in withdrawing' =>
            \/ j \in withdrawing
            \/ row'[Issuer[j]][j] = "withdrawn" /\ ~Out(<<"withdraw", j>>) /\ ~Starts(k, i)
  PROVE  Begun'
<1> SUFFICES ASSUME NEW j \in Requests
             PROVE  /\ Waits(<<"invite", j>>)' => told'[j] # "nothing"
                    /\ Out(<<"withdraw", j>>)' =>
                          row'[Issuer[j]][j] = "withdrawn" /\ j \notin withdrawing'
                    /\ j \in withdrawing' => row'[Issuer[j]][j] = "withdrawn"
                    /\ Out(<<"decline", j>>)' => row'[Target[j]][j] = "declined"
                    /\ ~Waits(<<"accept", j>>)'
  BY DEF Begun
<1>1. \A n \in Kinds : <<n, j>> \in Posts /\ <<n, j>>[1] = n /\ <<n, j>>[2] = j
  BY PostParts
<1>2. \A n \in Kinds :
        /\ <<n, j>> \in first' => <<n, j>> \in first \/ (n = k /\ j = i /\ Starts(k, i))
        /\ Waits(<<n, j>>)' => Waits(<<n, j>>) \/ (<<n, j>> \in first /\ n # "accept")
        /\ Out(<<n, j>>)' => Out(<<n, j>>) \/ (n = k /\ j = i /\ Starts(k, i))
  BY <1>1 DEF Sound, Out
<1>3. {"invite", "withdraw", "decline", "accept"} \subseteq Kinds
  BY DEF Kinds
<1>4. Waits(<<"invite", j>>)' => told'[j] # "nothing"
  BY <1>2, <1>3 DEF Begun, Lasting, Inv, SavedOnce
<1>5. ASSUME Out(<<"withdraw", j>>)'
      PROVE  row'[Issuer[j]][j] = "withdrawn" /\ j \notin withdrawing'
  <2>1. CASE Out(<<"withdraw", j>>)
    <3>1. row[Issuer[j]][j] = "withdrawn" /\ j \notin withdrawing
      BY <2>1 DEF Begun
    <3> QED
      BY <2>1, <3>1 DEF Lasting
  <2>2. CASE "withdraw" = k /\ j = i /\ Starts(k, i)
    BY <2>2
  <2> QED
    BY <1>2, <1>3, <1>5, <2>1, <2>2
<1>6. j \in withdrawing' => row'[Issuer[j]][j] = "withdrawn"
  BY DEF Begun, Lasting
<1>7. Out(<<"decline", j>>)' => row'[Target[j]][j] = "declined"
  BY <1>2, <1>3 DEF Begun, Lasting
<1>8. ~Waits(<<"accept", j>>)'
  BY <1>2, <1>3 DEF Begun
<1> QED
  BY <1>4, <1>5, <1>6, <1>7, <1>8

\* The rest of PostOK'.
LEMMA PostKept ==
  ASSUME PostOK, NEW k \in Kinds, NEW i \in Requests, Sound(k, i), Begun',
         withdrawing' \subseteq Requests, expired' \subseteq Requests,
         restarts' \in 0..MaxRestarts
  PROVE  PostOK'
  BY DEF PostOK, WireTypes, Sound

\* A step that starts nothing and withdraws nothing.
LEMMA PlainKept ==
  ASSUME Inv, PostOK, Lasting, NEW k \in Kinds, NEW i \in Requests, Sound(k, i),
         first' \subseteq first, withdrawing' \subseteq withdrawing,
         expired' \subseteq Requests, restarts' \in 0..MaxRestarts
  PROVE  PostOK'
<1>1. Starts(k, i) => <<k, i>> \in first
  BY DEF Starts
<1>2. Sound(k, i) /\ Begun /\ withdrawing' \subseteq Requests
  BY DEF PostOK, WireTypes
<1>3. ASSUME Starts(k, i)
      PROVE  /\ k = "withdraw" => row'[Issuer[i]][i] = "withdrawn" /\ i \notin withdrawing'
             /\ k = "decline" => row'[Target[i]][i] = "declined"
  <2>1. Out(<<k, i>>)
    BY <1>1, <1>3 DEF Out
  <2> QED
    BY <1>2, <2>1 DEF Begun, Lasting
<1>4. Begun'
  BY <1>2, <1>3, BegunKept
<1> QED
  BY <1>2, <1>4, PostKept

\* A gateway starts a POST, for a reason that excludes that it was made before.
LEMMA StartedKept ==
  ASSUME Inv, PostOK, Lasting, NEW k \in Kinds, NEW i \in Requests, Starts(k, i),
         \/ k = "invite" /\ told[i] = "nothing" /\ withdrawing' = withdrawing
         \/ k = "accept" /\ row[Target[i]][i] = "pending" /\ withdrawing' = withdrawing
         \/ /\ k = "decline" /\ row[Target[i]][i] = "pending"
            /\ row'[Target[i]][i] = "declined" /\ withdrawing' = withdrawing
         \/ k = "withdraw" /\ i \in withdrawing /\ withdrawing' = withdrawing \ {i},
         UNCHANGED <<expired, restarts>>
  PROVE  PostOK'
<1>0. WireTypes /\ Placed /\ Begun
  BY DEF PostOK
<1>1. ~Out(<<k, i>>)
  BY <1>0 DEF Begun, Out, Inv, SavedOnce, AcceptsOnce
<1>2. Sound(k, i)
  BY <1>0, <1>1, StartsSound
<1>3. /\ k = "withdraw" => row'[Issuer[i]][i] = "withdrawn" /\ i \notin withdrawing'
      /\ k = "decline" => row'[Target[i]][i] = "declined"
  BY <1>0 DEF Begun, Lasting
<1>4. \A j \in Requests : j \in withdrawing' => j \in withdrawing
  OBVIOUS
<1>5. Begun'
  BY <1>0, <1>2, <1>3, <1>4, BegunKept
<1>6. withdrawing' \subseteq Requests
  BY <1>0 DEF WireTypes
<1>7. expired' \subseteq Requests /\ restarts' \in 0..MaxRestarts
  BY <1>0 DEF WireTypes
<1> QED
  BY <1>2, <1>5, <1>6, <1>7, PostKept

\* A step of one POST that starts nothing.
LEMMA MovedKept ==
  ASSUME Inv, PostOK, Lasting, NEW k \in Kinds, NEW i \in Requests,
         \/ Handled(k, i) \/ Finishes(k, i) \/ Settles(k, i) \/ Attempts(k, i)
         \/ Drops(k, i) \/ UNCHANGED <<first, queue, worker, post>>,
         withdrawing' \subseteq withdrawing, expired' \subseteq Requests,
         restarts' = restarts
  PROVE  PostOK'
<1>0. WireTypes /\ Placed /\ Begun
  BY DEF PostOK
<1>1. Sound(k, i)
  BY <1>0, HandledSound, FinishesSound, SettlesSound, AttemptsSound, DropsSound
<1>2. first' \subseteq first
  BY DEF Handled, Finishes, Settles, Attempts, Drops
<1>3. restarts' \in 0..MaxRestarts
  BY <1>0 DEF WireTypes
<1> QED
  BY <1>1, <1>2, <1>3, PlainKept

\* PostOK is inductive: the steps of the requester, ...
LEMMA RequesterPosts ==
  ASSUME Inv, PostOK, Lasting, NEW i \in Requests, Requester(i)
  PROVE  PostOK'
<1>0. WireTypes /\ Begun /\ {"invite", "withdraw", "decline", "accept"} \subseteq Kinds
  BY DEF PostOK, Kinds
<1>1. expired' = expired /\ restarts' = restarts /\ expired \subseteq Requests
  BY <1>0 DEF Requester, Ask, AskDelivered, AskQueued, Withdraw, WithdrawQueued,
              HandleAccept, HandleDecline, WireTypes
<1>2. CASE Ask(i)
  <2>1. /\ Starts("invite", i) /\ told[i] = "nothing" /\ withdrawing' = withdrawing
    BY <1>2 DEF Ask, Starts
  <2> QED
    BY <1>0, <1>1, <2>1, StartedKept
<1>3. CASE AskDelivered(i) \/ AskQueued(i)
  <2>1. Over("invite", i)
    BY <1>3 DEF AskDelivered, AskQueued, Over, GotAnswer, Codes
  <2>2. Sender("invite", i) = Issuer[i]
    BY DEF Sender
  <2>3. Finishes("invite", i) /\ withdrawing' = withdrawing
    BY <1>3, <2>1, <2>2 DEF AskDelivered, AskQueued, Finishes
  <2> QED
    BY <1>0, <1>1, <2>3, MovedKept
<1>4. CASE Withdraw(i)
  <2>1. /\ UNCHANGED <<first, queue, worker, post>> /\ withdrawing' = withdrawing \cup {i}
        /\ row[Issuer[i]][i] = "pending"
    BY <1>4 DEF Withdraw
  <2>2. row'[Issuer[i]][i] = "withdrawn"
    <3>1. Issuer[i] \in Gateways /\ "withdrawn" \in Status
      BY Ends DEF Status
    <3> QED
      BY <1>4, <3>1, SetRowFacts DEF Withdraw, Inv, Types
  <2>3. ~Out(<<"withdraw", i>>)
    BY <1>0, <2>1 DEF Begun
  <2>4. Sound("withdraw", i)
    BY <1>0, <2>1, DropsSound DEF PostOK
  <2>5. ~Starts("withdraw", i)
    BY <2>1, <2>3 DEF Starts, Out
  <2>6. \A j \in Requests : j \in withdrawing' =>
            \/ j \in withdrawing
            \/ row'[Issuer[j]][j] = "withdrawn" /\ ~Out(<<"withdraw", j>>) /\ ~Starts("withdraw", i)
    BY <2>1, <2>2, <2>3, <2>5
  <2>7. Begun'
    BY <1>0, <2>4, <2>5, <2>6, BegunKept
  <2>8. withdrawing' \subseteq Requests /\ restarts' \in 0..MaxRestarts
    BY <1>0, <1>1, <2>1 DEF WireTypes
  <2> QED
    BY <1>0, <1>1, <2>4, <2>7, <2>8, PostKept
<1>5. CASE WithdrawQueued(i)
  <2>1. Sender("invite", i) = Issuer[i] /\ Sender("withdraw", i) = Issuer[i]
    BY DEF Sender
  <2>2. i \in withdrawing /\ withdrawing' = withdrawing \ {i} /\ row' = row
    BY <1>5 DEF WithdrawQueued
  <2>3. CASE <<"invite", i>> \in queue[Issuer[i]]
    <3>1. Drops("invite", i)
      BY <1>5, <2>1, <2>3 DEF WithdrawQueued, Drops
    <3> QED
      BY <1>0, <1>1, <2>2, <3>1, MovedKept
  <2>4. CASE <<"invite", i>> \notin queue[Issuer[i]]
    <3>1. Starts("withdraw", i)
      BY <1>5, <2>4 DEF WithdrawQueued, Starts
    <3> QED
      BY <1>0, <1>1, <2>2, <3>1, StartedKept
  <2> QED
    BY <2>3, <2>4
<1>6. CASE HandleAccept(i)
  <2>1. AcceptCode(i) \in Codes
    BY DEF AcceptCode, Codes
  <2>2. Handled("accept", i) /\ withdrawing' = withdrawing
    BY <1>6, <2>1 DEF HandleAccept, Handled
  <2> QED
    BY <1>0, <1>1, <2>2, MovedKept
<1>7. CASE HandleDecline(i)
  <2>1. Handled("decline", i) /\ withdrawing' = withdrawing
    BY <1>7 DEF HandleDecline, Handled, Codes
  <2> QED
    BY <1>0, <1>1, <2>1, MovedKept
<1> QED
  BY <1>2, <1>3, <1>4, <1>5, <1>6, <1>7 DEF Requester

\* ... of the target, ...
LEMMA InviteePosts ==
  ASSUME Inv, PostOK, Lasting, NEW i \in Requests, Invitee(i)
  PROVE  PostOK'
<1>0. WireTypes /\ {"invite", "withdraw", "decline", "accept"} \subseteq Kinds
  BY DEF PostOK, Kinds
<1>1. /\ expired' = expired /\ restarts' = restarts /\ expired \subseteq Requests
      /\ withdrawing' = withdrawing
  BY <1>0 DEF Invitee, HandleInvite, HandleWithdraw, Accept, Accepted, AcceptGone,
              Decline, WireTypes
<1>2. CASE HandleInvite(i)
  <2>1. InviteCode(i) \in Codes
    BY DEF InviteCode, Codes
  <2>2. Handled("invite", i)
    BY <1>2, <2>1 DEF HandleInvite, Handled
  <2> QED
    BY <1>0, <1>1, <2>2, MovedKept
<1>3. CASE HandleWithdraw(i)
  <2>1. Handled("withdraw", i)
    BY <1>3 DEF HandleWithdraw, Handled, Codes
  <2> QED
    BY <1>0, <1>1, <2>1, MovedKept
<1>4. CASE Accept(i)
  <2>1. Starts("accept", i) /\ row[Target[i]][i] = "pending"
    BY <1>4 DEF Accept, Starts, MayAnswer
  <2> QED
    BY <1>0, <1>1, <2>1, StartedKept
<1>5. CASE Accepted(i) \/ AcceptGone(i)
  <2>1. Over("accept", i)
    BY <1>5 DEF Accepted, AcceptGone, Over, GotAnswer, Codes
  <2>2. Finishes("accept", i)
    BY <1>5, <2>1 DEF Accepted, AcceptGone, Finishes
  <2> QED
    BY <1>0, <1>1, <2>2, MovedKept
<1>6. CASE Decline(i)
  <2>1. Starts("decline", i) /\ row[Target[i]][i] = "pending"
    BY <1>6 DEF Decline, Starts, MayAnswer
  <2>2. row'[Target[i]][i] = "declined"
    <3>1. Target[i] \in Gateways /\ "declined" \in Status
      BY Ends DEF Status
    <3> QED
      BY <1>6, <3>1, SetRowFacts DEF Decline, Inv, Types
  <2> QED
    BY <1>0, <1>1, <2>1, <2>2, StartedKept
<1> QED
  BY <1>2, <1>3, <1>4, <1>5, <1>6 DEF Invitee

\* ... of the queue ...
LEMMA QueuePosts ==
  ASSUME Inv, PostOK, Lasting, NEW i \in Requests, Queue(i)
  PROVE  PostOK'
<1>0. WireTypes /\ "invite" \in Kinds
  BY DEF PostOK, Kinds
<1>1. /\ expired' = expired /\ restarts' = restarts /\ expired \subseteq Requests
      /\ withdrawing' = withdrawing
  BY <1>0 DEF Queue, DropSettled, RequestDelivered, RequestRefused, SweepRequest,
              Retry, RetryFailed, WireTypes
<1>2. Sender("invite", i) = Issuer[i]
  BY DEF Sender
<1>3. CASE DropSettled(i) \/ SweepRequest(i)
  <2>1. Drops("invite", i)
    BY <1>2, <1>3 DEF DropSettled, SweepRequest, Drops
  <2> QED
    BY <1>0, <1>1, <2>1, MovedKept
<1>4. CASE RequestDelivered(i) \/ RequestRefused(i)
  <2>1. Over("invite", i)
    BY <1>4 DEF RequestDelivered, RequestRefused, Over, GotAnswer, Codes
  <2>2. Settles("invite", i)
    BY <1>4, <2>1 DEF RequestDelivered, RequestRefused, TakeOff, Settles
  <2> QED
    BY <1>0, <1>1, <2>2, MovedKept
<1>5. ASSUME NEW k \in Kinds \ {"accept"}, Retry(k, i) \/ RetryFailed(k, i)
      PROVE  PostOK'
  <2>1. Attempts(k, i) \/ Settles(k, i)
    BY <1>5 DEF Retry, RetryFailed, Attempts, Settles, Over
  <2> QED
    BY <1>0, <1>1, <2>1, MovedKept
<1> QED
  BY <1>3, <1>4, <1>5 DEF Queue

\* ... and of the notices, ...
LEMMA NoticePosts ==
  ASSUME Inv, PostOK, Lasting, NEW i \in Requests, NEW k \in {"decline", "withdraw"},
         Notice(k, i)
  PROVE  PostOK'
<1>0. WireTypes /\ k \in Kinds /\ k # "accept"
  BY DEF PostOK, Kinds
<1>1. /\ expired' = expired /\ restarts' = restarts /\ expired \subseteq Requests
      /\ withdrawing' = withdrawing
  BY <1>0 DEF Notice, NoticeTold, NoticeQueued, NoticeDelivered, SweepNotice, WireTypes
<1>2. CASE NoticeTold(k, i) \/ NoticeQueued(k, i)
  <2>1. Over(k, i)
    BY <1>2 DEF NoticeTold, NoticeQueued, Over, GotAnswer, Codes
  <2>2. Finishes(k, i)
    BY <1>0, <1>2, <2>1 DEF NoticeTold, NoticeQueued, Finishes
  <2> QED
    BY <1>0, <1>1, <2>2, MovedKept
<1>3. CASE NoticeDelivered(k, i)
  <2>1. Over(k, i)
    BY <1>3 DEF NoticeDelivered, Over, GotAnswer, Codes
  <2>2. Settles(k, i)
    BY <1>3, <2>1 DEF NoticeDelivered, TakeOff, Settles
  <2> QED
    BY <1>0, <1>1, <2>2, MovedKept
<1>4. CASE SweepNotice(k, i)
  <2>1. Drops(k, i)
    BY <1>4 DEF SweepNotice, Drops
  <2> QED
    BY <1>0, <1>1, <2>1, MovedKept
<1> QED
  BY <1>2, <1>3, <1>4 DEF Notice

\* ... a restart, ...
LEMMA RestartPosts ==
  ASSUME Inv, PostOK, Lasting, NEW g \in Gateways, Interrupt(g)
  PROVE  PostOK'
<1>0. WireTypes /\ Placed
  BY DEF PostOK
<1>1. /\ first' \subseteq first /\ withdrawing' \subseteq withdrawing
      /\ expired' \subseteq Requests /\ restarts' \in 0..MaxRestarts
  BY <1>0, FriendRequestAssumption DEF Interrupt, WireTypes
<1>2. CASE Requests = {}
  <2>1. withdrawing' \subseteq Requests /\ Posts = {}
    BY <1>0, <1>1, <1>2 DEF WireTypes, Posts
  <2>2. /\ queue' \in [Gateways -> SUBSET Posts] /\ first' \subseteq Posts
        /\ worker' \in [Gateways -> Posts \cup {NoRow}]
        /\ post' \in [Posts -> PostState]
    BY <1>0, <1>1, <2>1 DEF Interrupt, WireTypes
  <2>3. Placed' /\ Begun'
    BY <1>2, <2>1 DEF Placed, Begun
  <2> QED
    BY <1>1, <2>1, <2>2, <2>3 DEF PostOK, WireTypes
<1>3. ASSUME NEW i \in Requests
      PROVE  PostOK'
  <2>1. "invite" \in Kinds
    BY DEF Kinds
  <2>2. Sound("invite", i)
    BY <1>0, <2>1, InterruptSound
  <2> QED
    BY <1>1, <2>1, <2>2, PlainKept
<1> QED
  BY <1>2, <1>3

\* ... and so every step.
LEMMA PostStep ==
  ASSUME Inv, PostOK, [Next]_vars
  PROVE  PostOK'
<1>0. Lasting
  BY AnswersLast, ToldStep
<1>1. ASSUME NEW i \in Requests, Requester(i) \/ Invitee(i) \/ Queue(i)
      PROVE  PostOK'
  BY <1>0, <1>1, RequesterPosts, InviteePosts, QueuePosts
<1>2. ASSUME NEW i \in Requests, Expire(i)
      PROVE  PostOK'
  <2>1. /\ UNCHANGED <<first, queue, worker, post>> /\ withdrawing' = withdrawing
        /\ expired' \subseteq Requests /\ restarts' = restarts /\ "invite" \in Kinds
    BY <1>2 DEF Expire, PostOK, WireTypes, Kinds
  <2> QED
    BY <1>0, <2>1, MovedKept
<1>3. ASSUME NEW i \in Requests, RestartUnqueued(i)
      PROVE  PostOK'
  <2>1. Issuer[i] \in Gateways
    BY Ends
  <2> QED
    BY <1>0, <1>3, <2>1, RestartPosts DEF RestartUnqueued
<1>4. ASSUME NEW i \in Requests, NEW k \in {"decline", "withdraw"}, Notice(k, i)
      PROVE  PostOK'
  BY <1>0, <1>4, NoticePosts
<1>5. ASSUME NEW g \in Gateways, Restart(g)
      PROVE  PostOK'
  BY <1>0, <1>5, RestartPosts DEF Restart
<1>6. CASE UNCHANGED vars
  BY <1>6 DEF vars, PostOK, WireTypes, Placed, Begun, Out, Waits
<1> QED
  BY <1>1, <1>2, <1>3, <1>4, <1>5, <1>6 DEF Next

\* Nothing is on its way at first.
LEMMA PostInit == Init => PostOK
<1> SUFFICES ASSUME Init  PROVE PostOK
  OBVIOUS
<1>1. WireTypes
  BY FriendRequestAssumption DEF Init, WireTypes, PostState
<1>2. \A p \in Posts : ~Out(p) /\ ~Waits(p) /\ p \notin first /\ post[p] = "idle"
  BY PostsParts DEF Init, Out, Waits
<1>3. \A i \in Requests, k \in Kinds : <<k, i>> \in Posts
  BY PostParts
<1>4. {"invite", "withdraw", "decline", "accept"} \subseteq Kinds
  BY DEF Kinds
<1>5. Placed
  BY <1>2 DEF Placed, Codes
<1>6. Begun
  BY <1>2, <1>3, <1>4 DEF Begun, Init
<1> QED
  BY <1>1, <1>5, <1>6 DEF PostOK

\* Where the POSTs are, in every reachable state.
LEMMA FriendPosts == Spec => []PostOK
<1>1. Inv /\ PostOK /\ [Next]_vars => PostOK'
  BY PostStep
<1> QED
  BY <1>1, PostInit, FriendInvariant, PTL DEF Spec

\* The variables keep their types, and a POST has one sender at a time: the
\* handler that made it, or the worker that retries it under the queue's lock.
THEOREM FriendTypes == Spec => []FriendTypeOK
<1>1. Inv /\ PostOK => FriendTypeOK
  BY DEF Inv, Types, PostOK, WireTypes, Placed, Waits, At, FriendTypeOK
<1> QED
  BY <1>1, FriendInvariant, FriendPosts, PTL

-----------------------------------------------------------------------------
(* What a step may do to one row, contact, id or POST.                     *)

\* Two requests between the same two owners.
SamePair(i, j) == {Issuer[i], Target[i]} = {Issuer[j], Target[j]}

\* Why the row of j at g changes.
Saved(g, j) ==
    /\ g = Issuer[j] /\ row'[g][j] = "pending"
    /\ <<"invite", j>> \in first /\ <<"invite", j>> \notin first'

Carded(g, j) ==
    /\ g = Target[j] /\ row'[g][j] = "pending"
    /\ HandleInvite(j) /\ InviteCode(j) = "ok"

Settled(g, j) ==
    /\ row[g][j] = "pending" /\ row'[g][j] = "accepted"
    /\ \E i \in Requests : SamePair(i, j) /\ contacts'[g][i] # 0

TargetAnswers(g, j) ==
    /\ g = Target[j] /\ row[g][j] = "pending"
    /\ row'[g][j] \in {"accepted", "declined", "withdrawn"}

Voided(g, j) == g = Target[j] /\ row'[g][j] = "withdrawn" /\ AcceptGone(j)

IssuerAnswers(g, j) ==
    /\ g = Issuer[j] /\ row[g][j] = "pending"
    /\ \/ row'[g][j] = "withdrawn"
       \/ row'[g][j] = "declined" /\ post[<<"decline", j>>] \in {"sent", "late"}
       \/ row'[g][j] = "failed" /\ post[<<"invite", j>>] = "refused"
       \/ row'[g][j] = "expired" /\ j \in expired

RowMoved(g, j) ==
    \/ row'[g][j] = row[g][j]
    \/ Saved(g, j) \/ Carded(g, j) \/ Settled(g, j)
    \/ TargetAnswers(g, j) \/ Voided(g, j) \/ IssuerAnswers(g, j)

\* One row is set, for one of the reasons.
LEMMA OneRowMoved ==
  ASSUME Inv, NEW h \in Gateways, NEW i \in Requests, NEW s \in Status, SetRow(h, i, s),
         row'[h][i] = s => RowMoved(h, i)
  PROVE  \A g \in Gateways, j \in Requests : RowMoved(g, j)
<1>1. \A g \in Gateways, j \in Requests :
         row'[g][j] = IF g = h /\ j = i THEN s ELSE row[g][j]
  BY SetRowFacts DEF Inv, Types
<1> QED
  BY <1>1 DEF RowMoved

\* save_relationship and the settling of the others, at either gateway.
LEMMA SettlingMoved ==
  ASSUME Inv, NEW h \in Gateways, NEW i \in Requests, AddContact(h, i),
         NEW r \in [Requests -> Status], row' = [row EXCEPT ![h] = r],
         \A j \in Requests : j # i => r[j] = SettledRows(h, i)[j],
         row'[h][i] = r[i] => RowMoved(h, i)
  PROVE  \A g \in Gateways, j \in Requests : RowMoved(g, j)
<1>1. \A g \in Gateways, j \in Requests :
         row'[g][j] = IF g = h THEN r[j] ELSE row[g][j]
  BY DEF Inv, Types
<1>2. contacts'[h][i] # 0
  BY AddContactFacts DEF Inv, Types
<1>3. ASSUME NEW j \in Requests, j # i
      PROVE  RowMoved(h, j)
  <2>1. row'[h][j] = IF j \in Others(i) /\ row[h][j] = "pending" THEN "accepted" ELSE row[h][j]
    BY <1>1, <1>3 DEF SettledRows
  <2>2. CASE j \in Others(i) /\ row[h][j] = "pending"
    <3>1. SamePair(i, j)
      BY <2>2 DEF Others, SamePair
    <3> QED
      BY <1>2, <2>1, <2>2, <3>1 DEF RowMoved, Settled
  <2>3. CASE ~(j \in Others(i) /\ row[h][j] = "pending")
    BY <2>1, <2>3 DEF RowMoved
  <2> QED
    BY <2>2, <2>3
<1> QED
  BY <1>1, <1>3 DEF RowMoved

\* The steps of the requester, ...
LEMMA RequesterRows ==
  ASSUME Inv, NEW i \in Requests, Requester(i)
  PROVE  \A g \in Gateways, j \in Requests : RowMoved(g, j)
<1>0. Issuer[i] \in Gateways /\ {"pending", "withdrawn", "declined", "accepted"} \subseteq Status
  BY Ends DEF Status
<1>1. CASE Ask(i) \/ WithdrawQueued(i)
  <2>1. row' = row
    BY <1>1 DEF Ask, WithdrawQueued
  <2> QED
    BY <2>1 DEF RowMoved
<1>2. CASE AskDelivered(i) \/ AskQueued(i)
  <2>1. /\ SetRow(Issuer[i], i, "pending") /\ <<"invite", i>> \in first
        /\ <<"invite", i>> \notin first'
    BY <1>2 DEF AskDelivered, AskQueued
  <2>2. row'[Issuer[i]][i] = "pending" => RowMoved(Issuer[i], i)
    BY <2>1 DEF RowMoved, Saved
  <2> QED
    BY <1>0, <2>1, <2>2, OneRowMoved
<1>3. CASE Withdraw(i)
  <2>1. SetRow(Issuer[i], i, "withdrawn") /\ row[Issuer[i]][i] = "pending"
    BY <1>3 DEF Withdraw
  <2>2. row'[Issuer[i]][i] = "withdrawn" => RowMoved(Issuer[i], i)
    BY <2>1 DEF RowMoved, IssuerAnswers
  <2> QED
    BY <1>0, <2>1, <2>2, OneRowMoved
<1>4. CASE HandleAccept(i)
  <2>1. CASE AcceptCode(i) # "ok"
    BY <1>4, <2>1 DEF HandleAccept, RowMoved
  <2>2. CASE AcceptCode(i) = "ok"
    <3> DEFINE h == Issuer[i]
               q == SettledRows(h, i)
               r == [q EXCEPT ![i] = "accepted"]
    <3>1. AddContact(h, i) /\ row' = [row EXCEPT ![h] = r]
      BY <1>4, <2>2 DEF HandleAccept
    <3>2. q \in [Requests -> Status]
      BY <1>0, SettledFacts DEF Inv, Types
    <3>3. row[h][i] = "pending" /\ h \in Gateways
      BY <1>0, <2>2, CodeFacts
    <3> HIDE DEF q
    <3>4. /\ r \in [Requests -> Status] /\ r[i] = "accepted"
          /\ \A j \in Requests : j # i => r[j] = q[j]
      BY <1>0, <3>2
    <3>5. contacts'[h][i] # 0
      BY <3>1, <3>3, AddContactFacts DEF Inv, Types
    <3> HIDE DEF r
    <3>6. row'[h][i] = r[i] => RowMoved(h, i)
      BY <3>3, <3>4, <3>5 DEF RowMoved, Settled, SamePair
    <3> HIDE DEF h
    <3> QED
      BY <3>1, <3>3, <3>4, <3>6, SettlingMoved DEF q
  <2> QED
    BY <2>1, <2>2
<1>5. CASE HandleDecline(i)
  <2>1. CASE row[Issuer[i]][i] # "pending"
    BY <1>5, <2>1 DEF HandleDecline, RowMoved
  <2>2. CASE row[Issuer[i]][i] = "pending"
    <3>1. SetRow(Issuer[i], i, "declined") /\ post[<<"decline", i>>] \in {"sent", "late"}
      BY <1>5, <2>2 DEF HandleDecline
    <3>2. row'[Issuer[i]][i] = "declined" => RowMoved(Issuer[i], i)
      BY <2>2, <3>1 DEF RowMoved, IssuerAnswers
    <3> QED
      BY <1>0, <3>1, <3>2, OneRowMoved
  <2> QED
    BY <2>1, <2>2
<1> QED
  BY <1>1, <1>2, <1>3, <1>4, <1>5 DEF Requester

\* ... of the target ...
LEMMA InviteeRows ==
  ASSUME Inv, NEW i \in Requests, Invitee(i)
  PROVE  \A g \in Gateways, j \in Requests : RowMoved(g, j)
<1> DEFINE h == Target[i]
<1>0. h \in Gateways /\ {"pending", "withdrawn", "declined", "accepted"} \subseteq Status
  BY Ends DEF Status
<1>1. CASE HandleInvite(i)
  <2>1. CASE InviteCode(i) # "ok"
    BY <1>1, <2>1 DEF HandleInvite, RowMoved
  <2>2. CASE InviteCode(i) = "ok"
    <3>1. SetRow(h, i, "pending")
      BY <1>1, <2>2 DEF HandleInvite
    <3>2. row'[h][i] = "pending" => RowMoved(h, i)
      BY <1>1, <2>2 DEF RowMoved, Carded
    <3> QED
      BY <1>0, <3>1, <3>2, OneRowMoved
  <2> QED
    BY <2>1, <2>2
<1>2. CASE HandleWithdraw(i)
  <2>1. CASE row[h][i] # "pending"
    BY <1>2, <2>1 DEF HandleWithdraw, RowMoved
  <2>2. CASE row[h][i] = "pending"
    <3>1. SetRow(h, i, "withdrawn")
      BY <1>2, <2>2 DEF HandleWithdraw
    <3>2. row'[h][i] = "withdrawn" => RowMoved(h, i)
      BY <2>2 DEF RowMoved, TargetAnswers
    <3> QED
      BY <1>0, <3>1, <3>2, OneRowMoved
  <2> QED
    BY <2>1, <2>2
<1>3. CASE Accept(i)
  <2>1. SetRow(h, i, "accepted") /\ row[h][i] = "pending"
    BY <1>3 DEF Accept, MayAnswer
  <2>2. row'[h][i] = "accepted" => RowMoved(h, i)
    BY <2>1 DEF RowMoved, TargetAnswers
  <2> QED
    BY <1>0, <2>1, <2>2, OneRowMoved
<1>4. CASE Accepted(i)
  <2> DEFINE r == SettledRows(h, i)
  <2>1. AddContact(h, i) /\ row' = [row EXCEPT ![h] = r]
    BY <1>4 DEF Accepted
  <2>2. r \in [Requests -> Status] /\ r[i] = row[h][i]
    BY <1>0, SettledFacts DEF Inv, Types
  <2>3. \A j \in Requests : j # i => r[j] = SettledRows(h, i)[j]
    OBVIOUS
  <2> HIDE DEF r
  <2>4. row'[h][i] = r[i] => RowMoved(h, i)
    BY <2>2 DEF RowMoved
  <2> HIDE DEF h
  <2> QED
    BY <1>0, <2>1, <2>2, <2>3, <2>4, SettlingMoved
<1>5. CASE AcceptGone(i)
  <2>1. SetRow(h, i, "withdrawn")
    BY <1>5 DEF AcceptGone
  <2>2. row'[h][i] = "withdrawn" => RowMoved(h, i)
    BY <1>5 DEF RowMoved, Voided
  <2> QED
    BY <1>0, <2>1, <2>2, OneRowMoved
<1>6. CASE Decline(i)
  <2>1. SetRow(h, i, "declined") /\ row[h][i] = "pending"
    BY <1>6 DEF Decline, MayAnswer
  <2>2. row'[h][i] = "declined" => RowMoved(h, i)
    BY <2>1 DEF RowMoved, TargetAnswers
  <2> QED
    BY <1>0, <2>1, <2>2, OneRowMoved
<1> QED
  BY <1>1, <1>2, <1>3, <1>4, <1>5, <1>6 DEF Invitee

\* ... and of the queue.
LEMMA QueueRows ==
  ASSUME Inv, NEW i \in Requests, Queue(i)
  PROVE  \A g \in Gateways, j \in Requests : RowMoved(g, j)
<1>0. Issuer[i] \in Gateways /\ {"failed", "expired"} \subseteq Status
  BY Ends DEF Status
<1>1. CASE DropSettled(i) \/ RequestDelivered(i) \/ \E k \in Kinds \ {"accept"} : Retry(k, i) \/ RetryFailed(k, i)
  <2>1. row' = row
    BY <1>1 DEF DropSettled, RequestDelivered, Retry, RetryFailed
  <2> QED
    BY <2>1 DEF RowMoved
<1>2. ASSUME NEW s \in {"failed", "expired"}, Undeliverable(i, s),
             \/ s = "failed" /\ post[<<"invite", i>>] = "refused"
             \/ s = "expired" /\ i \in expired
      PROVE  \A g \in Gateways, j \in Requests : RowMoved(g, j)
  <2>1. CASE row[Issuer[i]][i] # "pending"
    BY <1>2, <2>1 DEF Undeliverable, RowMoved
  <2>2. CASE row[Issuer[i]][i] = "pending"
    <3>1. SetRow(Issuer[i], i, s)
      BY <1>2, <2>2 DEF Undeliverable
    <3>2. row'[Issuer[i]][i] = s => RowMoved(Issuer[i], i)
      BY <1>2, <2>2 DEF RowMoved, IssuerAnswers
    <3> QED
      BY <1>0, <3>1, <3>2, OneRowMoved
  <2> QED
    BY <2>1, <2>2
<1>3. CASE RequestRefused(i)
  BY <1>2, <1>3 DEF RequestRefused, GotAnswer
<1>4. CASE SweepRequest(i)
  BY <1>2, <1>4 DEF SweepRequest
<1> QED
  BY <1>1, <1>3, <1>4 DEF Queue

\* A row changes for one of these reasons only.
LEMMA RowMoves ==
  ASSUME Inv, [Next]_vars, NEW g \in Gateways, NEW j \in Requests
  PROVE  RowMoved(g, j)
<1>1. ASSUME NEW i \in Requests, Requester(i) \/ Invitee(i) \/ Queue(i)
      PROVE  RowMoved(g, j)
  BY <1>1, RequesterRows, InviteeRows, QueueRows
<1>2. ASSUME NEW i \in Requests, RestartUnqueued(i)
      PROVE  RowMoved(g, j)
  <2>1. SetRow(Issuer[i], i, "pending") /\ <<"invite", i>> \in first
    BY <1>2 DEF RestartUnqueued
  <2>2. <<"invite", i>> \notin first'
    BY <1>2 DEF RestartUnqueued, Interrupt, Sender
  <2>3. row'[Issuer[i]][i] = "pending" => RowMoved(Issuer[i], i)
    BY <2>1, <2>2 DEF RowMoved, Saved
  <2>4. Issuer[i] \in Gateways /\ "pending" \in Status
    BY Ends DEF Status
  <2> QED
    BY <2>1, <2>3, <2>4, OneRowMoved
<1>3. ASSUME \/ \E i \in Requests : Expire(i) \/ \E k \in {"decline", "withdraw"} : Notice(k, i)
             \/ \E h \in Gateways : Restart(h)
             \/ UNCHANGED vars
      PROVE  RowMoved(g, j)
  <2>1. row' = row
    BY <1>3 DEF Expire, Notice, NoticeTold, NoticeQueued, NoticeDelivered, SweepNotice,
                Restart, vars
  <2> QED
    BY <2>1 DEF RowMoved
<1> QED
  BY <1>1, <1>2, <1>3 DEF Next

\* A contact is made by the requester's gateway that takes the acceptance, and
\* by the target's whose acceptance has come to an end.
ContactMoved(g, j) ==
    \/ contacts'[g][j] = contacts[g][j]
    \/ /\ contacts'[g][j] # 0
       /\ \/ g = Issuer[j] /\ HandleAccept(j) /\ AcceptCode(j) = "ok"
          \/ g = Target[j] /\ Accepted(j)

\* A contact is made for one of these reasons only, and never undone.
LEMMA ContactMoves ==
  ASSUME Inv, [Next]_vars, NEW g \in Gateways, NEW j \in Requests
  PROVE  /\ ContactMoved(g, j)
         /\ HandleAccept(j) /\ AcceptCode(j) = "ok" => contacts'[Issuer[j]][j] # 0
         /\ Accepted(j) => contacts'[Target[j]][j] # 0
<1>1. ASSUME NEW h \in Gateways, NEW i \in Requests, AddContact(h, i),
             \/ h = Issuer[i] /\ HandleAccept(i) /\ AcceptCode(i) = "ok"
             \/ h = Target[i] /\ Accepted(i)
      PROVE  ContactMoved(g, j) /\ contacts'[h][i] # 0
  <2>1. /\ contacts'[g][j] = IF g = h /\ j = i THEN contacts[h][i] + 1 ELSE contacts[g][j]
        /\ contacts'[h][i] = contacts[h][i] + 1
        /\ contacts[h][i] \in Nat
    BY <1>1, AddContactFacts DEF Inv, Types
  <2> QED
    BY <1>1, <2>1 DEF ContactMoved
<1>2. ASSUME NEW i \in Requests, HandleAccept(i), AcceptCode(i) = "ok"
      PROVE  ContactMoved(g, j) /\ contacts'[Issuer[i]][i] # 0
  <2>1. AddContact(Issuer[i], i) /\ Issuer[i] \in Gateways
    BY <1>2, Ends DEF HandleAccept
  <2> QED
    BY <1>1, <1>2, <2>1
<1>3. ASSUME NEW i \in Requests, Accepted(i)
      PROVE  ContactMoved(g, j) /\ contacts'[Target[i]][i] # 0
  <2>1. AddContact(Target[i], i) /\ Target[i] \in Gateways
    BY <1>3, Ends DEF Accepted
  <2> QED
    BY <1>1, <1>3, <2>1
<1>4. CASE contacts' = contacts
  BY <1>2, <1>3, <1>4 DEF ContactMoved
<1>5. \/ contacts' = contacts
      \/ \E i \in Requests : (HandleAccept(i) /\ AcceptCode(i) = "ok") \/ Accepted(i)
  <2>1. ASSUME NEW i \in Requests, Requester(i)
        PROVE  contacts' = contacts \/ (HandleAccept(i) /\ AcceptCode(i) = "ok")
    BY <2>1 DEF Requester, Ask, AskDelivered, AskQueued, Withdraw, WithdrawQueued,
                HandleAccept, HandleDecline
  <2>2. ASSUME NEW i \in Requests, Invitee(i)
        PROVE  contacts' = contacts \/ Accepted(i)
    BY <2>2 DEF Invitee, HandleInvite, HandleWithdraw, Accept, AcceptGone, Decline
  <2>3. ASSUME \/ \E i \in Requests : \/ Queue(i) \/ Expire(i) \/ RestartUnqueued(i)
                                      \/ \E k \in {"decline", "withdraw"} : Notice(k, i)
               \/ \E h \in Gateways : Restart(h)
               \/ UNCHANGED vars
        PROVE  contacts' = contacts
    BY <2>3 DEF Queue, DropSettled, RequestDelivered, RequestRefused, SweepRequest,
                Retry, RetryFailed, Expire, RestartUnqueued, Interrupt, Notice, NoticeTold,
                NoticeQueued, NoticeDelivered, SweepNotice, Restart, vars
  <2> QED
    BY <2>1, <2>2, <2>3 DEF Next
<1> QED
  BY <1>2, <1>3, <1>4, <1>5

\* Recording an id records no other.
LEMMA NonceBack ==
  ASSUME nonces \in [Gateways -> SUBSET Requests],
         NEW g \in Gateways, NEW i \in Requests,
         nonces' = [nonces EXCEPT ![g] = @ \cup {i}],
         NEW h \in Gateways, NEW j \in nonces'[h], j # i
  PROVE  j \in nonces[h]
  OBVIOUS

\* An id is recorded by the gateway that takes the request or its acceptance.
LEMMA NonceMoves ==
  ASSUME Inv, [Next]_vars, NEW j \in Requests, j \in nonces'[Issuer[j]]
  PROVE  \/ j \in nonces[Issuer[j]]
         \/ HandleAccept(j) /\ AcceptCode(j) = "ok"
<1>0. \A h \in Gateways : nonces[h] \subseteq Requests
  BY DEF Inv, Types
<1>1. ASSUME NEW i \in Requests, HandleAccept(i)
      PROVE  j \in nonces[Issuer[j]] \/ (HandleAccept(j) /\ AcceptCode(j) = "ok")
  <2>1. CASE AcceptCode(i) = "ok"
    <3>1. nonces' = [nonces EXCEPT ![Issuer[i]] = @ \cup {i}]
      BY <1>1, <2>1 DEF HandleAccept
    <3>2. Issuer[i] \in Gateways /\ Issuer[j] \in Gateways
      BY Ends
    <3>3. j \in nonces[Issuer[j]] \/ j = i
      BY <3>1, <3>2, NonceBack DEF Inv, Types
    <3> QED
      BY <1>1, <2>1, <3>3
  <2>2. CASE AcceptCode(i) # "ok"
    BY <1>1, <2>2 DEF HandleAccept
  <2> QED
    BY <2>1, <2>2
<1>2. ASSUME NEW i \in Requests, HandleInvite(i)
      PROVE  j \in nonces[Issuer[j]]
  <2>1. CASE i \in expired
    BY <1>2, <2>1 DEF HandleInvite
  <2>2. CASE i \notin expired
    <3>1. nonces' = [nonces EXCEPT ![Target[i]] = @ \cup {i}]
      BY <1>2, <2>2 DEF HandleInvite
    <3>2. /\ Target[i] \in Gateways /\ Issuer[j] \in Gateways
          /\ j = i => Issuer[j] # Target[i]
      BY Ends
    <3>3. j \in nonces[Issuer[j]] \/ j = i
      BY <3>1, <3>2, NonceBack DEF Inv, Types
    <3> QED
      BY <3>1, <3>2, <3>3 DEF Inv, Types
  <2> QED
    BY <2>1, <2>2
<1>3. nonces' = nonces \/ \E i \in Requests : HandleAccept(i) \/ HandleInvite(i)
  <2>1. ASSUME NEW i \in Requests, Requester(i)
        PROVE  nonces' = nonces \/ HandleAccept(i)
    BY <2>1 DEF Requester, Ask, AskDelivered, AskQueued, Withdraw, WithdrawQueued,
                HandleDecline
  <2>2. ASSUME NEW i \in Requests, Invitee(i)
        PROVE  nonces' = nonces \/ HandleInvite(i)
    BY <2>2 DEF Invitee, HandleWithdraw, Accept, Accepted, AcceptGone, Decline
  <2>3. ASSUME \/ \E i \in Requests : \/ Queue(i) \/ Expire(i) \/ RestartUnqueued(i)
                                      \/ \E k \in {"decline", "withdraw"} : Notice(k, i)
               \/ \E h \in Gateways : Restart(h)
               \/ UNCHANGED vars
        PROVE  nonces' = nonces
    BY <2>3 DEF Queue, DropSettled, RequestDelivered, RequestRefused, SweepRequest,
                Retry, RetryFailed, Expire, RestartUnqueued, Interrupt, Notice, NoticeTold,
                NoticeQueued, NoticeDelivered, SweepNotice, Restart, vars
  <2> QED
    BY <2>1, <2>2, <2>3 DEF Next
<1> QED
  BY <1>1, <1>2, <1>3

\* The requester is told that a request failed when its pending row fails.
LEMMA FailedMoves ==
  ASSUME Inv, [Next]_vars, NEW j \in Requests, told'[j] = "failed"
  PROVE  \/ told[j] = "failed"
         \/ /\ row[Issuer[j]][j] = "pending" /\ row'[Issuer[j]][j] \notin {"none", "pending"}
            /\ contacts' = contacts
<1>0. told \in [Requests -> Told]
  BY DEF Inv, Types
<1>1. ASSUME NEW i \in Requests, NEW s \in {"failed", "expired"}, Undeliverable(i, s),
             contacts' = contacts
      PROVE  \/ told[j] = "failed"
             \/ /\ row[Issuer[j]][j] = "pending" /\ row'[Issuer[j]][j] \notin {"none", "pending"}
                /\ contacts' = contacts
  <2>1. CASE row[Issuer[i]][i] # "pending"
    BY <1>1, <2>1 DEF Undeliverable
  <2>2. CASE row[Issuer[i]][i] = "pending"
    <3>1. SetRow(Issuer[i], i, s) /\ told' = [told EXCEPT ![i] = "failed"]
      BY <1>1, <2>2 DEF Undeliverable
    <3>2. s \in Status /\ Issuer[i] \in Gateways
      BY Ends DEF Status
    <3>3. row'[Issuer[i]][i] = s
      BY <3>1, <3>2, SetRowFacts DEF Inv, Types
    <3> QED
      BY <1>0, <1>1, <2>2, <3>1, <3>3
  <2> QED
    BY <2>1, <2>2
<1>2. \/ told' = told
      \/ \E i \in Requests, t \in Told \ {"failed"} : told' = [told EXCEPT ![i] = t]
      \/ \E i \in Requests : RequestRefused(i) \/ SweepRequest(i)
  <2> USE DEF Told
  <2>1. ASSUME NEW i \in Requests, Requester(i)
        PROVE  told' = told \/ \E t \in Told \ {"failed"} : told' = [told EXCEPT ![i] = t]
    BY <2>1 DEF Requester, Ask, AskDelivered, AskQueued, Withdraw, WithdrawQueued,
                HandleAccept, HandleDecline
  <2>2. ASSUME NEW i \in Requests, Invitee(i)
        PROVE  told' = told
    BY <2>2 DEF Invitee, HandleInvite, HandleWithdraw, Accept, Accepted, AcceptGone, Decline
  <2>3. ASSUME NEW i \in Requests, Queue(i)
        PROVE  \/ told' = told \/ RequestRefused(i) \/ SweepRequest(i)
               \/ \E t \in Told \ {"failed"} : told' = [told EXCEPT ![i] = t]
    BY <2>3 DEF Queue, DropSettled, RequestDelivered, Retry, RetryFailed
  <2>4. ASSUME \/ \E i \in Requests : \/ Expire(i) \/ RestartUnqueued(i)
                                      \/ \E k \in {"decline", "withdraw"} : Notice(k, i)
               \/ \E h \in Gateways : Restart(h)
               \/ UNCHANGED vars
        PROVE  told' = told
    BY <2>4 DEF Expire, RestartUnqueued, Interrupt, Notice, NoticeTold,
                NoticeQueued, NoticeDelivered, SweepNotice, Restart, vars
  <2> QED
    BY <2>1, <2>2, <2>3, <2>4 DEF Next
<1>3. CASE told' = told
  BY <1>3
<1>4. CASE \E i \in Requests, t \in Told \ {"failed"} : told' = [told EXCEPT ![i] = t]
  BY <1>0, <1>4
<1>5. CASE \E i \in Requests : RequestRefused(i) \/ SweepRequest(i)
  BY <1>1, <1>5 DEF RequestRefused, SweepRequest
<1> QED
  BY <1>2, <1>3, <1>4, <1>5

\* What the requester is told first is that the request is asked for.
LEMMA AskMoves ==
  ASSUME Inv, PostOK, [Next]_vars, NEW j \in Requests
  PROVE  /\ told[j] = "nothing" /\ told'[j] # "nothing" => <<"invite", j>> \in first'
         /\ <<"invite", j>> \in first' => <<"invite", j>> \in first \/ told[j] = "nothing"
<1>0. told \in [Requests -> Told]
  BY DEF Inv, Types
<1>1. ASSUME NEW i \in Requests, Requester(i)
      PROVE  /\ told[j] = "nothing" /\ told'[j] # "nothing" => <<"invite", j>> \in first'
             /\ <<"invite", j>> \in first' => <<"invite", j>> \in first \/ told[j] = "nothing"
  <2>1. CASE Ask(i)
    <3>1. /\ told[i] = "nothing" /\ first' = first \cup {<<"invite", i>>}
          /\ told' = [told EXCEPT ![i] = "asking"]
      BY <2>1 DEF Ask
    <3> QED
      BY <1>0, <3>1
  <2>2. CASE AskDelivered(i) \/ AskQueued(i)
    <3>1. /\ <<"invite", i>> \in first /\ first' = first \ {<<"invite", i>>}
          /\ \E t \in Told : told' = [told EXCEPT ![i] = t]
      BY <2>2 DEF AskDelivered, AskQueued, Told
    <3>2. told[i] # "nothing"
      BY <3>1 DEF Inv, SavedOnce
    <3> QED
      BY <1>0, <3>1, <3>2
  <2>3. CASE Withdraw(i) \/ WithdrawQueued(i) \/ HandleAccept(i) \/ HandleDecline(i)
    <3>1. /\ told' = told
          /\ first' = first \/ first' = first \cup {<<"withdraw", i>>}
      BY <2>3 DEF Withdraw, WithdrawQueued, HandleAccept, HandleDecline
    <3> QED
      BY <3>1
  <2> QED
    BY <1>1, <2>1, <2>2, <2>3 DEF Requester
<1>2. ASSUME NEW i \in Requests, Invitee(i)
      PROVE  told' = told /\ (<<"invite", j>> \in first' => <<"invite", j>> \in first)
  BY <1>2 DEF Invitee, HandleInvite, HandleWithdraw, Accept, Accepted, AcceptGone, Decline
<1>3. ASSUME NEW i \in Requests, Queue(i)
      PROVE  /\ told[j] = "nothing" /\ told'[j] # "nothing" => <<"invite", j>> \in first'
             /\ first' = first
  <2>1. first' = first
    BY <1>3 DEF Queue, DropSettled, RequestDelivered, RequestRefused, SweepRequest,
                Retry, RetryFailed
  <2>2. CASE told' = told
    BY <2>1, <2>2
  <2>3. CASE RequestDelivered(i)
    <3>1. worker[Issuer[i]] = <<"invite", i>> /\ told' = [told EXCEPT ![i] = "delivered"]
      BY <2>3 DEF RequestDelivered, TakeOff, Sender
    <3>2. told[i] # "nothing"
      <4>1. "invite" \in Kinds
        BY DEF Kinds
      <4>2. Waits(<<"invite", i>>)
        BY <3>1, <4>1, PostParts DEF Waits, Sender
      <4> QED
        BY <4>2 DEF PostOK, Begun
    <3> QED
      BY <1>0, <2>1, <3>1, <3>2
  <2>4. ASSUME NEW s \in {"failed", "expired"}, Undeliverable(i, s)
        PROVE  told' = told \/ (told[i] # "nothing" /\ told' = [told EXCEPT ![i] = "failed"])
    BY <2>4 DEF Undeliverable, Inv, SavedOnce
  <2> QED
    BY <1>0, <1>3, <2>1, <2>2, <2>3, <2>4
    DEF Queue, DropSettled, RequestRefused, SweepRequest, Retry, RetryFailed
<1>4. ASSUME \/ \E i \in Requests : \/ Expire(i) \/ RestartUnqueued(i)
                                    \/ \E k \in {"decline", "withdraw"} : Notice(k, i)
             \/ \E h \in Gateways : Restart(h)
             \/ UNCHANGED vars
      PROVE  told' = told /\ first' \subseteq first
  BY <1>4 DEF Expire, RestartUnqueued, Interrupt, Notice, NoticeTold,
                NoticeQueued, NoticeDelivered, SweepNotice, Restart, vars
<1> QED
  BY <1>1, <1>2, <1>3, <1>4 DEF Next

\* The requester is through with the first POST when the request is saved.
LEMMA SaveMoves ==
  ASSUME Inv, [Next]_vars, NEW j \in Requests,
         <<"invite", j>> \in first, <<"invite", j>> \notin first'
  PROVE  row'[Issuer[j]][j] = "pending" \/ restarts < MaxRestarts
<1>1. CASE AskDelivered(j) \/ AskQueued(j)
  <2>1. SetRow(Issuer[j], j, "pending")
    BY <1>1 DEF AskDelivered, AskQueued
  <2>2. Issuer[j] \in Gateways /\ "pending" \in Status
    BY Ends DEF Status
  <2> QED
    BY <2>1, <2>2, SetRowFacts DEF Inv, Types
<1>2. ASSUME NEW i \in Requests, Requester(i)
      PROVE  AskDelivered(j) \/ AskQueued(j)
  <2>1. \/ first \subseteq first'
        \/ (AskDelivered(i) \/ AskQueued(i)) /\ first' = first \ {<<"invite", i>>}
    BY <1>2 DEF Requester, Ask, AskDelivered, AskQueued, Withdraw, WithdrawQueued,
                HandleAccept, HandleDecline
  <2>2. CASE (AskDelivered(i) \/ AskQueued(i)) /\ first' = first \ {<<"invite", i>>}
    <3>1. i = j
      BY <2>2
    <3> QED
      BY <2>2, <3>1
  <2> QED
    BY <2>1, <2>2
<1>3. ASSUME NEW i \in Requests, Invitee(i)
      PROVE  FALSE
  BY <1>3 DEF Invitee, HandleInvite, HandleWithdraw, Accept, Accepted, AcceptGone, Decline
<1>4. ASSUME NEW i \in Requests, Queue(i)
      PROVE  FALSE
  BY <1>4 DEF Queue, DropSettled, RequestDelivered, RequestRefused, SweepRequest,
              Retry, RetryFailed
<1>5. ASSUME NEW i \in Requests, NEW k \in {"decline", "withdraw"}, Notice(k, i)
      PROVE  FALSE
  BY <1>5 DEF Notice, NoticeTold, NoticeQueued, NoticeDelivered, SweepNotice
<1>6. CASE UNCHANGED vars \/ \E i \in Requests : Expire(i)
  BY <1>6 DEF vars, Expire
<1>7. CASE (\E i \in Requests : RestartUnqueued(i)) \/ (\E g \in Gateways : Restart(g))
  BY <1>7 DEF RestartUnqueued, Restart, Interrupt
<1> QED
  BY <1>1, <1>2, <1>3, <1>4, <1>5, <1>6, <1>7 DEF Next

\* The target is through with an acceptance when it comes to an end.
LEMMA EndMoves ==
  ASSUME Inv, [Next]_vars, NEW j \in Requests,
         <<"accept", j>> \in first, <<"accept", j>> \notin first'
  PROVE  Accepted(j) \/ AcceptGone(j) \/ restarts < MaxRestarts
<1>1. ASSUME NEW i \in Requests, Requester(i)
      PROVE  FALSE
  BY <1>1 DEF Requester, Ask, AskDelivered, AskQueued, Withdraw, WithdrawQueued,
              HandleAccept, HandleDecline
<1>2. ASSUME NEW i \in Requests, Invitee(i)
      PROVE  Accepted(j) \/ AcceptGone(j)
  <2>1. \/ first \subseteq first'
        \/ (Accepted(i) \/ AcceptGone(i)) /\ first' = first \ {<<"accept", i>>}
    BY <1>2 DEF Invitee, HandleInvite, HandleWithdraw, Accept, Accepted, AcceptGone, Decline
  <2>2. CASE (Accepted(i) \/ AcceptGone(i)) /\ first' = first \ {<<"accept", i>>}
    <3>1. i = j
      BY <2>2
    <3> QED
      BY <2>2, <3>1
  <2> QED
    BY <2>1, <2>2
<1>4. ASSUME NEW i \in Requests, Queue(i)
      PROVE  FALSE
  BY <1>4 DEF Queue, DropSettled, RequestDelivered, RequestRefused, SweepRequest,
              Retry, RetryFailed
<1>5. ASSUME NEW i \in Requests, NEW k \in {"decline", "withdraw"}, Notice(k, i)
      PROVE  FALSE
  BY <1>5 DEF Notice, NoticeTold, NoticeQueued, NoticeDelivered, SweepNotice
<1>6. CASE UNCHANGED vars \/ \E i \in Requests : Expire(i)
  BY <1>6 DEF vars, Expire
<1>7. CASE (\E i \in Requests : RestartUnqueued(i)) \/ (\E g \in Gateways : Restart(g))
  BY <1>7 DEF RestartUnqueued, Restart, Interrupt
<1> QED
  BY <1>1, <1>2, <1>4, <1>5, <1>6, <1>7 DEF Next

\* Requests expire only where the bounds allow it.
LEMMA TimeMoves ==
  ASSUME [Next]_vars
  PROVE  expired' = expired \/ "invite" \in Expiring
<1>1. ASSUME NEW i \in Requests, Requester(i)
      PROVE  expired' = expired
  BY <1>1 DEF Requester, Ask, AskDelivered, AskQueued, Withdraw, WithdrawQueued,
              HandleAccept, HandleDecline
<1>2. ASSUME NEW i \in Requests, Invitee(i)
      PROVE  expired' = expired
  BY <1>2 DEF Invitee, HandleInvite, HandleWithdraw, Accept, Accepted, AcceptGone, Decline
<1>3. ASSUME NEW i \in Requests, Queue(i)
      PROVE  expired' = expired
  BY <1>3 DEF Queue, DropSettled, RequestDelivered, RequestRefused, SweepRequest,
              Retry, RetryFailed
<1>4. ASSUME NEW i \in Requests, NEW k \in {"decline", "withdraw"}, Notice(k, i)
      PROVE  expired' = expired
  BY <1>4 DEF Notice, NoticeTold, NoticeQueued, NoticeDelivered, SweepNotice
<1>5. CASE \/ \E i \in Requests : RestartUnqueued(i)
           \/ \E g \in Gateways : Restart(g)
           \/ UNCHANGED vars
  BY <1>5 DEF RestartUnqueued, Restart, Interrupt, vars
<1>6. CASE \E i \in Requests : Expire(i)
  BY <1>6 DEF Expire
<1> QED
  BY <1>1, <1>2, <1>3, <1>4, <1>5, <1>6 DEF Next

-----------------------------------------------------------------------------
(* What a step may do to one POST.                                        *)

\* Why the POST k, j becomes what it is after a step.
PostMade(k, j) ==
    \/ k = "invite" /\ Ask(j)
    \/ k = "accept" /\ Accept(j)
    \/ k = "decline" /\ Decline(j)
    \/ k = "withdraw"
    \/ k # "accept" /\ <<k, j>> \in queue[Sender(k, j)]

PostMoved(k, j) ==
    \/ post'[<<k, j>>] = post[<<k, j>>]
    \/ /\ post'[<<k, j>>] = "idle"
       /\ k = "accept" => post[<<k, j>>] = "late" \/ <<k, j>> \notin first'
    \/ post'[<<k, j>>] = "sent" /\ PostMade(k, j)
    \/ /\ post[<<k, j>>] = "sent"
       /\ \/ post'[<<k, j>>] = "late" /\ (k \in Lossy \/ restarts < MaxRestarts)
          \/ k = "invite" /\ post'[<<k, j>>] = InviteCode(j)
          \/ k = "accept" /\ HandleAccept(j) /\ post'[<<k, j>>] = AcceptCode(j)
          \/ k \in {"decline", "withdraw"} /\ post'[<<k, j>>] = "ok"

\* One POST moves, for one of the reasons.
LEMMA OnePostMoved ==
  ASSUME WireTypes, NEW h \in Kinds, NEW i \in Requests, NEW v \in PostState,
         post' = [post EXCEPT ![<<h, i>>] = v], post'[<<h, i>>] = v => PostMoved(h, i)
  PROVE  \A k \in Kinds, j \in Requests : PostMoved(k, j)
<1>1. /\ post'[<<h, i>>] = v
      /\ \A p \in Posts : p # <<h, i>> => post'[p] = post[p]
  BY PostValue
<1> SUFFICES ASSUME NEW k \in Kinds, NEW j \in Requests
             PROVE  PostMoved(k, j)
  OBVIOUS
<1>2. CASE k = h /\ j = i
  BY <1>1, <1>2
<1>3. CASE ~(k = h /\ j = i)
  BY <1>1, <1>3, PostParts DEF PostMoved
<1> QED
  BY <1>2, <1>3

\* It is answered, read or given up.
LEMMA AnswerMoved ==
  ASSUME WireTypes, NEW h \in Kinds, NEW i \in Requests, NEW code \in Codes,
         Answer(h, i, code), post[<<h, i>>] \in {"sent", "late"},
         \/ h = "invite" /\ code = InviteCode(i)
         \/ h = "accept" /\ HandleAccept(i) /\ code = AcceptCode(i)
         \/ h \in {"decline", "withdraw"} /\ code = "ok"
  PROVE  \A k \in Kinds, j \in Requests : PostMoved(k, j)
<1> DEFINE v == IF post[<<h, i>>] = "sent" THEN code ELSE "idle"
<1>1. v \in PostState /\ post' = [post EXCEPT ![<<h, i>>] = v]
  BY DEF Answer, PostState
<1>2. post'[<<h, i>>] = v => PostMoved(h, i)
  BY DEF PostMoved
<1> HIDE DEF v
<1> QED
  BY <1>1, <1>2, OnePostMoved

\* It is read or given up.
LEMMA OverMoved ==
  ASSUME WireTypes, NEW h \in Kinds, NEW i \in Requests, Over(h, i),
         h = "accept" => <<h, i>> \notin first'
  PROVE  \A k \in Kinds, j \in Requests : PostMoved(k, j)
<1>1. CASE GotAnswer(h, i, Codes)
  <2>1. "idle" \in PostState /\ post' = [post EXCEPT ![<<h, i>>] = "idle"]
    BY <1>1 DEF GotAnswer, PostState
  <2>2. post'[<<h, i>>] = "idle" => PostMoved(h, i)
    BY DEF PostMoved
  <2> QED
    BY <2>1, <2>2, OnePostMoved
<1>2. CASE NoAnswer(h, i)
  <2> DEFINE v == IF post[<<h, i>>] = "sent" THEN "late" ELSE "idle"
  <2>1. v \in PostState /\ post' = [post EXCEPT ![<<h, i>>] = v] /\ h \in Lossy
    BY <1>2 DEF NoAnswer, PostState
  <2>2. post'[<<h, i>>] = v => PostMoved(h, i)
    BY <2>1 DEF PostMoved
  <2> HIDE DEF v
  <2> QED
    BY <2>1, <2>2, OnePostMoved
<1> QED
  BY <1>1, <1>2 DEF Over

\* It is made.
LEMMA SentMoved ==
  ASSUME WireTypes, NEW h \in Kinds, NEW i \in Requests, SendPost(h, i), PostMade(h, i)
  PROVE  \A k \in Kinds, j \in Requests : PostMoved(k, j)
<1>1. "sent" \in PostState /\ post' = [post EXCEPT ![<<h, i>>] = "sent"]
  BY DEF SendPost, PostState
<1>2. post'[<<h, i>>] = "sent" => PostMoved(h, i)
  BY DEF PostMoved
<1> QED
  BY <1>1, <1>2, OnePostMoved

\* It is left alone.
LEMMA StillMoved ==
  ASSUME post' = post
  PROVE  \A k \in Kinds, j \in Requests : PostMoved(k, j)
  BY DEF PostMoved

\* A POST changes for one of these reasons only.
LEMMA PostMoves ==
  ASSUME WireTypes, [Next]_vars
  PROVE  \A k \in Kinds, j \in Requests : PostMoved(k, j)
<1>0. {"invite", "accept", "decline", "withdraw"} \subseteq Kinds
  BY DEF Kinds
<1>1. ASSUME NEW i \in Requests, Requester(i)
      PROVE  \A k \in Kinds, j \in Requests : PostMoved(k, j)
  <2>1. CASE Ask(i)
    BY <1>0, <2>1, SentMoved DEF Ask, PostMade
  <2>2. CASE AskDelivered(i) \/ AskQueued(i)
    <3>1. Over("invite", i)
      BY <2>2 DEF AskDelivered, AskQueued, Over, GotAnswer, Codes
    <3> QED
      BY <1>0, <3>1, OverMoved
  <2>3. CASE Withdraw(i)
    BY <2>3, StillMoved DEF Withdraw
  <2>4. CASE WithdrawQueued(i)
    <3>1. post' = post \/ SendPost("withdraw", i)
      BY <2>4 DEF WithdrawQueued
    <3>2. PostMade("withdraw", i)
      BY DEF PostMade
    <3> QED
      BY <1>0, <3>1, <3>2, StillMoved, SentMoved
  <2>5. CASE HandleAccept(i)
    <3>1. AcceptCode(i) \in Codes
      BY DEF AcceptCode, Codes
    <3>2. Answer("accept", i, AcceptCode(i)) /\ post[<<"accept", i>>] \in {"sent", "late"}
      BY <2>5 DEF HandleAccept
    <3> QED
      BY <1>0, <2>5, <3>1, <3>2, AnswerMoved
  <2>6. CASE HandleDecline(i)
    <3>1. /\ Answer("decline", i, "ok") /\ "ok" \in Codes
          /\ post[<<"decline", i>>] \in {"sent", "late"}
      BY <2>6 DEF HandleDecline, Codes
    <3> QED
      BY <1>0, <3>1, AnswerMoved
  <2> QED
    BY <1>1, <2>1, <2>2, <2>3, <2>4, <2>5, <2>6 DEF Requester
<1>2. ASSUME NEW i \in Requests, Invitee(i)
      PROVE  \A k \in Kinds, j \in Requests : PostMoved(k, j)
  <2>1. CASE HandleInvite(i)
    <3>1. InviteCode(i) \in Codes
      BY DEF InviteCode, Codes
    <3>2. Answer("invite", i, InviteCode(i)) /\ post[<<"invite", i>>] \in {"sent", "late"}
      BY <2>1 DEF HandleInvite
    <3> QED
      BY <1>0, <3>1, <3>2, AnswerMoved
  <2>2. CASE HandleWithdraw(i)
    <3>1. /\ Answer("withdraw", i, "ok") /\ "ok" \in Codes
          /\ post[<<"withdraw", i>>] \in {"sent", "late"}
      BY <2>2 DEF HandleWithdraw, Codes
    <3> QED
      BY <1>0, <3>1, AnswerMoved
  <2>3. CASE Accept(i) \/ Decline(i)
    <3>1. \E k \in {"accept", "decline"} : SendPost(k, i) /\ PostMade(k, i)
      BY <2>3 DEF Accept, Decline, PostMade
    <3> QED
      BY <1>0, <3>1, SentMoved
  <2>4. CASE Accepted(i) \/ AcceptGone(i)
    <3>1. Over("accept", i) /\ <<"accept", i>> \notin first'
      BY <2>4 DEF Accepted, AcceptGone, Over, GotAnswer, Codes
    <3> QED
      BY <1>0, <3>1, OverMoved
  <2> QED
    BY <1>2, <2>1, <2>2, <2>3, <2>4 DEF Invitee
<1>3. ASSUME NEW i \in Requests, Queue(i)
      PROVE  \A k \in Kinds, j \in Requests : PostMoved(k, j)
  <2>1. CASE DropSettled(i) \/ SweepRequest(i)
    BY <2>1, StillMoved DEF DropSettled, SweepRequest
  <2>2. CASE RequestDelivered(i) \/ RequestRefused(i)
    <3>1. Over("invite", i)
      BY <2>2 DEF RequestDelivered, RequestRefused, Over, GotAnswer, Codes
    <3> QED
      BY <1>0, <3>1, OverMoved
  <2>3. ASSUME NEW k \in Kinds \ {"accept"}, Retry(k, i)
        PROVE  \A n \in Kinds, j \in Requests : PostMoved(n, j)
    <3>1. SendPost(k, i) /\ PostMade(k, i)
      BY <2>3 DEF Retry, PostMade
    <3> QED
      BY <3>1, SentMoved
  <2>4. ASSUME NEW k \in Kinds \ {"accept"}, RetryFailed(k, i)
        PROVE  \A n \in Kinds, j \in Requests : PostMoved(n, j)
    BY <2>4, OverMoved DEF RetryFailed, Over
  <2> QED
    BY <1>3, <2>1, <2>2, <2>3, <2>4 DEF Queue
<1>4. ASSUME NEW i \in Requests, NEW h \in {"decline", "withdraw"}, Notice(h, i)
      PROVE  \A k \in Kinds, j \in Requests : PostMoved(k, j)
  <2>1. post' = post \/ Over(h, i)
    BY <1>4 DEF Notice, NoticeTold, NoticeQueued, NoticeDelivered, SweepNotice, Over,
                GotAnswer, Codes
  <2> QED
    BY <1>0, <2>1, StillMoved, OverMoved
<1>5. ASSUME NEW g \in Gateways, Interrupt(g)
      PROVE  \A k \in Kinds, j \in Requests : PostMoved(k, j)
  <2>1. ASSUME NEW p \in Posts
        PROVE  /\ \/ post'[p] = post[p]
                  \/ post'[p] = "idle" /\ p \notin first'
                  \/ post[p] = "sent" /\ post'[p] = "late"
               /\ restarts < MaxRestarts
    BY <1>5 DEF Interrupt
  <2> QED
    BY <2>1, PostParts DEF PostMoved
<1>6. ASSUME NEW i \in Requests, RestartUnqueued(i)
      PROVE  \A k \in Kinds, j \in Requests : PostMoved(k, j)
  BY <1>5, <1>6, Ends DEF RestartUnqueued
<1>7. CASE UNCHANGED vars \/ \E i \in Requests : Expire(i)
  BY <1>7, StillMoved DEF vars, Expire
<1> QED
  BY <1>1, <1>2, <1>3, <1>4, <1>5, <1>6, <1>7 DEF Next, Restart

-----------------------------------------------------------------------------
(* A request reported as failed.                                           *)

\* It is answered at the requester, and its answer is not that it is a contact.
FailedOK ==
    \A i \in Requests :
       told[i] = "failed" => /\ row[Issuer[i]][i] \notin {"none", "pending"}
                             /\ contacts[Issuer[i]][i] = 0

\* FailedOK is inductive: the answer is final, and pending rows have no contact.
LEMMA FailedStep ==
  ASSUME Inv, FailedOK, [Next]_vars
  PROVE  FailedOK'
<1> SUFFICES ASSUME NEW i \in Requests, told'[i] = "failed"
             PROVE  /\ row'[Issuer[i]][i] \notin {"none", "pending"}
                    /\ contacts'[Issuer[i]][i] = 0
  BY DEF FailedOK
<1>0. Issuer[i] \in Gateways /\ Issuer[i] # Target[i]
  BY Ends
<1>1. CASE told[i] = "failed"
  <2>1. row[Issuer[i]][i] \notin {"none", "pending"} /\ contacts[Issuer[i]][i] = 0
    BY <1>1 DEF FailedOK
  <2>2. row'[Issuer[i]][i] = row[Issuer[i]][i]
    BY <2>1, AnswersLast, ToldStep DEF Lasting
  <2>3. contacts'[Issuer[i]][i] = contacts[Issuer[i]][i]
    BY <1>0, <2>1, ContactMoves, CodeFacts DEF ContactMoved
  <2> QED
    BY <2>1, <2>2, <2>3
<1>2. CASE told[i] # "failed"
  <2>1. /\ row[Issuer[i]][i] = "pending" /\ row'[Issuer[i]][i] \notin {"none", "pending"}
        /\ contacts' = contacts
    BY <1>2, FailedMoves
  <2>2. contacts[Issuer[i]][i] = 0
    BY <1>0, <2>1 DEF Inv, ContactIsAnswered
  <2> QED
    BY <2>1, <2>2
<1> QED
  BY <1>1, <1>2

\* A request of which the requester was told that it was not delivered makes no
\* contact at the requester, also if the target got it and accepts.
THEOREM FriendFailedAddsNobody == Spec => []FailedAddsNobody
<1>1. Init => FailedOK
  BY DEF Init, FailedOK
<1>2. Inv /\ FailedOK /\ [Next]_vars => FailedOK'
  BY FailedStep
<1>3. FailedOK => FailedAddsNobody
  BY DEF FailedOK, FailedAddsNobody
<1> QED
  BY <1>1, <1>2, <1>3, FriendInvariant, PTL DEF Spec

-----------------------------------------------------------------------------
(* A withdrawn request, when acceptances are answered and none comes before *)
(* the answer of the request's own POST.                                   *)

AnswersComeBack == "accept" \notin Lossy /\ ~EarlyAnswers

\* Request i can no longer be withdrawn: it was answered at the requester, or
\* never saved there and never will be.
Barred(i) ==
    \/ row[Issuer[i]][i] \notin {"none", "pending", "withdrawn"}
    \/ /\ row[Issuer[i]][i] = "none" /\ told[i] # "nothing"
       /\ <<"invite", i>> \notin first

\* Its acceptance comes after the requester is through with its first POST.
AcceptedLater ==
    \A i \in Requests :
       /\ post[<<"accept", i>>] # "idle" =>
             told[i] # "nothing" /\ <<"invite", i>> \notin first
       /\ row[Target[i]][i] # "none" => told[i] # "nothing"
       /\ post[<<"invite", i>>] # "idle" => told[i] # "nothing"

\* The requester's gateway records the id of a request that it accepted.
AcceptedIsSeen ==
    \A i \in Requests :
       i \in nonces[Issuer[i]] => row[Issuer[i]][i] \notin {"none", "pending"}

\* Who has a contact of it, or an answer that adds one, is never withdrawn from.
ContactsBar ==
    \A i \in Requests :
       /\ contacts[Issuer[i]][i] # 0 \/ contacts[Target[i]][i] # 0 => Barred(i)
       /\ post[<<"accept", i>>] \in {"ok", "duplicate", "refused"} => Barred(i)

WithdrawnOK == AcceptedLater /\ AcceptedIsSeen /\ ContactsBar

\* What the requester's gateway does with an acceptance.
LEMMA HandleAcceptRows ==
  ASSUME Inv, NEW i \in Requests, HandleAccept(i)
  PROVE  IF AcceptCode(i) = "ok" THEN row'[Issuer[i]][i] = "accepted" ELSE row' = row
<1>1. CASE AcceptCode(i) # "ok"
  BY <1>1 DEF HandleAccept
<1>2. CASE AcceptCode(i) = "ok"
  <2> DEFINE h == Issuer[i]
             q == SettledRows(h, i)
             r == [q EXCEPT ![i] = "accepted"]
  <2>1. row' = [row EXCEPT ![h] = r]
    BY <1>2 DEF HandleAccept
  <2>2. h \in Gateways
    BY Ends
  <2>3. q \in [Requests -> Status]
    BY <2>2, SettledFacts DEF Inv, Types
  <2> HIDE DEF q
  <2>4. r[i] = "accepted"
    BY <2>3
  <2> HIDE DEF r, h
  <2>5. row'[h][i] = "accepted"
    BY <2>1, <2>2, <2>4 DEF Inv, Types
  <2> QED
    BY <1>2, <2>5 DEF h
<1> QED
  BY <1>1, <1>2

\* Nothing makes a barred request one to be withdrawn again.
LEMMA BarredLasts ==
  ASSUME Inv, PostOK, [Next]_vars, NEW i \in Requests, Barred(i)
  PROVE  Barred(i)'
<1>0. Issuer[i] \in Gateways /\ Issuer[i] # Target[i]
  BY Ends
<1>1. Lasting
  BY AnswersLast, ToldStep
<1>2. CASE row[Issuer[i]][i] \notin {"none", "pending", "withdrawn"}
  BY <1>1, <1>2 DEF Barred, Lasting
<1>3. CASE /\ row[Issuer[i]][i] = "none" /\ told[i] # "nothing"
           /\ <<"invite", i>> \notin first
  <2>1. told'[i] # "nothing" /\ <<"invite", i>> \notin first'
    BY <1>1, <1>3, AskMoves DEF Lasting
  <2>2. RowMoved(Issuer[i], i)
    BY <1>0, RowMoves
  <2>3. row'[Issuer[i]][i] = "none"
    BY <1>0, <1>3, <2>2
    DEF RowMoved, Saved, Carded, Settled, TargetAnswers, Voided, IssuerAnswers
  <2> QED
    BY <2>1, <2>3 DEF Barred
<1> QED
  BY <1>2, <1>3 DEF Barred

\* WithdrawnOK is inductive, part by part.
LEMMA AcceptedLaterStep ==
  ASSUME Inv, PostOK, AnswersComeBack, AcceptedLater, [Next]_vars
  PROVE  AcceptedLater'
<1> SUFFICES ASSUME NEW i \in Requests
             PROVE  /\ post'[<<"accept", i>>] # "idle" =>
                          told'[i] # "nothing" /\ <<"invite", i>> \notin first'
                    /\ row'[Target[i]][i] # "none" => told'[i] # "nothing"
                    /\ post'[<<"invite", i>>] # "idle" => told'[i] # "nothing"
  BY DEF AcceptedLater
<1>0. /\ {"invite", "accept"} \subseteq Kinds /\ Target[i] \in Gateways /\ Issuer[i] # Target[i]
      /\ Issuer[i] = Sender("invite", i)
  BY Ends DEF Kinds, Sender
<1>1. /\ told[i] # "nothing" => told'[i] # "nothing"
      /\ told[i] # "nothing" /\ <<"invite", i>> \notin first => <<"invite", i>> \notin first'
  BY AskMoves, ToldStep
<1>2. PostMoved("accept", i) /\ PostMoved("invite", i)
  BY <1>0, PostMoves DEF PostOK
<1>3. ASSUME post'[<<"accept", i>>] # "idle"
      PROVE  told'[i] # "nothing" /\ <<"invite", i>> \notin first'
  <2>1. CASE post[<<"accept", i>>] # "idle"
    BY <1>1, <2>1 DEF AcceptedLater
  <2>2. CASE post[<<"accept", i>>] = "idle"
    <3>1. Accept(i)
      BY <1>2, <1>3, <2>2 DEF PostMoved, PostMade
    <3>2. row[Target[i]][i] # "none" /\ <<"invite", i>> \notin first
      BY <3>1 DEF Accept, MayAnswer, AnswersComeBack
    <3> QED
      BY <1>1, <3>2 DEF AcceptedLater
  <2> QED
    BY <2>1, <2>2
<1>4. ASSUME row'[Target[i]][i] # "none"
      PROVE  told'[i] # "nothing"
  <2>1. CASE row[Target[i]][i] # "none"
    BY <1>1, <2>1 DEF AcceptedLater
  <2>2. CASE row[Target[i]][i] = "none"
    <3>1. Carded(Target[i], i) \/ AcceptGone(i)
      BY <1>0, <1>4, <2>2, RowMoves
      DEF RowMoved, Saved, Settled, TargetAnswers, Voided, IssuerAnswers
    <3>2. CASE Carded(Target[i], i)
      BY <1>1, <3>2 DEF Carded, HandleInvite, AcceptedLater
    <3>3. CASE AcceptGone(i)
      BY <1>1, <3>3 DEF AcceptGone, GotAnswer, AcceptedLater
    <3> QED
      BY <3>1, <3>2, <3>3
  <2> QED
    BY <2>1, <2>2
<1>5. ASSUME post'[<<"invite", i>>] # "idle"
      PROVE  told'[i] # "nothing"
  <2>1. CASE post[<<"invite", i>>] # "idle"
    BY <1>1, <2>1 DEF AcceptedLater
  <2>2. CASE post[<<"invite", i>>] = "idle"
    <3>1. Ask(i) \/ <<"invite", i>> \in queue[Issuer[i]]
      BY <1>0, <1>2, <1>5, <2>2 DEF PostMoved, PostMade
    <3>2. CASE Ask(i)
      BY <3>2 DEF Ask, Inv, Types
    <3>3. CASE <<"invite", i>> \in queue[Issuer[i]]
      <4>1. Waits(<<"invite", i>>)
        BY <1>0, <3>3, PostParts DEF Waits
      <4> QED
        BY <1>1, <4>1 DEF PostOK, Begun
    <3> QED
      BY <3>1, <3>2, <3>3
  <2> QED
    BY <2>1, <2>2
<1> QED
  BY <1>3, <1>4, <1>5

\* An acceptance that is recorded is final.
LEMMA AcceptedIsSeenStep ==
  ASSUME Inv, PostOK, AcceptedIsSeen, [Next]_vars
  PROVE  AcceptedIsSeen'
<1> SUFFICES ASSUME NEW i \in Requests, i \in nonces'[Issuer[i]]
             PROVE  row'[Issuer[i]][i] \notin {"none", "pending"}
  BY DEF AcceptedIsSeen
<1>1. CASE i \in nonces[Issuer[i]]
  BY <1>1, AnswersLast, ToldStep DEF AcceptedIsSeen, Lasting
<1>2. CASE HandleAccept(i) /\ AcceptCode(i) = "ok"
  BY <1>2, HandleAcceptRows
<1> QED
  BY <1>1, <1>2, NonceMoves

\* A contact, or an answer that adds one, comes with what bars a withdrawal.
LEMMA ContactsBarStep ==
  ASSUME Inv, PostOK, AnswersComeBack, WithdrawnOK, [Next]_vars
  PROVE  ContactsBar'
<1> SUFFICES ASSUME NEW i \in Requests,
                    \/ contacts'[Issuer[i]][i] # 0 \/ contacts'[Target[i]][i] # 0
                    \/ post'[<<"accept", i>>] \in {"ok", "duplicate", "refused"}
             PROVE  Barred(i)'
  BY DEF ContactsBar
<1>0. /\ "accept" \in Kinds /\ Issuer[i] \in Gateways /\ Target[i] \in Gateways
      /\ Issuer[i] # Target[i]
  BY Ends DEF Kinds
<1>1. CASE Barred(i)
  BY <1>1, BarredLasts
<1>2. ASSUME ~Barred(i), HandleAccept(i), post[<<"accept", i>>] # "idle",
             AcceptCode(i) \in {"ok", "duplicate", "refused"}
      PROVE  Barred(i)'
  <2>1. CASE AcceptCode(i) = "ok"
    BY <1>2, <2>1, HandleAcceptRows DEF Barred
  <2>2. CASE AcceptCode(i) # "ok"
    <3>1. told[i] # "nothing" /\ <<"invite", i>> \notin first
      BY <1>2 DEF WithdrawnOK, AcceptedLater
    <3>2. row[Issuer[i]][i] \notin {"none", "withdrawn"}
      BY <1>2, <2>2, <3>1 DEF Barred, AcceptCode
    <3>3. row[Issuer[i]][i] = "pending"
      BY <1>2, <3>2 DEF Barred
    <3>4. i \notin nonces[Issuer[i]]
      BY <3>3 DEF WithdrawnOK, AcceptedIsSeen
    <3> QED
      BY <1>2, <2>2, <3>3, <3>4 DEF AcceptCode, Seen
  <2> QED
    BY <2>1, <2>2
<1>3. ASSUME ~Barred(i), contacts'[Issuer[i]][i] # 0
      PROVE  Barred(i)'
  <2>1. contacts[Issuer[i]][i] = 0
    BY <1>3 DEF WithdrawnOK, ContactsBar
  <2>2. HandleAccept(i) /\ AcceptCode(i) = "ok"
    BY <1>0, <1>3, <2>1, ContactMoves DEF ContactMoved
  <2> QED
    BY <1>2, <1>3, <2>2 DEF HandleAccept
<1>4. ASSUME ~Barred(i), contacts'[Target[i]][i] # 0
      PROVE  Barred(i)'
  <2>1. contacts[Target[i]][i] = 0
    BY <1>4 DEF WithdrawnOK, ContactsBar
  <2>2. Accepted(i)
    BY <1>0, <1>4, <2>1, ContactMoves DEF ContactMoved
  <2>3. post[<<"accept", i>>] \in {"ok", "duplicate", "refused"}
    BY <2>2 DEF Accepted, GotAnswer, NoAnswer, AnswersComeBack, Codes
  <2> QED
    BY <1>4, <2>3 DEF WithdrawnOK, ContactsBar
<1>5. ASSUME ~Barred(i), post'[<<"accept", i>>] \in {"ok", "duplicate", "refused"}
      PROVE  Barred(i)'
  <2>1. post[<<"accept", i>>] \notin {"ok", "duplicate", "refused"}
    BY <1>5 DEF WithdrawnOK, ContactsBar
  <2>2. PostMoved("accept", i)
    BY <1>0, PostMoves DEF PostOK
  <2>3. /\ HandleAccept(i) /\ post[<<"accept", i>>] = "sent"
        /\ post'[<<"accept", i>>] = AcceptCode(i)
    BY <1>5, <2>1, <2>2 DEF PostMoved
  <2> QED
    BY <1>2, <1>5, <2>3
<1> QED
  BY <1>1, <1>3, <1>4, <1>5

\* In every reachable state.
LEMMA WithdrawnInvariant ==
  ASSUME AnswersComeBack
  PROVE  Spec => []WithdrawnOK
<1>1. Init => WithdrawnOK
  <2> SUFFICES ASSUME Init  PROVE WithdrawnOK
    OBVIOUS
  <2>1. \A i \in Requests : /\ post[<<"accept", i>>] = "idle" /\ post[<<"invite", i>>] = "idle"
                            /\ row[Target[i]][i] = "none" /\ i \notin nonces[Issuer[i]]
                            /\ contacts[Issuer[i]][i] = 0 /\ contacts[Target[i]][i] = 0
    <3>1. "invite" \in Kinds /\ "accept" \in Kinds
      BY DEF Kinds
    <3> QED
      BY <3>1, Ends, PostParts DEF Init
  <2> QED
    BY <2>1 DEF WithdrawnOK, AcceptedLater, AcceptedIsSeen, ContactsBar
<1>2. Inv /\ PostOK /\ WithdrawnOK /\ [Next]_vars => WithdrawnOK'
  BY AcceptedLaterStep, AcceptedIsSeenStep, ContactsBarStep DEF WithdrawnOK
<1> QED
  BY <1>1, <1>2, FriendInvariant, FriendPosts, PTL DEF Spec

\* A withdrawn request adds nobody on either side, also when the target accepts
\* it before the withdrawal arrives: if every acceptance is answered, and a
\* card only after the requester is through with its POST.
THEOREM FriendWithdrawnAddsNobody ==
  ASSUME AnswersComeBack
  PROVE  Spec => []WithdrawnAddsNobody
<1>1. WithdrawnOK => WithdrawnAddsNobody
  <2>1. ASSUME ContactsBar, NEW i \in Requests, row[Issuer[i]][i] = "withdrawn"
        PROVE  contacts[Issuer[i]][i] = 0 /\ contacts[Target[i]][i] = 0
    BY <2>1 DEF ContactsBar, Barred
  <2> QED
    BY <2>1 DEF WithdrawnOK, WithdrawnAddsNobody
<1> QED
  BY <1>1, WithdrawnInvariant, PTL

-----------------------------------------------------------------------------
(* Contacts are mutual, when besides no request expires and no gateway      *)
(* restarts.                                                                *)

NothingLost == AnswersComeBack /\ "invite" \notin Expiring /\ MaxRestarts = 0

\* The requester has the target in the contacts.
Known(i) == HasContact(Issuer[i], Target[i])

\* What each side knows of a request, and the POSTs that tell it.
Steady ==
    /\ expired = {}
    /\ \A i \in Requests :
          /\ post[<<"accept", i>>] \notin {"late", "refused"}
          /\ told[i] # "nothing" /\ <<"invite", i>> \notin first
                => row[Issuer[i]][i] # "none"

\* A request is refused, and fails, for its endpoint hint only.
RefusedForHint ==
    \A i \in Requests :
       /\ row[Target[i]][i] # "none" => i \notin Insecure
       /\ post[<<"invite", i>>] = "refused" => i \in Insecure
       /\ row[Issuer[i]][i] = "failed" => i \in Insecure
       /\ row[Issuer[i]][i] # "expired"

\* The requester counts as declined what the target declined.
DeclinedByTarget ==
    \A i \in Requests :
       post[<<"decline", i>>] # "idle" \/ row[Issuer[i]][i] = "declined"
          => row[Target[i]][i] = "declined"

\* The requester has whoever has the requester, and is had unless the answer
\* is on its way.
BothSides ==
    \A i \in Requests :
       /\ row[Issuer[i]][i] = "accepted" => Known(i)
       /\ post[<<"accept", i>>] \in {"ok", "duplicate"} => Known(i)
       /\ contacts[Target[i]][i] # 0 => Known(i)
       /\ contacts[Issuer[i]][i] # 0 =>
             \/ contacts[Target[i]][i] # 0
             \/ <<"accept", i>> \in first /\ post[<<"accept", i>>] = "ok"

MutualOK == Steady /\ RefusedForHint /\ DeclinedByTarget /\ BothSides

\* A contact made stays.
LEMMA ContactLasts ==
  ASSUME Inv, [Next]_vars, NEW g \in Gateways, NEW j \in Requests, contacts[g][j] # 0
  PROVE  contacts'[g][j] # 0
  BY ContactMoves DEF ContactMoved

\* A contact of one request is one between its two owners.
LEMMA ContactShows ==
  ASSUME contacts \in [Gateways -> [Requests -> Nat]], NEW g \in Gateways, NEW h,
         NEW i \in Requests, {Issuer[i], Target[i]} = {g, h}, contacts[g][i] # 0
  PROVE  HasContact(g, h)
<1>1. contacts[g][i] > 0
  OBVIOUS
<1> QED
  BY <1>1 DEF HasContact

\* Whom the requester has the requester keeps.
LEMMA KnownLasts ==
  ASSUME Inv, [Next]_vars, NEW i \in Requests, Known(i)
  PROVE  Known(i)'
<1>0. Issuer[i] \in Gateways
  BY Ends
<1>1. PICK j \in Requests : /\ {Issuer[j], Target[j]} = {Issuer[i], Target[i]}
                            /\ contacts[Issuer[i]][j] > 0
  BY DEF Known, HasContact
<1>2. contacts'[Issuer[i]][j] # 0
  BY <1>0, <1>1, ContactLasts
<1>3. contacts'[Issuer[i]][j] \in Nat
  BY <1>0, Step DEF Inv, Types
<1>4. contacts'[Issuer[i]][j] > 0
  BY <1>2, <1>3
<1> QED
  BY <1>1, <1>4 DEF Known, HasContact

\* What makes the requester have the target in the contacts.
LEMMA KnownMade ==
  ASSUME Inv, [Next]_vars, NEW i \in Requests, NEW j \in Requests, SamePair(j, i),
         contacts'[Issuer[i]][j] # 0
  PROVE  Known(i)'
<1>1. contacts'[Issuer[i]][j] \in Nat
  BY Ends, Step DEF Inv, Types
<1>2. contacts'[Issuer[i]][j] > 0
  BY <1>1
<1> QED
  BY <1>2 DEF Known, HasContact, SamePair

\* MutualOK is inductive, part by part.
LEMMA SteadyStep ==
  ASSUME Inv, PostOK, NothingLost, WithdrawnOK, Steady, [Next]_vars
  PROVE  Steady'
<1>0. {"invite", "accept"} \subseteq Kinds /\ ~(restarts < MaxRestarts)
  <2>1. restarts \in 0..MaxRestarts /\ MaxRestarts = 0
    BY DEF NothingLost, PostOK, WireTypes
  <2>2. ~(restarts < MaxRestarts)
    BY <2>1
  <2> QED
    BY <2>2 DEF Kinds
<1>1. expired' = {}
  BY TimeMoves DEF Steady, NothingLost
<1>2. ASSUME NEW i \in Requests
      PROVE  post'[<<"accept", i>>] \notin {"late", "refused"}
  <2>1. PostMoved("accept", i)
    BY <1>0, PostMoves DEF PostOK
  <2>2. CASE HandleAccept(i) /\ post[<<"accept", i>>] = "sent"
    <3>1. row[Issuer[i]][i] # "none"
      BY <2>2 DEF WithdrawnOK, AcceptedLater, Steady
    <3>2. AcceptCode(i) \notin {"late", "refused"}
      BY <3>1 DEF AcceptCode
    <3> QED
      BY <1>0, <2>1, <3>2 DEF PostMoved, Steady, NothingLost, AnswersComeBack
  <2>3. CASE ~(HandleAccept(i) /\ post[<<"accept", i>>] = "sent")
    BY <1>0, <2>1, <2>3 DEF PostMoved, Steady, NothingLost, AnswersComeBack
  <2> QED
    BY <2>2, <2>3
<1>3. ASSUME NEW i \in Requests, told'[i] # "nothing", <<"invite", i>> \notin first'
      PROVE  row'[Issuer[i]][i] # "none"
  <2>0. Issuer[i] \in Gateways /\ Issuer[i] # Target[i]
    BY Ends
  <2>1. told[i] # "nothing"
    BY <1>3, AskMoves
  <2>2. CASE row[Issuer[i]][i] # "none"
    BY <2>0, <2>2, RowMoves DEF RowMoved, Saved, Carded, Settled, TargetAnswers, Voided, IssuerAnswers
  <2>3. CASE row[Issuer[i]][i] = "none"
    <3>1. <<"invite", i>> \in first
      BY <2>1, <2>3 DEF Steady
    <3> QED
      BY <1>0, <1>3, <3>1, SaveMoves
  <2> QED
    BY <2>2, <2>3
<1> QED
  BY <1>1, <1>2, <1>3 DEF Steady

\* Without expiry only the endpoint hint makes a request fail.
LEMMA RefusedForHintStep ==
  ASSUME Inv, PostOK, Steady, RefusedForHint, [Next]_vars
  PROVE  RefusedForHint'
<1> SUFFICES ASSUME NEW i \in Requests
             PROVE  /\ row'[Target[i]][i] # "none" => i \notin Insecure
                    /\ post'[<<"invite", i>>] = "refused" => i \in Insecure
                    /\ row'[Issuer[i]][i] = "failed" => i \in Insecure
                    /\ row'[Issuer[i]][i] # "expired"
  BY DEF RefusedForHint
<1>0. /\ "invite" \in Kinds /\ Issuer[i] \in Gateways /\ Target[i] \in Gateways
      /\ Issuer[i] # Target[i]
  BY Ends DEF Kinds
<1>1. RowMoved(Issuer[i], i) /\ RowMoved(Target[i], i) /\ PostMoved("invite", i)
  BY <1>0, RowMoves, PostMoves DEF PostOK
<1>2. i \notin expired
  BY DEF Steady
<1>3. ASSUME row'[Target[i]][i] # "none"
      PROVE  i \notin Insecure
  <2>1. CASE row[Target[i]][i] # "none"
    BY <2>1 DEF RefusedForHint
  <2>2. CASE Carded(Target[i], i)
    BY <1>2, <2>2 DEF Carded, InviteCode
  <2>3. CASE AcceptGone(i)
    BY <2>3 DEF AcceptGone, Inv, AcceptsOnce, RefusedForHint
  <2> QED
    BY <1>0, <1>1, <1>3, <2>1, <2>2, <2>3
    DEF RowMoved, Saved, Settled, TargetAnswers, Voided, IssuerAnswers
<1>4. ASSUME post'[<<"invite", i>>] = "refused"
      PROVE  i \in Insecure
  <2>1. CASE post[<<"invite", i>>] = "refused"
    BY <2>1 DEF RefusedForHint
  <2>2. CASE InviteCode(i) = "refused"
    BY <1>2, <2>2 DEF InviteCode
  <2> QED
    BY <1>1, <1>4, <2>1, <2>2 DEF PostMoved
<1>5. row'[Issuer[i]][i] = "failed" => i \in Insecure
  BY <1>0, <1>1 DEF RefusedForHint, RowMoved, Saved, Carded, Settled, TargetAnswers,
                    Voided, IssuerAnswers
<1>6. row'[Issuer[i]][i] # "expired"
  BY <1>0, <1>1, <1>2 DEF RefusedForHint, RowMoved, Saved, Carded, Settled,
                          TargetAnswers, Voided, IssuerAnswers
<1> QED
  BY <1>3, <1>4, <1>5, <1>6

\* A decline reaches the requester from a target that declined.
LEMMA DeclinedByTargetStep ==
  ASSUME Inv, PostOK, DeclinedByTarget, [Next]_vars
  PROVE  DeclinedByTarget'
<1> SUFFICES ASSUME NEW i \in Requests,
                    post'[<<"decline", i>>] # "idle" \/ row'[Issuer[i]][i] = "declined"
             PROVE  row'[Target[i]][i] = "declined"
  BY DEF DeclinedByTarget
<1>0. /\ "decline" \in Kinds /\ Issuer[i] \in Gateways /\ Target[i] \in Gateways
      /\ Issuer[i] # Target[i] /\ Sender("decline", i) = Target[i]
  BY Ends DEF Kinds, Sender
<1>1. RowMoved(Issuer[i], i) /\ PostMoved("decline", i)
  BY <1>0, RowMoves, PostMoves DEF PostOK
<1>2. row[Target[i]][i] = "declined" => row'[Target[i]][i] = "declined"
  BY AnswersLast, ToldStep DEF Lasting
<1>3. CASE row'[Issuer[i]][i] = "declined"
  <2>1. row[Issuer[i]][i] = "declined" \/ post[<<"decline", i>>] \in {"sent", "late"}
    BY <1>0, <1>1, <1>3 DEF RowMoved, Saved, Carded, Settled, TargetAnswers, Voided, IssuerAnswers
  <2> QED
    BY <1>2, <2>1 DEF DeclinedByTarget
<1>4. CASE post'[<<"decline", i>>] # "idle"
  <2>1. CASE post[<<"decline", i>>] # "idle"
    BY <1>2, <2>1 DEF DeclinedByTarget
  <2>2. CASE post[<<"decline", i>>] = "idle"
    <3>1. Decline(i) \/ <<"decline", i>> \in queue[Target[i]]
      BY <1>0, <1>1, <1>4, <2>2 DEF PostMoved, PostMade
    <3>2. CASE Decline(i)
      <4>1. SetRow(Target[i], i, "declined") /\ "declined" \in Status
        BY <3>2 DEF Decline, Status
      <4> QED
        BY <1>0, <4>1, SetRowFacts DEF Inv, Types
    <3>3. CASE <<"decline", i>> \in queue[Target[i]]
      <4>1. Out(<<"decline", i>>)
        BY <1>0, <3>3, PostParts DEF Out, Waits
      <4> QED
        BY <1>2, <4>1 DEF PostOK, Begun
    <3> QED
      BY <3>1, <3>2, <3>3
  <2> QED
    BY <2>1, <2>2
<1> QED
  BY <1>3, <1>4

\* An acceptance that is answered finds the request accepted, or accepts it.
LEMMA AnswerIsKnown ==
  ASSUME Inv, PostOK, WithdrawnOK, MutualOK, [Next]_vars, NEW i \in Requests,
         HandleAccept(i), AcceptCode(i) \in {"ok", "duplicate"}
  PROVE  Known(i)'
<1>0. "accept" \in Kinds
  BY DEF Kinds
<1>1. CASE AcceptCode(i) = "ok"
  <2>1. contacts'[Issuer[i]][i] # 0
    BY <1>1, Ends, ContactMoves
  <2> QED
    BY <2>1, KnownMade DEF SamePair
<1>2. CASE AcceptCode(i) = "duplicate"
  <2> DEFINE s == row[Issuer[i]][i]
  <2>1. s \notin {"none", "withdrawn"} /\ (s = "pending" => i \in nonces[Issuer[i]])
    BY <1>2 DEF AcceptCode, Seen, MutualOK, Steady
  <2>2. s # "pending"
    BY <2>1 DEF WithdrawnOK, AcceptedIsSeen
  <2>3. post[<<"accept", i>>] = "sent"
    BY DEF HandleAccept, MutualOK, Steady
  <2>4. <<"accept", i>> \in first
    BY <1>0, <2>3, PostParts DEF PostOK, Placed, Begun, Waits
  <2>5. row[Target[i]][i] = "accepted"
    BY <2>4 DEF Inv, AcceptsOnce
  <2>6. s # "declined"
    BY <2>5 DEF MutualOK, DeclinedByTarget
  <2>7. s \notin {"failed", "expired"}
    BY <2>5 DEF MutualOK, RefusedForHint
  <2>8. s \in Status
    BY Ends DEF Inv, Types
  <2>9. s = "accepted"
    BY <2>1, <2>2, <2>6, <2>7, <2>8 DEF Status
  <2> QED
    BY <2>9, KnownLasts DEF MutualOK, BothSides
<1> QED
  BY <1>1, <1>2

\* An acceptance adds both, one after the other.
LEMMA BothSidesStep ==
  ASSUME Inv, PostOK, NothingLost, WithdrawnOK, MutualOK, [Next]_vars
  PROVE  BothSides'
<1> SUFFICES ASSUME NEW i \in Requests
             PROVE  /\ row'[Issuer[i]][i] = "accepted" => Known(i)'
                    /\ post'[<<"accept", i>>] \in {"ok", "duplicate"} => Known(i)'
                    /\ contacts'[Target[i]][i] # 0 => Known(i)'
                    /\ contacts'[Issuer[i]][i] # 0 =>
                          \/ contacts'[Target[i]][i] # 0
                          \/ <<"accept", i>> \in first' /\ post'[<<"accept", i>>] = "ok"
  BY DEF BothSides
<1>0. /\ "accept" \in Kinds /\ Issuer[i] \in Gateways /\ Target[i] \in Gateways
      /\ Issuer[i] # Target[i]
  BY Ends DEF Kinds
<1>1. RowMoved(Issuer[i], i) /\ PostMoved("accept", i)
  BY <1>0, RowMoves, PostMoves DEF PostOK
<1>2. Known(i) => Known(i)'
  BY KnownLasts
<1>3. ASSUME row'[Issuer[i]][i] = "accepted"
      PROVE  Known(i)'
  <2>1. CASE row[Issuer[i]][i] = "accepted"
    BY <1>2, <2>1 DEF MutualOK, BothSides
  <2>2. CASE Settled(Issuer[i], i)
    BY <2>2, KnownMade DEF Settled
  <2> QED
    BY <1>0, <1>1, <1>3, <2>1, <2>2
    DEF RowMoved, Saved, Carded, TargetAnswers, Voided, IssuerAnswers
<1>4. ASSUME post'[<<"accept", i>>] \in {"ok", "duplicate"}
      PROVE  Known(i)'
  <2>1. CASE post[<<"accept", i>>] \in {"ok", "duplicate"}
    BY <1>2, <2>1 DEF MutualOK, BothSides
  <2>2. CASE HandleAccept(i) /\ post'[<<"accept", i>>] = AcceptCode(i)
    BY <1>4, <2>2, AnswerIsKnown
  <2> QED
    BY <1>1, <1>4, <2>1, <2>2 DEF PostMoved
<1>5. ASSUME contacts'[Target[i]][i] # 0
      PROVE  Known(i)'
  <2>1. CASE contacts[Target[i]][i] # 0
    BY <1>2, <2>1 DEF MutualOK, BothSides
  <2>2. CASE Accepted(i)
    <3>1. post[<<"accept", i>>] \in Codes \ {"gone"}
      BY <2>2 DEF Accepted, GotAnswer, NoAnswer, NothingLost, AnswersComeBack
    <3>2. post[<<"accept", i>>] \in {"ok", "duplicate"}
      BY <3>1 DEF Codes, MutualOK, Steady
    <3> QED
      BY <1>2, <3>2 DEF MutualOK, BothSides
  <2> QED
    BY <1>0, <1>5, <2>1, <2>2, ContactMoves DEF ContactMoved
<1>6. ASSUME contacts'[Issuer[i]][i] # 0, contacts'[Target[i]][i] = 0
      PROVE  <<"accept", i>> \in first' /\ post'[<<"accept", i>>] = "ok"
  <2>0. contacts[Target[i]][i] = 0 /\ ~Accepted(i)
    BY <1>0, <1>6, ContactLasts, ContactMoves
  <2>1. CASE contacts[Issuer[i]][i] # 0
    <3>1. <<"accept", i>> \in first /\ post[<<"accept", i>>] = "ok"
      BY <2>0, <2>1 DEF MutualOK, BothSides
    <3>2. ~(restarts < MaxRestarts)
      <4>1. restarts \in 0..MaxRestarts /\ MaxRestarts = 0
        BY DEF NothingLost, PostOK, WireTypes
      <4> QED
        BY <4>1
    <3>3. <<"accept", i>> \in first'
      BY <2>0, <3>1, <3>2, EndMoves DEF AcceptGone, GotAnswer
    <3>4. ~Accept(i)
      BY <3>1 DEF Accept, MayAnswer, Inv, AcceptsOnce
    <3> QED
      BY <1>1, <3>1, <3>3, <3>4 DEF PostMoved, PostMade
  <2>2. CASE contacts[Issuer[i]][i] = 0
    <3>1. HandleAccept(i) /\ AcceptCode(i) = "ok"
      BY <1>0, <1>6, <2>2, ContactMoves DEF ContactMoved
    <3>2. post[<<"accept", i>>] = "sent"
      BY <3>1 DEF HandleAccept, MutualOK, Steady
    <3>3. <<"accept", i>> \in first
      BY <1>0, <3>2, PostParts DEF PostOK, Placed, Begun, Waits
    <3>4. post'[<<"accept", i>>] = "ok"
      <4>1. Answer("accept", i, "ok") /\ "ok" \in Codes
        BY <3>1 DEF HandleAccept, Codes
      <4> QED
        BY <1>0, <3>2, <4>1, AnswerValue DEF PostOK
    <3> QED
      BY <3>1, <3>3, <3>4 DEF HandleAccept
  <2> QED
    BY <2>1, <2>2
<1> QED
  BY <1>3, <1>4, <1>5, <1>6

\* What MutualOK says of the contacts of a request whose acceptance is not awaited.
LEMMA MutualMeans ==
  ASSUME Inv, BothSides, NEW g \in Gateways, NEW h \in Gateways, HasContact(g, h),
         \A j \in Requests : {Issuer[j], Target[j]} = {g, h} => <<"accept", j>> \notin first
  PROVE  HasContact(h, g)
<1>1. PICK j \in Requests : {Issuer[j], Target[j]} = {g, h} /\ contacts[g][j] > 0
  BY DEF HasContact
<1>2. /\ Issuer[j] \in Gateways /\ Target[j] \in Gateways /\ Issuer[j] # Target[j]
      /\ contacts[g][j] # 0
  BY <1>1, Ends
<1>3. CASE g = Issuer[j]
  <2>1. h = Target[j]
    BY <1>1, <1>2, <1>3
  <2>2. contacts[h][j] # 0
    BY <1>1, <1>2, <1>3, <2>1 DEF BothSides
  <2>3. {Issuer[j], Target[j]} = {h, g}
    BY <1>3, <2>1
  <2> QED
    BY <2>2, <2>3, ContactShows DEF Inv, Types
<1>4. CASE g = Target[j]
  <2>1. h = Issuer[j]
    BY <1>1, <1>2, <1>4
  <2>2. Known(j)
    BY <1>2, <1>4 DEF BothSides
  <2> QED
    BY <1>4, <2>1, <2>2 DEF Known
<1> QED
  BY <1>1, <1>3, <1>4

\* A contact is one on both sides, unless an acceptance is still on its way: if
\* every acceptance is answered, a card is answered after its request's own POST
\* was, no request expires and no gateway restarts.
THEOREM FriendContactIsMutual ==
  ASSUME NothingLost
  PROVE  Spec => []ContactIsMutual
<1>1. Init => MutualOK
  <2> SUFFICES ASSUME Init  PROVE MutualOK
    OBVIOUS
  <2>1. \A i \in Requests : /\ post[<<"accept", i>>] = "idle" /\ post[<<"invite", i>>] = "idle"
                            /\ post[<<"decline", i>>] = "idle"
                            /\ row[Target[i]][i] = "none" /\ row[Issuer[i]][i] = "none"
                            /\ contacts[Issuer[i]][i] = 0 /\ contacts[Target[i]][i] = 0
                            /\ told[i] = "nothing"
    <3>1. "invite" \in Kinds /\ "accept" \in Kinds /\ "decline" \in Kinds
      BY DEF Kinds
    <3> QED
      BY <3>1, Ends, PostParts DEF Init
  <2>2. expired = {}
    BY DEF Init
  <2> QED
    BY <2>1, <2>2 DEF MutualOK, Steady, RefusedForHint, DeclinedByTarget, BothSides
<1>2. Inv /\ PostOK /\ WithdrawnOK /\ MutualOK /\ [Next]_vars => MutualOK'
  BY SteadyStep, RefusedForHintStep, DeclinedByTargetStep, BothSidesStep DEF MutualOK
<1>3. Inv /\ MutualOK => ContactIsMutual
  <2> SUFFICES ASSUME Inv, MutualOK, NEW i \in Requests,
                      \A j \in Others(i) \cup {i} : <<"accept", j>> \notin first
               PROVE  /\ HasContact(Issuer[i], Target[i]) => HasContact(Target[i], Issuer[i])
                      /\ HasContact(Target[i], Issuer[i]) => HasContact(Issuer[i], Target[i])
    BY DEF ContactIsMutual
  <2>1. Issuer[i] \in Gateways /\ Target[i] \in Gateways
    BY Ends
  <2>2. \A j \in Requests : {Issuer[j], Target[j]} = {Issuer[i], Target[i]}
                               => <<"accept", j>> \notin first
    BY DEF Others
  <2>3. \A j \in Requests : {Issuer[j], Target[j]} = {Target[i], Issuer[i]}
                               => <<"accept", j>> \notin first
    BY <2>2
  <2> QED
    BY <2>1, <2>2, <2>3, MutualMeans DEF MutualOK
<1>4. NothingLost => AnswersComeBack
  BY DEF NothingLost
<1>5. Spec => []WithdrawnOK
  BY <1>4, WithdrawnInvariant
<1> QED
  BY <1>1, <1>2, <1>3, <1>5, FriendInvariant, FriendPosts, PTL DEF Spec
=============================================================================
