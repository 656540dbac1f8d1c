--------------------------- MODULE RelayDelivery ---------------------------
(***************************************************************************)
(* A sending gateway, a receiving gateway and the wire between them.       *)
(***************************************************************************)
EXTENDS RelaySender, RelayReceiver

vars == <<wireVars, senderVars, receiverVars>>

TypeOK == WireTypeOK /\ SenderTypeOK /\ ReceiverTypeOK

Init == WireInit /\ SenderInit /\ ReceiverInit

\* The receiver's owner removes the sender as a contact and the sender's
\* gateway is told: the one receiver step the sender's state hears of.
RemoveContact ==
    /\ RevokeSender
    /\ notice' = TRUE
    /\ UNCHANGED <<posting, tries, oldSign, pending, stale, worker, failing,
                   removed, verdict, restarts>>

ReceiverStep ==
    /\ HandleRelay \/ LiveDelivery \/ Sockets \/ ReAddSender \/ Kill
         \/ \E u \in MayBlock : ToggleBlock(u)
    /\ UNCHANGED senderVars

SenderStep == SenderNext /\ UNCHANGED receiverVars

Next == SenderStep \/ ReceiverStep \/ RemoveContact

Spec == Init /\ [][Next]_vars

-----------------------------------------------------------------------------
\* The receiving gateway has kept the message for its recipient, is sending it
\* to live sockets, or has dropped it in silence because of a block.
Taken == ToSet(history) \cup {h.req.id : h \in handling} \cup dropped

\* A message it has recorded as seen and does not have.
Lost == (seenIds \cup {n[1] : n \in seenNonces}) \ Taken

\* What each side promises the other, see AbstractDelivery.
Delivery == INSTANCE AbstractDelivery WITH
    taken <- Taken, lost <- Lost, fault <- kills > 0 \/ revokes > 0

\* The two gateways together keep the promise of AbstractDelivery.
DeliveryPromise == Delivery!Spec

\* A message the sender was told got through is one the receiver has taken: "a
\* refused relay must not count as seen, or the sender's retry is dropped as a
\* duplicate and the message is never delivered".
DeliveredIsTaken ==
    \A m \in Msgs : verdict[m] \in {"sent", "delivered"} => m \in Taken
=============================================================================
