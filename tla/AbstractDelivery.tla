-------------------------- MODULE AbstractDelivery --------------------------
(***************************************************************************)
(* What relaying a direct message promises, with the wire and both         *)
(* gateways left out.  The receiving side takes responsibility for a       *)
(* message at most once.  The sending side may say that a message got      *)
(* through only after that, and says how it ended only once.               *)
(*                                                                         *)
(* As long as nobody kills the receiving gateway and the contact is not    *)
(* removed, that is all.  After such a fault a message that was seen may   *)
(* be lost and count as got through, and an outcome may be corrected.      *)
(***************************************************************************)
CONSTANT Msgs

VARIABLES
    taken,      \* messages the receiving gateway has taken responsibility for
    lost,       \* messages it has seen and does not have
    verdict,    \* what the sending gateway has said of each message
    fault       \* the receiver was killed or the contact removed

Open == {"none", "waiting"}
Verdict == Open \cup {"sent", "delivered", "expired"}

Init ==
    /\ taken = {}
    /\ lost = {}
    /\ verdict = [m \in Msgs |-> "none"]
    /\ fault = FALSE

Take(m) ==
    /\ m \notin taken \cup lost
    /\ taken' = taken \cup {m}
    /\ UNCHANGED <<lost, verdict, fault>>

\* The receiver is killed or the contact removed; what it had only seen is lost.
Fault ==
    /\ fault' = TRUE
    /\ lost' \in SUBSET Msgs
    /\ lost \subseteq lost'
    /\ taken' = taken \ lost'
    /\ UNCHANGED verdict

\* The first try failed or its outcome is not known.
Wait(m) ==
    /\ verdict[m] = "none"
    /\ verdict' = [verdict EXCEPT ![m] = "waiting"]
    /\ UNCHANGED <<taken, lost, fault>>

Confirm(m) ==
    /\ m \in taken \cup lost
    /\ \/ verdict[m] = "none" /\ verdict' = [verdict EXCEPT ![m] = "sent"]
       \/ /\ verdict[m] = "waiting" \/ (fault /\ verdict[m] = "expired")
          /\ verdict' = [verdict EXCEPT ![m] = "delivered"]
    /\ UNCHANGED <<taken, lost, fault>>

\* The sender gives up; the message may have been taken all the same.
GiveUp(m) ==
    /\ verdict[m] = "waiting" \/ (fault /\ verdict[m] = "delivered")
    /\ verdict' = [verdict EXCEPT ![m] = "expired"]
    /\ UNCHANGED <<taken, lost, fault>>

Next == Fault \/ \E m \in Msgs : Take(m) \/ Wait(m) \/ Confirm(m) \/ GiveUp(m)

Spec == Init /\ [][Next]_<<taken, lost, verdict, fault>>
=============================================================================
