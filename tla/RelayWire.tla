------------------------------ MODULE RelayWire ------------------------------
(***************************************************************************)
(* The wire between the gateway that sends direct messages and the gateway *)
(* that receives them: POST /relay requests and their HTTP answers.        *)
(*                                                                         *)
(* A request carries the message id, the relay nonce it was signed with    *)
(* and the number of the POST attempt, which stands for the connection the *)
(* answer comes back on.  Text, keys and signatures are left out: a relay  *)
(* is signed by the sending gateway itself, so every request here verifies *)
(* (RelaySender keeps a signature inside the receiver's five minute        *)
(* window, see Nonce there).  A request that is lost is one the receiver   *)
(* never takes, and a late one it takes after the sender stopped waiting;  *)
(* an answer that is lost is one the sender never reads.                   *)
(***************************************************************************)
EXTENDS Naturals, Sequences, FiniteSets

CONSTANTS
    Msgs,       \* message ids
    Nonces,     \* relay nonces
    Tries       \* numbers of POST attempts of one message

\* post_relay sends a payload to the peer; it is true on a 2xx answer only.
Request == [id : Msgs, nonce : Nonces, try : Tries]
Reply   == [id : Msgs, try : Tries, ok : BOOLEAN]

VARIABLES
    requests,   \* POSTs sent and not yet handled by the receiver
    replies     \* answers on their way back to the sender

wireVars == <<requests, replies>>

WireTypeOK ==
    /\ requests \subseteq Request
    /\ replies \subseteq Reply

WireInit ==
    /\ requests = {}
    /\ replies = {}

\* The receiver takes request r off the wire and answers it at once.
Answer(r, ok) ==
    /\ requests' = requests \ {r}
    /\ replies' = replies \cup {[id |-> r.id, try |-> r.try, ok |-> ok]}

\* The receiver takes request r off the wire; the answer comes later.
Accept(r) ==
    /\ requests' = requests \ {r}
    /\ UNCHANGED replies
=============================================================================
