--------------------------- MODULE MCRelaySender ---------------------------
(* RelaySender on small instances. *)
EXTENDS RelaySender

CONSTANTS m1, m2

\* Picked is the filter of the standard modules, on every short sequence.
ASSUME PickedSelects ==
    \A n \in 0..4, T \in SUBSET (1..3) :
        \A s \in [1..n -> 1..3] : Picked(s, T) = SelectSeq(s, LAMBDA x : x \in T)

MCTries  == 1..MaxTries
MCNonces == Msgs \X MCTries
=============================================================================
