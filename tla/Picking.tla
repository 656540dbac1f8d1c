------------------------------ MODULE Picking ------------------------------
(***************************************************************************)
(* The elements of a sequence that are in a set, in their order: what a    *)
(* WHERE clause or a filter leaves.  It is SelectSeq for membership in a   *)
(* set, as a function of the prefix, so that it can be proved about.       *)
(***************************************************************************)
EXTENDS Integers, Sequences

Picked(s, T) ==
    LET f[i \in 0..Len(s)] ==
            IF i = 0 THEN <<>>
            ELSE IF s[i] \in T THEN Append(f[i - 1], s[i]) ELSE f[i - 1]
    IN  f[Len(s)]
=============================================================================
