-------------------------- MODULE MCRatchetSession --------------------------
EXTENDS RatchetSession

CONSTANTS alice, bob

MCParties == {alice, bob}

\* Operations of the two people do not meet: each touches its own session, and
\* what one sends only adds to what may arrive.  One of them runs at a time.
OneAtATime == \E p \in Parties : ops[p] = <<>>

\* The longest conversations are followed only while the pages stay and the
\* first PUT hangs.
Long == 3
LongOnOnePage ==
    texts > Long => \A p \in Parties :
        /\ reloads = 0
        /\ pod[p] = Nothing
        /\ puts[p] # <<>> => Head(puts[p]).ver = 1
=============================================================================
