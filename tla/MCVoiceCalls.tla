---------------------------- MODULE MCVoiceCalls ----------------------------
(* VoiceCalls on small instances: ann and cat on gateway a, bob on b. *)
EXTENDS VoiceCalls

CONSTANTS a, b, ann, bob, cat, s1, s2, s3

MCHome  == [u \in Users |-> IF u = bob THEN b ELSE a]
MCOwner == [s \in Socks |-> IF s = s1 THEN ann ELSE IF s = s2 THEN bob ELSE cat]
\* Ann calls bob, bob calls ann, cat calls ann, ann calls bob again.
MCFrom  == [c \in Calls |-> <<ann, bob, cat, ann>>[c]]
MCTo    == [c \in Calls |-> <<bob, ann, ann, bob>>[c]]
=============================================================================
