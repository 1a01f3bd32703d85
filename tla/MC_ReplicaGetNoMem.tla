------------------------- MODULE MC_ReplicaGetNoMem -------------------------
EXTENDS ReplicaGetNoMem

CONSTANTS s1, s2, s3

(* Replica slots 0 and 1 of the key's vbucket. *)
Slots(a, b) == [ix \in 0 .. 1 |-> IF ix = 0 THEN a ELSE b]

MCConfigs == {Slots(s2, s3), Slots(NONE, s3)}

=============================================================================
