--------------------------- MODULE MC_ReplicaGet ---------------------------
(* Two concurrent replica reads over three servers and two replica slots; *)
(* the cluster map swaps between a healthy map and maps with one replica  *)
(* failed over, so that validation rejects, FIRST skips and retries.      *)
EXTENDS ReplicaGet

CONSTANTS s1, s2, s3

(* A map of the two replica slots of the key's vbucket. *)
Slots(a, b) == [ix \in 0 .. 1 |-> IF ix = 0 THEN a ELSE b]

MCConfigs == {Slots(s2, s3), Slots(NONE, s3), Slots(s2, NONE), Slots(s3, s1)}
=============================================================================
