----------------------------- MODULE MC_DurStore -----------------------------
(* Two durable stores against a cluster with one replica (persist up to  *)
(* 2, replicate up to 1), with requests that are valid, capped by -1,    *)
(* zero, or above the maxima.                                             *)
EXTENDS DurStore

MCRequests == {<<1, 1>>, <<2, 0>>, <<-1, -1>>, <<0, 0>>, <<3, 1>>}
=============================================================================
