--------------------------- MODULE ReplicaGetNoMem ---------------------------
(***************************************************************************)
(* lcb_getreplica when mcreq_allocate_packet fails part-way through the   *)
(* fan-out loop: the cookie is deleted and LCB_ERR_NO_MEMORY returned,    *)
(* while the packets allocated before the failure stay scheduled on their *)
(* pipelines with u_rdata.exdata pointing at the deleted cookie.  They    *)
(* are flushed by the next lcb_sched_leave.                               *)
(***************************************************************************)
EXTENDS ReplicaGet

(* The operation lambda with the k-th packet allocation failing. *)
GetReplicaNoMem(r, st, k) ==
    LET rg == ReplicaRange(config, st)
        pkts == FanOut(r, config, rg)
        scheduled == {p \in pkts : p.ix < rg.r0 + k - 1}
    IN
    /\ status[r] = "new"
    /\ RangeValid(rg)
    /\ k \in 1 .. Cardinality(pkts)
    /\ status' = [status EXCEPT ![r] = "rejected"]
    /\ rck' = [rck EXCEPT ![r] = NoCookie]
    /\ pending' = pending \cup scheduled
    /\ UNCHANGED <<config, inflight, batch, batches, delivered, answers>>

NextNoMem ==
    \/ Next
    \/ \E r \in Reqs, st \in Strategies, k \in 1 .. R : GetReplicaNoMem(r, st, k)

SpecNoMem == Init /\ [][NextNoMem]_vars

=============================================================================
