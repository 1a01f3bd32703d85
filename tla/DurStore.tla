------------------------------ MODULE DurStore ------------------------------
(***************************************************************************)
(* Stores with poll-based durability (src/src/operations/store.cc).        *)
(*                                                                         *)
(* lcb_store validates the requested persist/replicate counts with         *)
(* lcb_durability_validate and attaches a DurStoreCtx to the store packet. *)
(* The packet's handler, handle_dur_storecb, reports a failed store at     *)
(* once (GT_BAIL); after a successful store it builds an endure context    *)
(* (lcb_endure3_ctxnew, add_endure, done) that polls the cluster and       *)
(* delivers the store callback when the counts are met or the deadline    *)
(* passes.  handle_dur_schedfail frees the context of a packet discarded  *)
(* by lcb_sched_fail.  The endure context and lcb_durability_validate are *)
(* not under src/ and follow spec section 4.8 and t_durability.cc.         *)
(***************************************************************************)
EXTENDS Integers, Sequences

CONSTANTS
    Stores,      \* user stores (one lcb_store call each)
    ReplicaMax,  \* min(replicas, data servers - 1) of the cluster
    Requests,    \* persist/replicate pairs passed to durability_observe
    MaxPolls,    \* observe rounds before the durability deadline
    MaxBatches   \* bound on the user's sched_enter batches

ASSUME ReplicaMax \in Nat
ASSUME Requests \subseteq (Int \X Int)
ASSUME MaxPolls \in Nat /\ MaxBatches \in Nat

PersistMax == ReplicaMax + 1

VARIABLES
    st,        \* per store: new | rejected | batched | sent | polling | done | discarded
    dctx,      \* per store: the DurStoreCtx: none | alive | deleted
    req,       \* per store: the pair the user asked for
    target,    \* per store: the counts the endure context waits for
    stored,    \* per store: the server applied the mutation
    durable,   \* per store: [p, r] copies persisted / replicated so far
    polls,     \* per store: observe rounds made
    out,       \* per store: the store callbacks the user received
    batch,     \* TRUE between lcb_sched_enter and leave/fail
    batches

vars == <<st, dctx, req, target, stored, durable, polls, out, batch, batches>>

Counts == [p : 0 .. PersistMax, r : 0 .. ReplicaMax]

Rc == {"ok", "store_failed", "endure_failed", "timeout"}

-----------------------------------------------------------------------------
(* The counts passed on without their 16-bit conversion. *)
U16Raw(v) == v

(* The 16-bit persist_u / replicate_u that lcb_store hands to validate. *)
U16(v) == v % 65536

(* CAPMAX passed to validate whatever the counts. *)
CapMaxAlways(rq) == TRUE

(* The (char)-1 test: either count given as -1 asks for CAPMAX. *)
CapMax(rq) == rq[1] = -1 \/ rq[2] = -1

(* lcb_durability_validate (t_durability.cc testOptionValidation): zero  *)
(* and zero is invalid; counts above the cluster's maxima are clamped    *)
(* under CAPMAX and rejected without it.                                   *)
DurabilityValidate(p, r, capmax) ==
    CASE p = 0 /\ r = 0 -> [ok |-> FALSE]
      [] p <= PersistMax /\ r <= ReplicaMax -> [ok |-> TRUE, p |-> p, r |-> r]
      [] capmax ->
            [ok |-> TRUE, p |-> IF p > PersistMax THEN PersistMax ELSE p,
                          r |-> IF r > ReplicaMax THEN ReplicaMax ELSE r]
      [] OTHER -> [ok |-> FALSE]

(* The store callback: status, store_ok and the counts observed. *)
Resp(rc, ok, d) == [rc |-> rc, store_ok |-> ok, np |-> d.p, nr |-> d.r]

NoCounts == [p |-> 0, r |-> 0]

-----------------------------------------------------------------------------
Init ==
    /\ st = [s \in Stores |-> "new"]
    /\ dctx = [s \in Stores |-> "none"]
    /\ req = [s \in Stores |-> <<0, 0>>]
    /\ target = [s \in Stores |-> NoCounts]
    /\ stored = [s \in Stores |-> FALSE]
    /\ durable = [s \in Stores |-> NoCounts]
    /\ polls = [s \in Stores |-> 0]
    /\ out = [s \in Stores |-> <<>>]
    /\ batch = FALSE
    /\ batches = 0

(* lcb_sched_enter *)
SchedEnter ==
    /\ ~batch /\ batches < MaxBatches
    /\ batch' = TRUE /\ batches' = batches + 1
    /\ UNCHANGED <<st, dctx, req, target, stored, durable, polls, out>>

(* lcb_sched_leave: the batch's store packets go to the wire. *)
SchedLeave ==
    /\ batch /\ batch' = FALSE
    /\ st' = [s \in Stores |-> IF st[s] = "batched" THEN "sent" ELSE st[s]]
    /\ UNCHANGED <<dctx, req, target, stored, durable, polls, out, batches>>

(* lcb_sched_fail: handle_dur_schedfail deletes each discarded packet's  *)
(* DurStoreCtx; the user is told by the failed batch, not by a callback. *)
SchedFail ==
    /\ batch /\ batch' = FALSE
    /\ st' = [s \in Stores |-> IF st[s] = "batched" THEN "discarded" ELSE st[s]]
    /\ dctx' = [s \in Stores |-> IF st[s] = "batched" THEN "deleted" ELSE dctx[s]]
    /\ UNCHANGED <<req, target, stored, durable, polls, out, batches>>

(* lcb_store with LCB_DURABILITY_POLL: a validation error wipes and      *)
(* releases the packet and is returned; otherwise the DurStoreCtx is     *)
(* attached and the packet scheduled (LCB_SCHED_ADD).                     *)
Store(s, rq) ==
    LET v == DurabilityValidate(U16(rq[1]), U16(rq[2]), CapMax(rq)) IN
    /\ st[s] = "new"
    /\ req' = [req EXCEPT ![s] = rq]
    /\ IF ~v.ok
       THEN /\ st' = [st EXCEPT ![s] = "rejected"]
            /\ UNCHANGED <<dctx, target>>
       ELSE /\ st' = [st EXCEPT ![s] = IF batch THEN "batched" ELSE "sent"]
            /\ dctx' = [dctx EXCEPT ![s] = "alive"]
            /\ target' = [target EXCEPT ![s] = [p |-> v.p, r |-> v.r]]
    /\ UNCHANGED <<stored, durable, polls, out, batch, batches>>

(* done() failing taken for a started poll. *)
EndureStartedOnDoneFail(setup) == setup \in {"ok", "donefail"}

(* The handler's result once the store itself succeeded: the endure     *)
(* context was built and its done() scheduled the first observe round.  *)
EndureStarted(setup) == setup = "ok"

(* done() failing returns without reaching GT_BAIL. *)
BailsNotOnDone(setup) == setup \in {"ctxfail", "addfail"}

(* GT_BAIL is reached by a failed ctxnew, a failed add_endure, or done() *)
(* failing and falling through the `if (err == LCB_SUCCESS)` block.      *)
Bails(setup) == setup # "ok"

(* The success path returning without `delete dctx`. *)
CtxAfterHandlerLeak(ok, setup) == IF ok /\ EndureStarted(setup) THEN "alive" ELSE "deleted"

(* The handler deletes the DurStoreCtx on the success path and at GT_BAIL. *)
CtxAfterHandler(ok, setup) == "deleted"

StoreOk(ok) == ok

(* handle_dur_storecb: a failed store (error, timeout, CAS mismatch) is  *)
(* reported with store_ok = 0; a stored mutation is handed to the endure *)
(* context, or reported with store_ok = 1 and the setup error.  The      *)
(* DurStoreCtx is deleted on every path.                                  *)
StoreResp(s, ok, setup) ==
    /\ st[s] = "sent"
    /\ dctx' = [dctx EXCEPT ![s] = CtxAfterHandler(ok, setup)]
    /\ stored' = [stored EXCEPT ![s] = ok]
    /\ IF ~ok
       THEN /\ out' = [out EXCEPT ![s] = Append(@, Resp("store_failed", StoreOk(ok), NoCounts))]
            /\ st' = [st EXCEPT ![s] = "done"]
       ELSE /\ out' = [out EXCEPT ![s] =
                         IF Bails(setup) THEN Append(@, Resp("endure_failed", StoreOk(ok), NoCounts))
                                         ELSE @]
            /\ st' = [st EXCEPT ![s] = IF EndureStarted(setup) THEN "polling" ELSE "done"]
    /\ UNCHANGED <<req, target, durable, polls, batch, batches>>

(* The cluster persists or replicates the stored mutation to more nodes. *)
Replicate(s) ==
    /\ stored[s]
    /\ \E d \in Counts :
          /\ d.p >= durable[s].p /\ d.r >= durable[s].r /\ d # durable[s]
          /\ durable' = [durable EXCEPT ![s] = d]
    /\ UNCHANGED <<st, dctx, req, target, stored, polls, out, batch, batches>>

(* The durability deadline has passed after n observe rounds. *)
DeadlinePassed(n) == n >= MaxPolls

(* One observe round of the endure context (spec 4.8): success once both *)
(* counts are met, TIMEOUT at the deadline, otherwise another round.     *)
Poll(s) ==
    /\ st[s] = "polling"
    /\ IF durable[s].p >= target[s].p /\ durable[s].r >= target[s].r
       THEN /\ out' = [out EXCEPT ![s] = Append(@, Resp("ok", TRUE, durable[s]))]
            /\ st' = [st EXCEPT ![s] = "done"]
            /\ UNCHANGED polls
       ELSE IF DeadlinePassed(polls[s])
       THEN /\ out' = [out EXCEPT ![s] = Append(@, Resp("timeout", TRUE, durable[s]))]
            /\ st' = [st EXCEPT ![s] = "done"]
            /\ UNCHANGED polls
       ELSE /\ polls[s] < MaxPolls
            /\ polls' = [polls EXCEPT ![s] = @ + 1]
            /\ UNCHANGED <<out, st>>
    /\ UNCHANGED <<dctx, req, target, stored, durable, batch, batches>>

(* Every store has been rejected, discarded or answered. *)
Finished ==
    /\ \A s \in Stores : st[s] \in {"rejected", "discarded", "done"}
    /\ UNCHANGED vars

Next ==
    \/ Finished
    \/ SchedEnter \/ SchedLeave \/ SchedFail
    \/ \E s \in Stores, rq \in Requests : Store(s, rq)
    \/ \E s \in Stores, ok \in BOOLEAN, setup \in {"ok", "ctxfail", "addfail", "donefail"} :
          StoreResp(s, ok, setup)
    \/ \E s \in Stores : Replicate(s) \/ Poll(s)

(* The store packet is answered or times out; the poller's interval     *)
(* timer fires; a batch is closed before control returns to the loop.   *)
(* The cluster is not assumed to make durability progress.              *)
Fairness ==
    /\ WF_vars(SchedLeave \/ SchedFail)
    /\ \A s \in Stores : WF_vars(\E ok \in BOOLEAN, su \in {"ok", "ctxfail", "addfail", "donefail"} :
                                     StoreResp(s, ok, su))
    /\ \A s \in Stores : WF_vars(Poll(s))

Spec == Init /\ [][Next]_vars /\ Fairness

-----------------------------------------------------------------------------
TypeOK ==
    /\ st \in [Stores -> {"new", "rejected", "batched", "sent", "polling", "done", "discarded"}]
    /\ dctx \in [Stores -> {"none", "alive", "deleted"}]
    /\ req \in [Stores -> Requests \cup {<<0, 0>>}]
    /\ target \in [Stores -> Counts] /\ durable \in [Stores -> Counts]
    /\ stored \in [Stores -> BOOLEAN] /\ polls \in [Stores -> 0 .. MaxPolls]
    /\ out \in [Stores -> Seq([rc : Rc, store_ok : BOOLEAN,
                               np : 0 .. PersistMax, nr : 0 .. ReplicaMax])]
    /\ batch \in BOOLEAN /\ batches \in 0 .. MaxBatches

(* The DurStoreCtx lives exactly while its packet is scheduled or on the *)
(* wire: it is freed by the handler or by handle_dur_schedfail, and it  *)
(* never exists for a rejected store.                                      *)
DurStoreCtxOwned ==
    \A s \in Stores :
        /\ dctx[s] = "alive" <=> st[s] \in {"batched", "sent"}
        /\ dctx[s] = "none" <=> st[s] \in {"new", "rejected"}

(* Every store that went out is answered by exactly one store callback,  *)
(* and a rejected or discarded one by none.                               *)
OneCallback ==
    \A s \in Stores :
        /\ Len(out[s]) <= 1
        /\ Len(out[s]) = 1 <=> st[s] = "done"

(* A successful durable store has reached at least the counts the user   *)
(* asked for, or the cluster's maxima where -1 asked for CAPMAX          *)
(* (t_durability.cc testDurStore).                                        *)
SuccessMeetsRequest ==
    \A s \in Stores : \A i \in 1 .. Len(out[s]) :
        out[s][i].rc = "ok" =>
            /\ out[s][i].np >= IF req[s][1] = -1 THEN PersistMax ELSE req[s][1]
            /\ out[s][i].nr >= IF req[s][2] = -1 THEN ReplicaMax ELSE req[s][2]

StoreAnswered ==
    \A s \in Stores : st[s] = "sent" ~> Len(out[s]) = 1

=============================================================================
