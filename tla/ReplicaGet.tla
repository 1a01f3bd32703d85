----------------------------- MODULE ReplicaGet -----------------------------
(***************************************************************************)
(* Replica reads (lcb_getreplica, src/src/operations/get.cc).              *)
(*                                                                         *)
(* One extended cookie (RGetCookie) is shared by every GET_REPLICA packet  *)
(* of a request and counts them in `remaining`.  The three strategies:     *)
(*   SELECT(i)  one packet to replica i;                                   *)
(*   ALL        one packet per replica, one callback per response, FINAL   *)
(*              on the response that sees remaining = 1;                   *)
(*   FIRST      one packet at a time: on a failure the packet is renewed   *)
(*              towards the next replica online in the *current* map.      *)
(* Packets are answered by the servers in any order across pipelines (an   *)
(* answer is a response, a timeout or a network failure: all of them      *)
(* reach rget_callback with an error code).  Packets scheduled inside a    *)
(* user sched_enter batch wait in `pending` until sched_leave flushes them *)
(* or sched_fail destroys them through rget_dtor.  The cluster map may be *)
(* replaced between any two steps.                                         *)
(*                                                                         *)
(* With collections enabled and the collection id not cached, the call    *)
(* is validated (getreplica_validate) against the map of the call, then   *)
(* waits on collcache_resolve; the operation lambda runs when the lookup  *)
(* ends, checking the replica range again against the map of that moment. *)
(***************************************************************************)
EXTENDS Integers, Sequences, FiniteSets

CONSTANTS
    Reqs,        \* user requests (one lcb_getreplica call each)
    Servers,     \* data servers; each owns one pipeline
    NONE,        \* lcbvb_vbreplica's -1: replica slot with no server
    R,           \* LCBT_NREPLICAS: replica slots of the key's vbucket
    Configs,     \* cluster maps: functions 0..R-1 -> Servers \cup {NONE}
    Modes,       \* the lcb_REPLICA_MODEs users pass to lcb_cmdgetreplica_create
    MaxBatches,  \* bound on the user's sched_enter batches
    UseCollections \* LCBT_SETTING(instance, use_collections)

ASSUME R \in Nat \ {0}
ASSUME NONE \notin Servers
ASSUME Configs \subseteq [0 .. R - 1 -> Servers \cup {NONE}]
ASSUME Modes \subseteq {"ANY", "ALL", "IDX0", "IDX1", "IDX2"}
ASSUME MaxBatches \in Nat
ASSUME UseCollections \in BOOLEAN

NPipelines == Cardinality(Servers)

VARIABLES
    config,      \* cq->config: the current cluster map
    status,      \* per request: new | rejected | waiting | batched | sent |
                 \* discarded | lost (lambda error) | failed (lookup error)
    rck,         \* per request: the RGetCookie fields
    pending,     \* packets scheduled but not flushed (open user batch)
    inflight,    \* packets flushed to a pipeline and not yet answered
    batch,       \* TRUE between lcb_sched_enter and leave/fail
    batches,     \* number of batches the user has opened
    delivered,   \* per request: the callbacks the user has received
    answers      \* per request: history of the outcomes the servers gave

vars == <<config, status, rck, pending, inflight, batch, batches,
          delivered, answers>>

(* lcb_cmdgetreplica_create: ANY reads the first replica that answers,  *)
(* ALL every replica, IDXn replica n alone (index = mode - IDX0).         *)
CmdGetReplicaCreate(m) ==
    CASE m = "ANY" -> [kind |-> "FIRST", index |-> 0]
      [] m = "ALL" -> [kind |-> "ALL", index |-> 0]
      [] m = "IDX0" -> [kind |-> "SELECT", index |-> 0]
      [] m = "IDX1" -> [kind |-> "SELECT", index |-> 1]
      [] m = "IDX2" -> [kind |-> "SELECT", index |-> 2]

Strategies == {CmdGetReplicaCreate(m) : m \in Modes}

Outcomes == {"ok", "fail"}

Packet == [req : Reqs, ix : Nat, srv : Servers]

NoCookie ==
    [alive |-> FALSE, strategy |-> [kind |-> "FIRST", index |-> 0],
     r_cur |-> 0, r_max |-> R, remaining |-> 0]

(* lcbvb_vbreplica(config, vb, ix): NONE outside the map's replica slots. *)
VbReplica(cfg, ix) == IF ix \in 0 .. R - 1 THEN cfg[ix] ELSE NONE

Online(cfg, ix) == VbReplica(cfg, ix) \in Servers

PacketsOf(r) == {p \in pending \cup inflight : p.req = r}

HasFinal(r) == \E i \in 1 .. Len(delivered[r]) : delivered[r][i].final

-----------------------------------------------------------------------------
(***************************************************************************)
(* Scheduling: the index range [r0, r1) that the operation lambda of      *)
(* lcb_getreplica validates and fans out over, or an error.                *)
(***************************************************************************)
FirstOnline(cfg) ==
    IF \E ix \in 0 .. R - 1 : Online(cfg, ix)
    THEN CHOOSE ix \in 0 .. R - 1 :
            Online(cfg, ix) /\ \A j \in 0 .. ix - 1 : ~Online(cfg, j)
    ELSE R

ReplicaRange(cfg, st) ==
    CASE st.kind = "SELECT" -> [ok |-> Online(cfg, st.index),
                               r0 |-> st.index, r1 |-> st.index]
      [] st.kind = "ALL"    -> [ok |-> \A ix \in 0 .. R - 1 : Online(cfg, ix),
                               r0 |-> 0, r1 |-> R]
      [] st.kind = "FIRST"  -> [ok |-> FirstOnline(cfg) < R,
                               r0 |-> FirstOnline(cfg), r1 |-> FirstOnline(cfg)]

RangeValid(rg) == rg.ok /\ rg.r1 >= rg.r0 /\ rg.r1 < NPipelines

(* The fan-out loop stopping one replica short. *)
FanOutShort(r, cfg, rg) ==
    {[req |-> r, ix |-> ix, srv |-> cfg[ix]] :
        ix \in rg.r0 .. IF rg.r1 > rg.r0 THEN rg.r1 - 2 ELSE rg.r0}

(* The do { ... } while (++r0 < r1) loop: one packet per replica index. *)
FanOut(r, cfg, rg) ==
    {[req |-> r, ix |-> ix, srv |-> cfg[ix]] :
        ix \in rg.r0 .. IF rg.r1 > rg.r0 THEN rg.r1 - 1 ELSE rg.r0}

(* A cookie born holding the creating call's reference as well. *)
NewCookieExtraRef(st, r0, n) ==
    [alive |-> TRUE, strategy |-> st, r_cur |-> r0, r_max |-> R, remaining |-> n + 1]

(* The RGetCookie constructor: r_max is LCBT_NREPLICAS, remaining is set *)
(* by the operation lambda to the number of packets it scheduled.        *)
NewCookie(st, r0, n) ==
    [alive |-> TRUE, strategy |-> st, r_cur |-> r0, r_max |-> R, remaining |-> n]

(* RGetCookie::decref(): the cookie is deleted when remaining drops to 0. *)
Decref(c, n) ==
    [c EXCEPT !.remaining = c.remaining - n,
              !.alive = c.remaining - n > 0]

(* The FIRST strategy's do { r_cur++ ... } while (r_cur < r_max) search   *)
(* for the next replica online in the current map.                         *)
NextReplica(cfg, c) ==
    LET cands == {ix \in c.r_cur + 1 .. c.r_max : Online(cfg, ix)}
    IN  IF cands = {}
        THEN [found |-> FALSE,
              r_cur |-> IF c.r_cur + 1 > c.r_max THEN c.r_cur + 1 ELSE c.r_max]
        ELSE LET ix == CHOOSE i \in cands : \A j \in cands : i <= j
             IN  [found |-> TRUE, r_cur |-> ix]

-----------------------------------------------------------------------------
Init ==
    /\ config \in Configs
    /\ status = [r \in Reqs |-> "new"]
    /\ rck = [r \in Reqs |-> NoCookie]
    /\ pending = {}
    /\ inflight = {}
    /\ batch = FALSE
    /\ batches = 0
    /\ delivered = [r \in Reqs |-> <<>>]
    /\ answers = [r \in Reqs |-> <<>>]

(* lcb_sched_enter: the user opens a batch. *)
SchedEnter ==
    /\ ~batch
    /\ batches < MaxBatches
    /\ batch' = TRUE
    /\ batches' = batches + 1
    /\ UNCHANGED <<config, status, rck, pending, inflight, delivered, answers>>

(* getreplica_validate's replica test, against the map of the call. *)
Validate(cfg, st) == RangeValid(ReplicaRange(cfg, st))

(* The operation lambda: the replica range again, against the current   *)
(* map; an error is only returned (to lcb_getreplica, or to the resolver *)
(* that ran the lambda, which drops it).  Otherwise the cookie and one  *)
(* packet per replica of the range; MAYBE_SCHEDLEAVE flushes them unless *)
(* a batch is open.                                                      *)
RunLambda(r, st) ==
    LET rg == ReplicaRange(config, st)
        pkts == FanOut(r, config, rg)
    IN
    IF ~RangeValid(rg)
    THEN /\ status' = [status EXCEPT ![r] = "lost"]
         /\ UNCHANGED <<rck, pending, inflight>>
    ELSE /\ rck' = [rck EXCEPT ![r] = NewCookie(st, rg.r0, Cardinality(pkts))]
         /\ IF batch
            THEN /\ pending' = pending \cup pkts
                 /\ status' = [status EXCEPT ![r] = "batched"]
                 /\ UNCHANGED inflight
            ELSE /\ inflight' = inflight \cup pending \cup pkts
                 /\ pending' = {}
                 /\ status' = [status EXCEPT ![r] = "sent"]

(* lcb_getreplica: getreplica_validate, then the lambda at once when     *)
(* collections are off or collcache_get hits (`hit`), else the command   *)
(* is queued on collcache_resolve and the call returns success.          *)
GetReplica(r, st, hit) ==
    /\ status[r] = "new"
    /\ IF ~Validate(config, st)
       THEN /\ status' = [status EXCEPT ![r] = "rejected"]
            /\ UNCHANGED <<rck, pending, inflight>>
       ELSE IF UseCollections /\ ~hit
       THEN /\ status' = [status EXCEPT ![r] = "waiting"]
            /\ rck' = [rck EXCEPT ![r] = [NoCookie EXCEPT !.strategy = st]]
            /\ UNCHANGED <<pending, inflight>>
       ELSE RunLambda(r, st)
    /\ UNCHANGED <<config, batch, batches, delivered, answers>>

(* The lookup ends on the event loop and runs the lambda.  A lookup     *)
(* error makes the lambda call back once with that error and without    *)
(* LCB_RESP_F_FINAL; otherwise it schedules under the current map.      *)
Resolve(r, ok) ==
    /\ status[r] = "waiting"
    /\ ~batch
    /\ IF ok
       THEN /\ RunLambda(r, rck[r].strategy)
            /\ UNCHANGED delivered
       ELSE /\ status' = [status EXCEPT ![r] = "failed"]
            /\ delivered' = [delivered EXCEPT ![r] = Append(@, [rc |-> "fail", final |-> FALSE])]
            /\ UNCHANGED <<rck, pending, inflight>>
    /\ UNCHANGED <<config, batch, batches, answers>>

(* lcb_sched_leave: the batch's packets are flushed to their pipelines. *)
SchedLeave ==
    /\ batch
    /\ batch' = FALSE
    /\ inflight' = inflight \cup pending
    /\ pending' = {}
    /\ status' = [r \in Reqs |-> IF status[r] = "batched" THEN "sent"
                                                          ELSE status[r]]
    /\ UNCHANGED <<config, rck, batches, delivered, answers>>

(* lcb_sched_fail: every unflushed packet is destroyed through rget_dtor, *)
(* which drops one reference of its cookie.                               *)
SchedFail ==
    /\ batch
    /\ batch' = FALSE
    /\ pending' = {}
    /\ rck' = [r \in Reqs |->
                 LET n == Cardinality({p \in pending : p.req = r})
                 IN  IF n = 0 THEN rck[r] ELSE Decref(rck[r], n)]
    /\ status' = [r \in Reqs |-> IF status[r] = "batched" THEN "discarded"
                                                          ELSE status[r]]
    /\ UNCHANGED <<config, inflight, batches, delivered, answers>>

(* ALL's final test off by one: FINAL while another packet is out. *)
IsFinalEarly(c) == c.strategy.kind = "SELECT" \/ c.remaining = 2

(* FINAL reserved for SELECT: ALL never finishes. *)
IsFinalSelectOnly(c) == c.strategy.kind = "SELECT"

(* SELECT's only response, or the response that holds the last reference. *)
IsFinal(c) == c.strategy.kind = "SELECT" \/ c.remaining = 1

(* FIRST stops on nothing but exhaustion: a success is retried too. *)
FirstDoneIgnoringSuccess(o, c, nx) == nx.r_cur = c.r_max \/ ~nx.found

(* FIRST stops on success, on an exhausted range or with no next replica. *)
FirstDone(o, c, nx) == o = "ok" \/ nx.r_cur = c.r_max \/ ~nx.found

(* A retry that forgets the renewed packet's reference. *)
RenewNoRef(c, nx) == Decref([c EXCEPT !.r_cur = nx.r_cur, !.remaining = 1], 1)

(* The retry: remaining is set to 2 for the renewed packet, then decref. *)
Renew(c, nx) == Decref([c EXCEPT !.r_cur = nx.r_cur, !.remaining = 2], 1)

(* rget_callback for SELECT and ALL: deliver, FINAL on the last packet. *)
RespondFanOut(p, o) ==
    LET c == rck[p.req] IN
    /\ c.strategy.kind \in {"SELECT", "ALL"}
    /\ delivered' = [delivered EXCEPT ![p.req] =
          Append(@, [rc |-> o,
                     final |-> IsFinal(c)])]
    /\ rck' = [rck EXCEPT ![p.req] = Decref(c, 1)]
    /\ inflight' = inflight \ {p}

(* rget_callback for FIRST: after the search for the next replica, either *)
(* deliver FINAL (success, or nothing left to try) and let the cookie go, *)
(* or renew the packet towards the next replica and keep one reference.   *)
RespondFirst(p, o) ==
    LET c == rck[p.req]
        nx == NextReplica(config, c)
    IN
    /\ c.strategy.kind = "FIRST"
    /\ IF FirstDone(o, c, nx)
       THEN /\ delivered' = [delivered EXCEPT ![p.req] =
                               Append(@, [rc |-> o, final |-> TRUE])]
            /\ rck' = [rck EXCEPT ![p.req] =
                         Decref([c EXCEPT !.r_cur = nx.r_cur, !.remaining = 1], 1)]
            /\ inflight' = inflight \ {p}
       ELSE /\ rck' = [rck EXCEPT ![p.req] = Renew(c, nx)]
            /\ inflight' = (inflight \ {p}) \cup
                  {[req |-> p.req, ix |-> nx.r_cur, srv |-> config[nx.r_cur]]}
            /\ UNCHANGED delivered

(* A server answers an in-flight packet (or its pipeline fails or times   *)
(* it out); the event loop runs only while the user holds no batch.       *)
Respond(p, o) ==
    /\ ~batch
    /\ p \in inflight
    /\ answers' = [answers EXCEPT ![p.req] = Append(@, o)]
    /\ \/ RespondFanOut(p, o)
       \/ RespondFirst(p, o)
    /\ UNCHANGED <<config, status, pending, batch, batches>>

(* A new cluster map is published. *)
ConfigSwap(cfg) ==
    /\ config' = cfg
    /\ UNCHANGED <<status, rck, pending, inflight, batch, batches,
                   delivered, answers>>

Next ==
    \/ SchedEnter
    \/ SchedLeave
    \/ SchedFail
    \/ \E r \in Reqs, st \in Strategies, hit \in BOOLEAN : GetReplica(r, st, hit)
    \/ \E r \in Reqs, ok \in BOOLEAN : Resolve(r, ok)
    \/ \E p \in inflight, o \in Outcomes : Respond(p, o)
    \/ \E cfg \in Configs : ConfigSwap(cfg)

(* Every in-flight packet is eventually answered: the pipeline's timer   *)
(* fails it with LCB_ERR_TIMEOUT at its deadline if the server does not. *)
(* A batch is closed before control returns to the event loop, the same  *)
(* single-threaded discipline that keeps Respond disabled while it is open. *)
(* A collection lookup ends with an answer, an error or its timeout.     *)
Fairness ==
    /\ WF_vars(SchedLeave \/ SchedFail)
    /\ \A r \in Reqs : WF_vars(\E ok \in BOOLEAN : Resolve(r, ok))
    /\ \A r \in Reqs, ix \in 0 .. R - 1, s \in Servers :
        WF_vars(\E o \in Outcomes : Respond([req |-> r, ix |-> ix, srv |-> s], o))

Spec == Init /\ [][Next]_vars /\ Fairness

-----------------------------------------------------------------------------
TypeOK ==
    /\ config \in Configs
    /\ status \in [Reqs -> {"new", "rejected", "waiting", "batched", "sent", "discarded",
                            "lost", "failed"}]
    /\ rck \in [Reqs -> [alive : BOOLEAN, strategy : Strategies,
                         r_cur : 0 .. R + 1, r_max : {R}, remaining : 0 .. R]]
    /\ pending \subseteq Packet /\ inflight \subseteq Packet
    /\ batch \in BOOLEAN /\ batches \in 0 .. MaxBatches
    /\ delivered \in [Reqs -> Seq([rc : Outcomes, final : BOOLEAN])]
    /\ answers \in [Reqs -> Seq(Outcomes)]

(* The cookie's reference count equals the packets that still point at   *)
(* it, and the cookie is alive exactly while such packets exist: no       *)
(* packet is answered or destroyed through a deleted RGetCookie, none is  *)
(* deleted twice, and none is leaked once its last packet is gone.  Breaks *)
(* when the FIRST retry, rget_dtor or the fan-out miscount references.    *)
CookieTracksPackets ==
    \A r \in Reqs :
        /\ rck[r].remaining = Cardinality(PacketsOf(r))
        /\ rck[r].alive <=> PacketsOf(r) # {}

(* The user sees LCB_RESP_F_FINAL once, on the last callback of the      *)
(* request, and no packet of the request is left to call back after it.  *)
FinalEndsRequest ==
    \A r \in Reqs :
        /\ \A i \in 1 .. Len(delivered[r]) :
              delivered[r][i].final => i = Len(delivered[r])
        /\ HasFinal(r) => PacketsOf(r) = {}

(* SELECT and ALL report every server answer to the user, and an ALL     *)
(* request that finished has reported one answer per replica.            *)
FanOutReportsEveryReplica ==
    \A r \in Reqs :
        rck[r].strategy.kind \in {"SELECT", "ALL"} /\ status[r] \in {"sent", "discarded"} =>
            /\ Len(delivered[r]) = Len(answers[r])
            /\ rck[r].strategy.kind = "ALL" /\ HasFinal(r) => Len(delivered[r]) = R

(* FIRST asks no further replica once one has answered with success, and *)
(* reports a single callback carrying the last answer it received.       *)
FirstStopsAtSuccess ==
    \A r \in Reqs :
        rck[r].strategy.kind = "FIRST" /\ status[r] = "sent" =>
            /\ \A i \in 1 .. Len(answers[r]) : answers[r][i] = "ok" => i = Len(answers[r])
            /\ Len(delivered[r]) <= 1
            /\ HasFinal(r) => delivered[r][1].rc = answers[r][Len(answers[r])]

(* The replica read promise of ReplicaRead, under the mapping: a request *)
(* is open from its acceptance until its FINAL callback or its discard.   *)
AbsState ==
    [r \in Reqs |->
        CASE status[r] = "new"       -> "new"
          [] status[r] = "rejected"  -> "rejected"
          [] status[r] = "discarded" -> "closed"
          [] OTHER -> IF HasFinal(r) THEN "closed" ELSE "open"]

Abstract == INSTANCE ReplicaRead
                WITH state <- AbsState, out <- delivered, MaxResponses <- R

(* Every interleaving of answers, retries, map swaps and batch failures  *)
(* shows the caller a behaviour of ReplicaRead.                           *)
RefinesReplicaRead == Abstract!Spec

(* Every request whose packets were flushed eventually gets its FINAL    *)
(* callback and releases its cookie.                                      *)
SentCompletes ==
    \A r \in Reqs : status[r] = "sent" ~> (HasFinal(r) /\ ~rck[r].alive)

=============================================================================
