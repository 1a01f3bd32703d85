------------------------------ MODULE KvSubmit ------------------------------
(***************************************************************************)
(* Submission of KV commands (src/src/operations/get.cc, store.cc):       *)
(* lcb_get, lcb_store and lcb_getreplica up to the point where a packet   *)
(* is scheduled, and the way each call's outcome reaches the user.        *)
(*                                                                         *)
(* A call validates its command and returns an error at once, or goes on. *)
(* lcb_get without a cluster map defers itself until one arrives.  With   *)
(* collections enabled, a command for a collection whose id is not cached *)
(* waits on the collection resolver, which runs one lookup per collection *)
(* and then calls every waiter's continuation.  Whatever a continuation   *)
(* does after that can only reach the user through a callback: the call   *)
(* itself has long returned.                                              *)
(*                                                                         *)
(* The resolver (the collcache functions) and the defer queue are not    *)
(* under src/: they are modelled from their contract.  A packet, once     *)
(* scheduled, is answered once (the pipelines are modelled in ReplicaGet  *)
(* and DurStore).                                                          *)
(***************************************************************************)
EXTENDS Integers, FiniteSets, StoreCodec

CONSTANTS
    Ops,             \* user calls, one command each
    Colls,           \* collections the commands name
    Default,         \* the default collection, whose id is always 0
    CollId,          \* the id the server's manifest gives each collection
    UseCollections,  \* LCBT_SETTING(instance, use_collections)
    SyncSupported,   \* LCBT_SUPPORT_SYNCREPLICATION(instance)
    CompressOpts,    \* LCBT_SETTING(instance, compressopts): a subset of {OUT, FORCE}
    StoreCmds,       \* the store commands users pass (see StoreCodec)
    GetCmds          \* the lock / touch options of the gets users pass

ASSUME Default \in Colls
ASSUME CollId \in [Colls -> Nat] /\ CollId[Default] = 0
ASSUME UseCollections \in BOOLEAN
ASSUME SyncSupported \in BOOLEAN
ASSUME CompressOpts \subseteq {"OUT", "FORCE"}
ASSUME StoreCmds \subseteq StoreCmd
(* A get command's options: lcb_cmdget_locktime (with_lock) and         *)
(* lcb_cmdget_expiry (with_touch).                                       *)
GetCmd == [lock : BOOLEAN, touch : BOOLEAN]

NoGetCmd == [lock |-> FALSE, touch |-> FALSE]

ASSUME GetCmds \subseteq GetCmd

Kinds == {"get", "store", "getreplica"}

\* Phases of a call:
\*  new       not yet made
\*  failed    returned an error; no callback follows
\*  deferred  queued by lcb::defer_operation until a map arrives
\*  waiting   waiting on the collection resolver
\*  sent      a packet is scheduled
\*  done      its callback was made
\*  dropped   its continuation returned an error that nobody receives
Phases == {"new", "failed", "deferred", "waiting", "sent", "done", "dropped"}

VARIABLES
    config,     \* instance->cmdq.config is non-NULL
    cache,      \* collections whose id the collection cache holds
    resolving,  \* collections with a get_collection_id lookup in flight
    ph,         \* per call: its phase
    cmd,        \* per call: [kind, coll, sc, gc], the store or get command
    cid,        \* per call: the collection id of the command its packet is built from
    ret,        \* per call: what the API call returned (none | ok | err)
    cbs         \* per call: the callbacks the user received

vars == <<config, cache, resolving, ph, cmd, cid, ret, cbs>>

Waiters(c) == {o \in Ops : ph[o] = "waiting" /\ cmd[o].coll = c}
Deferred == {o \in Ops : ph[o] = "deferred"}

-----------------------------------------------------------------------------
(* get_validate: only the default collection when collections are off.   *)
(* lcb_is_collection_valid makes the same test for store and getreplica. *)
CollectionAllowed(c) == UseCollections \/ c = Default

(* The validation of each call.  For get and getreplica, `bad` stands   *)
(* for an empty key; getreplica_validate also needs a cluster map.  A    *)
(* store command is validated field by field (StoreCodec).               *)
GetValidate(c, bad) == ~bad /\ CollectionAllowed(c)

GetReplicaValidate(c, bad) == ~bad /\ CollectionAllowed(c) /\ config

Validate(k, c, bad, sc) ==
    CASE k = "get"   -> GetValidate(c, bad)
      [] k = "store" -> StoreValidate(sc, CollectionAllowed(c), SyncSupported) = "SUCCESS"
      [] OTHER       -> GetReplicaValidate(c, bad)

(* The part of building a packet that depends on the command: a store    *)
(* fails in get_esize_and_opcode on an operation it does not know.        *)
BuildOk(k, sc) == k # "store" \/ GetEsizeAndOpcode(sc.op).rc = "SUCCESS"

(* The store command recorded for calls that are not stores. *)
NoStoreCmd == [op |-> "upsert", exptime |-> FALSE, flags |-> FALSE, cas |-> FALSE,
               emptykey |-> FALSE, durmode |-> "none", level |-> FALSE, datatype |-> {}]

(* get_schedule giving extras only to GAT. *)
GetHeaderTouchExtrasOnly(gc) ==
    [opcode |-> IF gc.lock THEN "GET_LOCKED" ELSE IF gc.touch THEN "GAT" ELSE "GET",
     extlen |-> IF gc.touch /\ ~gc.lock THEN 4 ELSE 0]

(* get_schedule's header: GET_LOCKED with 4 bytes of extras when the     *)
(* command locks (whether or not it also touches), else GAT with 4 bytes *)
(* when it touches, else GET with none.                                   *)
GetHeader(gc) ==
    [opcode |-> IF gc.lock THEN "GET_LOCKED" ELSE IF gc.touch THEN "GAT" ELSE "GET",
     extlen |-> IF gc.lock \/ gc.touch THEN 4 ELSE 0]

(* The fast path that ignores the cache: every id counts as known. *)
FastPathAlways(c) == TRUE

(* The fast path of get_execute and of the store / getreplica entry      *)
(* points: no collections, or a collcache_get hit (the default collection *)
(* always hits).                                                          *)
FastPath(c) == ~UseCollections \/ c = Default \/ c \in cache

(* A fast path that hands the caller's command to the operation lambda   *)
(* instead of the shallow clone, as get_execute alone does it right.     *)
FastPathCidNoClone(k, c) == IF UseCollections /\ k = "get" THEN CollId[c] ELSE 0

(* The collection id of the command a fast-path packet is built from:   *)
(* with collections off, the caller's command as it is (lcb_cmd*_create *)
(* zeroes its cid); otherwise the id collcache_get found, which          *)
(* get_execute writes into cmd->collection() and the store and          *)
(* getreplica entry points copy into a shallow clone (clone.cid = cid).  *)
FastPathCid(k, c) == IF UseCollections THEN CollId[c] ELSE 0

(* What executing a command does, with the map present or not (`cfg`):    *)
(* on the fast path the packet is built (mcreq_basic_packet and the rest, *)
(* which fail without a map or when `ok` is false) and scheduled;         *)
(* otherwise collcache_resolve queues the command, or fails at once when  *)
(* there is no map and so no server to ask.                               *)
Execute(c, ok, cfg) ==
    CASE FastPath(c) -> IF ok /\ cfg THEN "sent" ELSE "failed"
      [] ~cfg        -> "failed"
      [] OTHER       -> "waiting"

(* The defer callback that reports every get_execute result. *)
DeferredRunAlways(c, ok, status) ==
    LET p == Execute(c, ok, TRUE) IN
    IF status = "canceled" THEN [ph |-> "done", cb |-> 1]
    ELSE [ph |-> IF p = "failed" THEN "done" ELSE p, cb |-> 1]

(* lcb_get's defer_operation callback: REQUEST_CANCELED is called back;  *)
(* otherwise (the map arrived) get_execute runs, and its error, if any,  *)
(* is called back.                                                       *)
DeferredRun(c, ok, status) ==
    LET p == Execute(c, ok, TRUE) IN
    IF status = "canceled" THEN [ph |-> "done", cb |-> 1]
    ELSE [ph |-> IF p = "failed" THEN "done" ELSE p, cb |-> IF p = "failed" THEN 1 ELSE 0]

(* A get continuation that drops get_schedule's error, as the other      *)
(* operations do.                                                        *)
GetContinuationDrop(res, ok) ==
    CASE res # "ok" -> [ph |-> "done", cb |-> 1]
      [] ok         -> [ph |-> "sent", cb |-> 0]
      [] OTHER      -> [ph |-> "dropped", cb |-> 0]

(* get_execute's resolver continuation: a schedule failure (reported as  *)
(* TIMEOUT) or a lookup error is called back; otherwise get_schedule     *)
(* runs, and its error is called back too.                               *)
GetContinuation(res, ok) ==
    CASE res # "ok" -> [ph |-> "done", cb |-> 1]
      [] ok         -> [ph |-> "sent", cb |-> 0]
      [] OTHER      -> [ph |-> "done", cb |-> 1]

(* The `operation` lambda of lcb_store (and, alike, of lcb_getreplica)   *)
(* run by the resolver: a lookup error is called back; otherwise the     *)
(* packet is built and scheduled, and any error on the way (opcode,      *)
(* basic_packet, compression, lcb_durability_validate, or getreplica's   *)
(* replica range and allocation) is only returned, to the resolver.      *)
OperationLambda(res, ok) ==
    CASE res # "ok" -> [ph |-> "done", cb |-> 1]
      [] ok         -> [ph |-> "sent", cb |-> 0]
      [] OTHER      -> [ph |-> "dropped", cb |-> 0]

Continuation(o, res, ok) ==
    IF cmd[o].kind = "get" THEN GetContinuation(res, ok) ELSE OperationLambda(res, ok)

-----------------------------------------------------------------------------
Init ==
    /\ config \in BOOLEAN
    /\ cache = {}
    /\ resolving = {}
    /\ ph = [o \in Ops |-> "new"]
    /\ cmd = [o \in Ops |-> [kind |-> "get", coll |-> Default, sc |-> NoStoreCmd, gc |-> NoGetCmd]]
    /\ cid = [o \in Ops |-> 0]
    /\ ret = [o \in Ops |-> "none"]
    /\ cbs = [o \in Ops |-> 0]

(* lcb_get, lcb_store or lcb_getreplica: validation, then for lcb_get     *)
(* without a map lcb::defer_operation (which returns success), else the  *)
(* fast path or collcache_resolve.  A waiting command joins the lookup   *)
(* already in flight for its collection, or starts one.                  *)
Submit(o, k, c, bad, ok, sc, gc) ==
    LET p == Execute(c, ok /\ BuildOk(k, sc), config) IN
    /\ ph[o] = "new"
    /\ cmd' = [cmd EXCEPT ![o] = [kind |-> k, coll |-> c, sc |-> sc, gc |-> gc]]
    /\ CASE ~Validate(k, c, bad, sc) ->
              /\ ph' = [ph EXCEPT ![o] = "failed"]
              /\ ret' = [ret EXCEPT ![o] = "err"]
              /\ UNCHANGED <<resolving, cid>>
         [] k = "get" /\ ~config ->
              /\ ph' = [ph EXCEPT ![o] = "deferred"]
              /\ ret' = [ret EXCEPT ![o] = "ok"]
              /\ UNCHANGED <<resolving, cid>>
         [] OTHER ->
              /\ ph' = [ph EXCEPT ![o] = p]
              /\ ret' = [ret EXCEPT ![o] = IF p = "failed" THEN "err" ELSE "ok"]
              /\ resolving' = IF p = "waiting" THEN resolving \cup {c} ELSE resolving
              /\ cid' = IF FastPath(c) THEN [cid EXCEPT ![o] = FastPathCid(k, c)] ELSE cid
    /\ UNCHANGED <<config, cache, cbs>>

(* The first cluster map is published and the deferred operations run,  *)
(* each with status SUCCESS, in the order they were queued.              *)
ConfigArrives ==
    /\ ~config
    /\ config' = TRUE
    /\ \E okf \in [Deferred -> BOOLEAN] :
         LET run(o) == DeferredRun(cmd[o].coll, okf[o], "success") IN
         /\ ph' = [o \in Ops |-> IF o \in Deferred THEN run(o).ph ELSE ph[o]]
         /\ cbs' = [o \in Ops |-> IF o \in Deferred THEN cbs[o] + run(o).cb ELSE cbs[o]]
         /\ resolving' = resolving \cup
                {cmd[o].coll : o \in {d \in Deferred : run(d).ph = "waiting"}}
         /\ cid' = [o \in Ops |-> IF o \in Deferred /\ FastPath(cmd[o].coll)
                                  THEN FastPathCid("get", cmd[o].coll) ELSE cid[o]]
    /\ UNCHANGED <<cache, cmd, ret>>

(* lcb_destroy before any map arrived flushes the defer queue with       *)
(* LCB_ERR_REQUEST_CANCELED (the rest of the destruction is not part of  *)
(* this model).                                                          *)
CancelDeferred ==
    /\ ~config
    /\ Deferred # {}
    /\ ph' = [o \in Ops |-> IF o \in Deferred
                             THEN DeferredRun(cmd[o].coll, FALSE, "canceled").ph ELSE ph[o]]
    /\ cbs' = [o \in Ops |-> IF o \in Deferred
                              THEN cbs[o] + DeferredRun(cmd[o].coll, FALSE, "canceled").cb
                              ELSE cbs[o]]
    /\ UNCHANGED <<config, cache, resolving, cmd, cid, ret>>

(* The get_collection_id lookup for c ends: with the id (ok), with an     *)
(* error response (err), or as a schedule failure (schedfail).  The id is *)
(* cached on success and every waiter's continuation runs, on a clone of *)
(* its command whose cid is the id the lookup returned.                  *)
Resolve(c, res) ==
    LET W == Waiters(c) IN
    /\ c \in resolving
    /\ resolving' = resolving \ {c}
    /\ cache' = IF res = "ok" THEN cache \cup {c} ELSE cache
    /\ \E okf \in [W -> BOOLEAN] :
         LET run(o) == Continuation(o, res, okf[o] /\ BuildOk(cmd[o].kind, cmd[o].sc)) IN
         /\ ph' = [o \in Ops |-> IF o \in W THEN run(o).ph ELSE ph[o]]
         /\ cbs' = [o \in Ops |-> IF o \in W THEN cbs[o] + run(o).cb ELSE cbs[o]]
    /\ cid' = [o \in Ops |-> IF o \in W /\ res = "ok" THEN CollId[c] ELSE cid[o]]
    /\ UNCHANGED <<config, cmd, ret>>

(* The scheduled packet's handler delivers the operation's callback      *)
(* (a response, a timeout or a network failure).                         *)
Answer(o) ==
    /\ ph[o] = "sent"
    /\ ph' = [ph EXCEPT ![o] = "done"]
    /\ cbs' = [cbs EXCEPT ![o] = @ + 1]
    /\ UNCHANGED <<config, cache, resolving, cmd, cid, ret>>

(* Every call has been made and has nothing left to wait for. *)
Finished ==
    /\ \A o \in Ops : ph[o] \in {"failed", "done", "dropped"}
    /\ UNCHANGED vars

Next ==
    \/ \E o \in Ops, k \in Kinds, c \in Colls, ok \in BOOLEAN :
         \E bad \in (IF k = "store" THEN {FALSE} ELSE BOOLEAN),
            sc \in (IF k = "store" THEN StoreCmds ELSE {NoStoreCmd}),
            gc \in (IF k = "get" THEN GetCmds ELSE {NoGetCmd}) :
             Submit(o, k, c, bad, ok, sc, gc)
    \/ ConfigArrives
    \/ CancelDeferred
    \/ \E c \in Colls, res \in {"ok", "err", "schedfail"} : Resolve(c, res)
    \/ \E o \in Ops : Answer(o)
    \/ Finished

(* Bootstrap eventually publishes a map; a lookup ends with an answer or *)
(* its timeout; a scheduled packet is answered or times out.             *)
Fairness ==
    /\ WF_vars(ConfigArrives)
    /\ \A c \in Colls : WF_vars(\E res \in {"ok", "err", "schedfail"} : Resolve(c, res))
    /\ \A o \in Ops : WF_vars(Answer(o))

Spec == Init /\ [][Next]_vars /\ Fairness

-----------------------------------------------------------------------------
TypeOK ==
    /\ config \in BOOLEAN
    /\ cache \subseteq Colls /\ resolving \subseteq Colls
    /\ ph \in [Ops -> Phases]
    /\ cmd \in [Ops -> [kind : Kinds, coll : Colls, sc : StoreCmd, gc : GetCmd]]
    /\ cid \in [Ops -> {0} \cup {CollId[c] : c \in Colls}]
    /\ ret \in [Ops -> {"none", "ok", "err"}]
    /\ cbs \in [Ops -> 0 .. 1]

(* A call's outcome reaches the user once: as an error returned by the   *)
(* API call, or as one callback, never both and never two callbacks.     *)
OneOutcome ==
    \A o \in Ops : (IF ret[o] = "err" THEN 1 ELSE 0) + cbs[o] <= 1

(* Every packet scheduled is built from a command carrying the id of its *)
(* own collection (0 for the default one), whichever way the call got    *)
(* there: the fast path of lcb_get, lcb_store or lcb_getreplica on a     *)
(* collcache_get hit, a deferred lcb_get run when the map arrives, or a  *)
(* resolver continuation after a lookup that another call may have      *)
(* started.  Spec 4.6 and its scenario 5: waiters complete with the      *)
(* resolved cid.                                                         *)
SentWithCollectionId ==
    \A o \in Ops : ph[o] = "sent" => cid[o] = CollId[cmd[o].coll]

(* A store whose options conflict (append/prepend with an expiry or      *)
(* flags, insert with a CAS) is refused synchronously with no callback,  *)
(* as section 8 of the spec requires, however collections and the map    *)
(* stand.                                                                 *)
ConflictsRejectedSynchronously ==
    \A o \in Ops :
        cmd[o].kind = "store" /\ ph[o] # "new" /\ SpecConflict(cmd[o].sc)
            => ret[o] = "err" /\ cbs[o] = 0

(* Every store packet scheduled, on whichever server's pipeline it      *)
(* lands, has the header sections 4.7 and 6 of the spec give its        *)
(* command: opcode, extras, alt magic and frame extras, and datatype     *)
(* bits that say truly whether the value is compressed or JSON.         *)
SentStoresEncodedPerSpec ==
    \A o \in Ops : cmd[o].kind = "store" /\ ph[o] = "sent" =>
        EncodedPerSpec(cmd[o].sc, SyncSupported, CompressOpts)

(* Every get packet get_schedule sends has the opcode of its command's  *)
(* class (get, get-and-touch, get-and-lock; a lock wins over a touch)   *)
(* and carries the 4-byte expiry extras exactly when it touches or      *)
(* locks, as the spec's Get family paragraph says.                      *)
SentGetsEncodedPerSpec ==
    \A o \in Ops : cmd[o].kind = "get" /\ ph[o] = "sent" =>
        LET gc == cmd[o].gc
            h == GetHeader(gc)
            class == IF gc.lock THEN "getl" ELSE IF gc.touch THEN "gat" ELSE "get"
        IN  /\ h.opcode = SpecGetOpcode[class]
            /\ h.extlen = IF class = "get" THEN 0 ELSE 4

(* Every lcb_get that returned success eventually calls back. *)
GetAnswered ==
    \A o \in Ops : cmd[o].kind = "get" /\ ret[o] = "ok" ~> cbs[o] = 1

(* Every call that returned success eventually calls back: the API       *)
(* documents that errors after submission reach the callback.            *)
Answered ==
    \A o \in Ops : ret[o] = "ok" ~> cbs[o] = 1

=============================================================================
