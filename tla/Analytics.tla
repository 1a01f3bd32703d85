------------------------------ MODULE Analytics ------------------------------
(***************************************************************************)
(* The analytics request lifecycle (src/src/analytics/analytics.cc).      *)
(*                                                                         *)
(* lcb_analytics_query / lcb_analytics_defhnd_poll create an ANALYTICSREQ  *)
(* and issue one streaming HTTP request whose chunk_callback receives     *)
(* zero or more body chunks and then one FINAL chunk, unless the request  *)
(* is cancelled through lcb_cancel_http_request, after which it calls     *)
(* back no more.  Rows the parser finds go to the user callback; the      *)
(* FINAL user callback is made by the destructor.  lcb_analytics_cancel   *)
(* nulls the callback; the request is then deleted on its next chunk.     *)
(* A chunk's status is ok or err (an error code or an HTTP status other   *)
(* than 200); its body holds a row, nothing complete, or unparsable data. *)
(***************************************************************************)
EXTENDS Integers, Sequences

CONSTANTS
    Reqs,          \* user requests (one submission each)
    MaxChunks,     \* bound on the body chunks of one HTTP request
    Retriable,     \* whether the FINAL meta may carry code 23000/23003/23007
    CmdHandleSet,  \* whether the command's handle field is non-NULL on entry
    N1qlTimeout,   \* LCBT_SETTING(instance, n1ql_timeout), in microseconds
    TmoVals,       \* the timeout strings users pass (see TmoStr)
    AnaCmds,       \* the query commands users pass to lcb_analytics_query
    Metas,         \* the meta rows a FINAL response may carry (see Meta)
    HndCbInit      \* what an extracted handle's unset callback reads as

ASSUME MaxChunks \in Nat
ASSUME Retriable \subseteq BOOLEAN
ASSUME CmdHandleSet \in BOOLEAN
ASSUME N1qlTimeout \in Nat
ASSUME Metas \subseteq {"none", "hnd", "emptyhnd"}
ASSUME HndCbInit \subseteq {"null", "garbage"}

VARIABLES
    phase,     \* per request: new | rejected | live | deleted
    kind,      \* per request: query | poll
    http,      \* the HTTP request: none | open | done | cancelled
    htreq,     \* req->htreq is non-NULL
    cb,        \* req->callback is non-NULL
    handle,    \* the user holds the request's lcb_ANALYTICSHANDLE
    lasterr,   \* req->lasterr: ok | err
    nrows,     \* req->nrows
    retried,   \* req->was_retried
    chunks,    \* body chunks the HTTP request has delivered
    out,       \* the callbacks the user received
    cancelAt,  \* Len(out) when the user cancelled, -1 if never
    tmo,       \* req->timeout, the HTTP timeout passed in htcmd.cas
    bodytmo,   \* json["timeout"] as sent in the request body, or NullTmo
    deferred,  \* per request: the query's body asked for "mode": "async"
    meta,      \* per request: the meta row of its FINAL response (Meta)
    hnd,       \* per request: the deferred handle extracted from its FINAL
    from,      \* per request: {h} for a poll made with h's handle, else {}
    wild       \* per request: req->callback is an uninitialised pointer

vars == <<phase, kind, http, htreq, cb, handle, lasterr, nrows, retried,
          chunks, out, cancelAt, tmo, bodytmo, deferred, meta, hnd, from, wild>>

Status == {"ok", "err"}
Bodies == {"none", "row", "garbage"}

HasFinal(q) == \E i \in 1 .. Len(out[q]) : out[q][i].kind = "final"

-----------------------------------------------------------------------------
(* The command (lcb_CMDANALYTICS) and its setters.  Of its JSON root only *)
(* what the constructor tests is kept: the statement and the timeout,     *)
(* each absent or null, a JSON value that is not a string, or a string.  *)
(* A timeout string "<number><unit>" is a TmoStr: num is the leading      *)
(* number sscanf reads (an integer here), or -1 when there is none; a    *)
(* timeout that is null or not a string has the pseudo-unit NullTmo or   *)
(* NonStrTmo.  mode is TRUE when the root holds "mode": "async" (a       *)
(* deferred query).  Positional and named arguments and other options go  *)
(* to the server only and are left out.                                   *)
TmoStr == [num : Nat \cup {-1}, unit : {"s", "ms", "h", "us", "m", "ns", "x"}]
NullTmo == [num |-> -1, unit |-> "null"]
NonStrTmo == [num |-> -1, unit |-> "nonstring"]
StVals == {"none", "num", "str"}
TmoFieldVals == {NullTmo, NonStrTmo} \cup TmoVals

AnaCmd == [st : StVals, tmo : TmoFieldVals, mode : BOOLEAN, cb : BOOLEAN]

(* lcb_analytics_new: an empty root object and no callback. *)
AnaCmdNew == [st |-> "none", tmo |-> NullTmo, mode |-> FALSE, cb |-> FALSE]

AnaSetters == {"setquery", "setopt_statement", "setopt_timeout", "setstatement",
               "reset", "setcallback", "setdeferred"}

AnaSetterArgs(s) ==
    CASE s = "setquery" -> [st : StVals, tmo : TmoFieldVals, mode : BOOLEAN]
      [] s = "setopt_statement" -> StVals
      [] s = "setopt_timeout" -> TmoFieldVals
      [] s \in {"setcallback", "setdeferred"} -> BOOLEAN
      [] OTHER -> {"none"}

(* One setter call that succeeds: lcb_analytics_setquery replaces the     *)
(* whole root, lcb_analytics_setopt (and namedparam) one member, setstate- *)
(* ment stores a string, reset clears the root, setcallback sets or       *)
(* clears the callback, setdeferred sets "mode": "async" or removes the   *)
(* member.  A value that does not parse returns EINVAL and leaves the    *)
(* command as it was (so does posparam, whose args are not kept).         *)
AnaCmdSet(c, s, v) ==
    CASE s = "setquery" -> [c EXCEPT !.st = v.st, !.tmo = v.tmo, !.mode = v.mode]
      [] s = "setopt_statement" -> [c EXCEPT !.st = v]
      [] s = "setopt_timeout" -> [c EXCEPT !.tmo = v]
      [] s = "setstatement" -> [c EXCEPT !.st = "str"]
      [] s = "reset" -> [c EXCEPT !.st = "none", !.tmo = NullTmo, !.mode = FALSE]
      [] s = "setdeferred" -> [c EXCEPT !.mode = v]
      [] OTHER -> [c EXCEPT !.cb = v]

RECURSIVE AnaSetterClosure(_)
AnaSetterClosure(S) ==
    LET T == S \cup UNION {{AnaCmdSet(c, s, v) : v \in AnaSetterArgs(s)} :
                           c \in S, s \in AnaSetters}
    IN  IF T = S THEN S ELSE AnaSetterClosure(T)

(* Every command a sequence of setter calls can build. *)
ApiAnaCmds == AnaSetterClosure({AnaCmdNew})

(* lcb_analytics_query's callback test, then the constructor's: a         *)
(* statement neither string nor null, then a timeout neither string nor   *)
(* null, is EINVAL.                                                        *)
QueryAccepted(c) == c.cb /\ c.st # "num" /\ c.tmo # NonStrTmo

(* The constructor with no timeout: sprintf(buf, "%uus", n1ql_timeout). *)
DefaultTmoStr == [num |-> N1qlTimeout, unit |-> "us"]

(* The units lcb_analyticsreq_parsetmo multiplies, and their            *)
(* microseconds (an operator, so that TLC computes an hour only if used). *)
MulUnits == {"s", "ms", "h", "us", "m"}
UsPer(u) ==
    CASE u = "s" -> 1000000 [] u = "ms" -> 1000 [] u = "h" -> 3600 * 1000000
      [] u = "us" -> 1 [] u = "m" -> 60000000

(* The largest number of each unit whose microseconds fit an lcb_U32,     *)
(* floor((2^32 - 1) / UsPer[u]), so that no value past 2^31 is computed. *)
MaxNum == [s |-> 4294, ms |-> 4294967, h |-> 1, m |-> 71]

(* Converting a double at or past 2^32 to lcb_U32 is undefined: x86-64    *)
(* builds keep the low 32 bits, ARM64 builds saturate.                    *)
(* The two outcomes stand for values past TLC's integers: the low 32     *)
(* bits of the product, and 2^32 - 1.                                     *)
Low32 == -2
Saturated == -3

Overflows(t) == t.unit \in DOMAIN MaxNum /\ t.num > MaxNum[t.unit]

(* parsetmo with the "m" branch copied from "s": minutes read as seconds. *)
ParseTmoMinuteAsSecond(t) ==
    CASE t.num = -1 -> {0}
      [] Overflows(t) -> {Low32, Saturated}
      [] t.unit = "m" -> {t.num * UsPer("s")}
      [] t.unit \in MulUnits -> {t.num * UsPer(t.unit)}
      [] t.unit = "ns" -> {t.num \div 1000}
      [] OTHER -> {0}

(* lcb_analyticsreq_parsetmo: 0 without a leading number or for a unit it *)
(* does not know; otherwise the number times the unit, truncated to       *)
(* lcb_U32 (the set of outcomes of an out-of-range conversion).           *)
ParseTmo(t) ==
    CASE t.num = -1 -> {0}
      [] Overflows(t) -> {Low32, Saturated}
      [] t.unit \in MulUnits -> {t.num * UsPer(t.unit)}
      [] t.unit = "ns" -> {t.num \div 1000}
      [] OTHER -> {0}

(* The body's timeout and req->timeout the constructor leaves. *)
BodyTmo(c) == IF c.tmo = NullTmo THEN DefaultTmoStr ELSE c.tmo
ReqTimeouts(c) == IF c.tmo = NullTmo THEN {N1qlTimeout} ELSE ParseTmo(c.tmo)

-----------------------------------------------------------------------------
(* chunk_callback: an error status sets lasterr, keeping it once set. *)
LastErr(q, rc) == IF rc = "err" THEN "err" ELSE lasterr[q]

(* maybe_retry without the has_retriable_error test: any parsable meta *)
(* asks for a retry.                                                    *)
MaybeRetryAnyError(q, retriable) ==
    IF ~cb[q] \/ nrows[q] > 0 \/ retried[q]
    THEN [res |-> FALSE, was |-> retried[q]]
    ELSE [res |-> TRUE, was |-> TRUE]

(* maybe_retry: no retry once cancelled, once rows were seen or once      *)
(* retried; otherwise it marks the request retried and reports whether    *)
(* the meta holds a retriable error.  Nothing re-issues the request.      *)
MaybeRetry(q, retriable) ==
    IF ~cb[q] \/ nrows[q] > 0 \/ retried[q]
    THEN [res |-> FALSE, was |-> retried[q]]
    ELSE [res |-> retriable, was |-> TRUE]

(* A destructor that delivers no FINAL row. *)
InvokeFinalNone(q, err, m) == out[q]

(* invoke_row without its `if (callback)` test. *)
InvokeFinalAlways(q, err, m) == Append(out[q], [kind |-> "final", rc |-> err, meta |-> m])

(* invoke_row(resp, 1) from the destructor: the FINAL row, rc lasterr and *)
(* the parser's meta (get_postmortem) as its row, reaches the user only   *)
(* while the callback is set.                                              *)
InvokeFinal(q, err, m) ==
    IF cb[q] THEN Append(out[q], [kind |-> "final", rc |-> err, meta |-> m]) ELSE out[q]

(* A destructor that leaves the HTTP request running. *)
DtorHttpKeep(q) == http[q]

(* The destructor: a request still holding htreq cancels it, so that it *)
(* calls back no more.                                                   *)
DtorHttp(q) == IF htreq[q] THEN "cancelled" ELSE http[q]

(* lcb_ANALYTICSREQ's constructor: cmd->handle is set to the request only *)
(* if the field was already non-NULL.                                     *)
HandleOf(k) == k = "query" /\ CmdHandleSet

-----------------------------------------------------------------------------
(* Deferred queries.  The meta row of a FINAL response holds, as JSON,   *)
(* string "status" and "handle" members (hnd), a handle that is the      *)
(* empty string (emptyhnd), or no such members (none).  The server sends *)
(* a handle only to a query asked with "mode": "async" and to a poll.    *)
(* An lcb_ANALYTICSDEFERREDHANDLE is st none | live | freed, its callback *)
(* null, garbage (never set) or set, and whether its handle is empty.    *)
Meta == {"none", "hnd", "emptyhnd"}
NoHnd == [st |-> "none", cb |-> "null", empty |-> TRUE]

ServerMeta(q) == IF kind[q] = "query" /\ ~deferred[q] THEN {"none"} ELSE Metas

(* defhnd_extract without its rc test. *)
ExtractsAnyRc(f) == f.meta \in {"hnd", "emptyhnd"}

(* lcb_analytics_defhnd_extract: a successful FINAL (or EXTDATA) response *)
(* whose non-empty row parses to an object with string status and handle.  *)
Extracts(f) == f.rc = "ok" /\ f.meta \in {"hnd", "emptyhnd"}

(* lcb_analytics_defhnd_poll's test: a callback and a non-empty handle. *)
PollAccepted(h) == h.cb # "null" /\ ~h.empty

-----------------------------------------------------------------------------
Init ==
    /\ phase = [q \in Reqs |-> "new"]
    /\ kind = [q \in Reqs |-> "query"]
    /\ http = [q \in Reqs |-> "none"]
    /\ htreq = [q \in Reqs |-> FALSE]
    /\ cb = [q \in Reqs |-> FALSE]
    /\ handle = [q \in Reqs |-> FALSE]
    /\ lasterr = [q \in Reqs |-> "ok"]
    /\ nrows = [q \in Reqs |-> 0]
    /\ retried = [q \in Reqs |-> FALSE]
    /\ chunks = [q \in Reqs |-> 0]
    /\ out = [q \in Reqs |-> <<>>]
    /\ cancelAt = [q \in Reqs |-> -1]
    /\ tmo = [q \in Reqs |-> 0]
    /\ bodytmo = [q \in Reqs |-> NullTmo]
    /\ deferred = [q \in Reqs |-> FALSE]
    /\ meta = [q \in Reqs |-> "none"]
    /\ hnd = [q \in Reqs |-> NoHnd]
    /\ from = [q \in Reqs |-> {}]
    /\ wild = [q \in Reqs |-> FALSE]

(* The variables a request's submission sets. *)
ReqVars == <<phase, kind, http, htreq, cb, handle, tmo, bodytmo, deferred, from, wild>>
(* The variables of the request's HTTP stream. *)
StreamVars == <<lasterr, nrows, retried, chunks, out, cancelAt, meta>>

(* lcb_analytics_query with command c: the command must pass              *)
(* QueryAccepted; the constructor writes the default timeout into the     *)
(* body if there is none and sets req->timeout to n1ql_timeout or parses  *)
(* the user's string.  A failed test, a constructor error or a failing    *)
(* lcb_http3 goes to GT_DESTROY: the callback is nulled, the request      *)
(* deleted and the error returned, with no callback and no handle.        *)
Submit(q, c, httpok) ==
    /\ phase[q] = "new"
    /\ IF httpok /\ QueryAccepted(c)
       THEN /\ phase' = [phase EXCEPT ![q] = "live"]
            /\ http' = [http EXCEPT ![q] = "open"]
            /\ htreq' = [htreq EXCEPT ![q] = TRUE]
            /\ cb' = [cb EXCEPT ![q] = TRUE]
            /\ handle' = [handle EXCEPT ![q] = HandleOf("query")]
            /\ \E t \in ReqTimeouts(c) : tmo' = [tmo EXCEPT ![q] = t]
            /\ bodytmo' = [bodytmo EXCEPT ![q] = BodyTmo(c)]
            /\ deferred' = [deferred EXCEPT ![q] = c.mode]
       ELSE /\ phase' = [phase EXCEPT ![q] = "rejected"]
            /\ UNCHANGED <<http, htreq, cb, handle, tmo, bodytmo, deferred>>
    /\ UNCHANGED <<kind, from, wild, hnd>>
    /\ UNCHANGED StreamVars

(* lcb_analytics_defhnd_poll with the handle extracted from h, as request *)
(* p: a NULL callback or an empty handle is EINVAL; otherwise the request *)
(* takes the handle's callback and URL and n1ql_timeout, and fails like a *)
(* query through GT_DESTROY when lcb_http3 does.                          *)
DefhndPoll(h, p, httpok) ==
    /\ hnd[h].st = "live"
    /\ phase[p] = "new"
    /\ kind' = [kind EXCEPT ![p] = "poll"]
    /\ from' = [from EXCEPT ![p] = {h}]
    /\ IF PollAccepted(hnd[h]) /\ httpok
       THEN /\ phase' = [phase EXCEPT ![p] = "live"]
            /\ http' = [http EXCEPT ![p] = "open"]
            /\ htreq' = [htreq EXCEPT ![p] = TRUE]
            /\ cb' = [cb EXCEPT ![p] = TRUE]
            /\ wild' = [wild EXCEPT ![p] = hnd[h].cb = "garbage"]
            /\ tmo' = [tmo EXCEPT ![p] = N1qlTimeout]
       ELSE /\ phase' = [phase EXCEPT ![p] = "rejected"]
            /\ UNCHANGED <<http, htreq, cb, wild, tmo>>
    /\ UNCHANGED <<handle, bodytmo, deferred, hnd>>
    /\ UNCHANGED StreamVars

(* The user's callback hands q's FINAL response to                       *)
(* lcb_analytics_defhnd_extract and gets a handle (a NULL result changes  *)
(* nothing).  The handle's constructor sets status and handle only: its  *)
(* callback member is read uninitialised until defhnd_setcallback.       *)
DefhndExtract(q) ==
    /\ HasFinal(q)
    /\ hnd[q].st = "none"
    /\ LET f == out[q][Len(out[q])] IN
       /\ Extracts(f)
       /\ \E c0 \in HndCbInit :
             hnd' = [hnd EXCEPT ![q] = [st |-> "live", cb |-> c0, empty |-> f.meta = "emptyhnd"]]
    /\ UNCHANGED ReqVars
    /\ UNCHANGED StreamVars

(* lcb_analytics_defhnd_setcallback on a live handle. *)
DefhndSetCallback(q) ==
    /\ hnd[q].st = "live"
    /\ hnd' = [hnd EXCEPT ![q].cb = "set"]
    /\ UNCHANGED ReqVars
    /\ UNCHANGED StreamVars

(* lcb_analytics_defhnd_free: the handle is deleted; polls made with it  *)
(* keep their own copy of the URL and callback.                           *)
DefhndFree(q) ==
    /\ hnd[q].st = "live"
    /\ hnd' = [hnd EXCEPT ![q].st = "freed"]
    /\ UNCHANGED ReqVars
    /\ UNCHANGED StreamVars

(* lcb_analytics_cancel through the handle, before any FINAL callback.   *)
Cancel(q) ==
    /\ handle[q]
    /\ cancelAt[q] = -1
    /\ ~HasFinal(q)
    /\ cancelAt' = [cancelAt EXCEPT ![q] = Len(out[q])]
    /\ cb' = [cb EXCEPT ![q] = FALSE]
    /\ UNCHANGED <<phase, kind, http, htreq, handle, lasterr, nrows, retried,
                   chunks, out, tmo, bodytmo, deferred, meta, hnd, from, wild>>

(* chunk_callback, a body chunk: after a cancel the request is deleted    *)
(* and its destructor cancels the HTTP request; otherwise the body is fed *)
(* to the parser, whose rows reach the user and whose errors set lasterr. *)
ChunkBody(q, rc, body) ==
    LET err == LastErr(q, rc) IN
    /\ http[q] = "open"
    /\ chunks[q] < MaxChunks
    /\ chunks' = [chunks EXCEPT ![q] = @ + 1]
    /\ IF ~cb[q]
       THEN /\ phase' = [phase EXCEPT ![q] = "deleted"]
            /\ http' = [http EXCEPT ![q] = DtorHttp(q)]
            /\ htreq' = [htreq EXCEPT ![q] = FALSE]
            /\ lasterr' = [lasterr EXCEPT ![q] = err]
            /\ out' = [out EXCEPT ![q] = InvokeFinal(q, err, "none")]
            /\ UNCHANGED nrows
       ELSE /\ lasterr' = [lasterr EXCEPT ![q] =
                              IF body = "garbage" THEN "err" ELSE err]
            /\ nrows' = [nrows EXCEPT ![q] = IF body = "row" THEN @ + 1 ELSE @]
            /\ out' = [out EXCEPT ![q] =
                          IF body = "row" THEN Append(@, [kind |-> "row", rc |-> "ok", meta |-> "none"])
                                          ELSE @]
            /\ UNCHANGED <<phase, http, htreq>>
    /\ UNCHANGED <<kind, cb, handle, retried, cancelAt, tmo, bodytmo, deferred, meta, hnd, from, wild>>

(* chunk_callback, the FINAL chunk (a response end, an error or the      *)
(* HTTP timeout) with meta row m: htreq is cleared and, unless           *)
(* maybe_retry says retry, the request is deleted and its destructor     *)
(* delivers the FINAL row.                                                *)
ChunkFinal(q, rc, retriable, m) ==
    LET err == LastErr(q, rc)
        mr == MaybeRetry(q, retriable)
    IN
    /\ http[q] = "open"
    /\ m \in ServerMeta(q)
    /\ http' = [http EXCEPT ![q] = "done"]
    /\ htreq' = [htreq EXCEPT ![q] = FALSE]
    /\ lasterr' = [lasterr EXCEPT ![q] = err]
    /\ retried' = [retried EXCEPT ![q] = mr.was]
    /\ meta' = [meta EXCEPT ![q] = m]
    /\ IF mr.res
       THEN UNCHANGED <<phase, cb, out>>
       ELSE /\ phase' = [phase EXCEPT ![q] = "deleted"]
            /\ out' = [out EXCEPT ![q] = InvokeFinal(q, err, m)]
            /\ cb' = [cb EXCEPT ![q] = FALSE]
    /\ UNCHANGED <<kind, handle, nrows, chunks, cancelAt, tmo, bodytmo, deferred, hnd, from, wild>>

(* Every request has been rejected or deleted: nothing is left to run. *)
Finished ==
    /\ \A q \in Reqs : phase[q] \in {"rejected", "deleted"}
    /\ UNCHANGED vars

Next ==
    \/ \E q \in Reqs, c \in AnaCmds, ok \in BOOLEAN : Submit(q, c, ok)
    \/ \E h, p \in Reqs, ok \in BOOLEAN : DefhndPoll(h, p, ok)
    \/ \E q \in Reqs : DefhndExtract(q) \/ DefhndSetCallback(q) \/ DefhndFree(q)
    \/ \E q \in Reqs : Cancel(q)
    \/ \E q \in Reqs, rc \in Status, b \in Bodies : ChunkBody(q, rc, b)
    \/ \E q \in Reqs, rc \in Status, rt \in Retriable, m \in Meta : ChunkFinal(q, rc, rt, m)
    \/ Finished

(* The HTTP request ends with a FINAL chunk: the server's answer, a      *)
(* network error or the timeout passed in htcmd.cas.                      *)
Fairness ==
    \A q \in Reqs : WF_vars(\E rc \in Status, rt \in Retriable, m \in Meta :
                                ChunkFinal(q, rc, rt, m))

Spec == Init /\ [][Next]_vars /\ Fairness

-----------------------------------------------------------------------------
(* chunk_callback never runs on a deleted request: while the HTTP request *)
(* can still call back, the ANALYTICSREQ it points at is alive, and its   *)
(* htreq field names it until the FINAL chunk arrives.                    *)
NoCallbackIntoDeleted ==
    \A q \in Reqs :
        http[q] = "open" => phase[q] = "live" /\ htreq[q]

(* The user hears FINAL at most once and nothing after it, and nothing at *)
(* all after lcb_analytics_cancel.                                         *)
FinalLastSilentAfterCancel ==
    \A q \in Reqs :
        /\ \A i \in 1 .. Len(out[q]) : out[q][i].kind = "final" => i = Len(out[q])
        /\ cancelAt[q] >= 0 => Len(out[q]) = cancelAt[q]

(* A handle the user may still use (no FINAL seen, no cancel made) points *)
(* at a live request: lcb_analytics_cancel never writes to freed memory.  *)
HandleValid ==
    \A q \in Reqs :
        handle[q] /\ cancelAt[q] = -1 /\ ~HasFinal(q) => phase[q] = "live"

(* A successful lcb_analytics_query leaves the request's handle with the  *)
(* user (lcb_analytics_gethandle), so that it can be cancelled.           *)
QueryHandleIssued ==
    \A q \in Reqs : phase[q] = "live" /\ kind[q] = "query" => handle[q]

(* The timeout's meaning in microseconds, the unit the spec gives         *)
(* timeouts in, one unit step at a time.                                  *)
RECURSIVE RefUs(_, _)
RefUs(n, u) ==
    CASE u = "h" -> RefUs(60 * n, "m")
      [] u = "m" -> RefUs(60 * n, "s")
      [] u = "s" -> RefUs(1000 * n, "ms")
      [] u = "ms" -> RefUs(1000 * n, "us")
      [] u = "us" -> n
      [] u = "ns" -> n \div 1000

(* The client enforces the timeout the server is sent: for every live     *)
(* query whose body timeout has a number and a unit parsetmo knows, and  *)
(* fits an lcb_U32, req->timeout (htcmd.cas) is that many microseconds.  *)
(* It covers both the default the constructor writes with "%uus" and the *)
(* user's strings read by lcb_analyticsreq_parsetmo.                      *)
TimeoutMatchesBody ==
    \A q \in Reqs :
        phase[q] = "live" /\ kind[q] = "query" =>
            LET t == bodytmo[q] IN
            t.num # -1 /\ t.unit # "x" /\ ~Overflows(t) =>
                tmo[q] = RefUs(t.num, t.unit)

(* A deferred poll goes out only with a non-empty handle that           *)
(* lcb_analytics_defhnd_extract took from the successful FINAL response  *)
(* of an earlier query or poll: a failed request's meta, or a handle that *)
(* is the empty string, never becomes the URL of an HTTP request.         *)
PollFromDeferredResult ==
    \A p \in Reqs :
        kind[p] = "poll" /\ phase[p] \in {"live", "deleted"} =>
            \E h \in from[p] :
                /\ HasFinal(h)
                /\ out[h][Len(out[h])].rc = "ok"
                /\ out[h][Len(out[h])].meta = "hnd"

(* The request's state as the abstract AnalyticsStream sees it: a       *)
(* delivered FINAL closes it, a cancel silences it, and a request that is *)
(* alive, or deleted with neither, is open.                                *)
AbsState(q) ==
    CASE phase[q] = "new" -> "idle"
      [] phase[q] = "rejected" -> "refused"
      [] HasFinal(q) -> "done"
      [] cancelAt[q] >= 0 -> "cancelled"
      [] OTHER -> "open"

(* The user's callbacks without the meta row, which the abstract stream  *)
(* does not interpret.                                                     *)
AbsOut(q) == [i \in 1 .. Len(out[q]) |-> [kind |-> out[q][i].kind, rc |-> out[q][i].rc]]

Stream == INSTANCE AnalyticsStream
              WITH state <- [q \in Reqs |-> AbsState(q)],
                   out <- [q \in Reqs |-> AbsOut(q)]

(* Every behaviour of the request lifecycle, with cancel, retry, and      *)
(* deferred polls, is one the abstract stream allows: rows, then one      *)
(* FINAL with the request's status, nothing after a cancel, and every     *)
(* accepted request ends.                                                 *)
RefinesAnalyticsStream == Stream!Spec

(* Every accepted request is eventually deleted, and the user has then   *)
(* received its FINAL callback unless they cancelled it.                  *)
Released ==
    \A q \in Reqs :
        phase[q] = "live" ~>
            phase[q] = "deleted" /\ (HasFinal(q) \/ cancelAt[q] >= 0)

=============================================================================
