------------------------------- MODULE Proxy -------------------------------
(***************************************************************************)
(* cbc-proxy (src/tools/cbc-proxy.cc): client connections whose memcached *)
(* binary requests are forwarded to the cluster with lcb_pktfwd3, except  *)
(* VERSION, answered by the proxy itself, and STAT requests whose key     *)
(* starts with "query " or "search ", sent to the query or search service.*)
(*                                                                         *)
(* Each client sends the requests of its script.  The bytes reach the     *)
(* proxy in reads of any size; libevent calls conn_readcb once per read,  *)
(* and conn_readcb handles at most one complete packet, leaving the rest  *)
(* in the input buffer.  A request is a kind, not bytes: framing is       *)
(* abstracted to "the buffer holds a complete packet".                    *)
(***************************************************************************)
EXTENDS Integers, Sequences, FiniteSets

CONSTANTS
    Clients,      \* client connections
    Script,       \* Script[c]: the request kinds client c sends, in order
    MaxPerRead,   \* bound on the packets one read completes
    MaxRows       \* bound on the rows of a query or search

\* Request kinds: VERSION; a STAT keyed "query ..." or "search ..."; a STAT
\* keyed exactly "search" whose value starts with a space; any other STAT;
\* any other opcode.
Kinds == {"version", "query", "search", "search6", "stat", "kv"}

ASSUME \A c \in Clients : Script[c] \in Seq(Kinds)
ASSUME MaxPerRead \in Nat \ {0}

Req(c) == 1 .. Len(Script[c])

VARIABLES
    up,         \* the proxy process is running (not ended by exit)
    listening,  \* bootstrap_callback has set up the listener
    accepted,   \* clients listener_cb has accepted
    open,       \* per client: the struct client is alive (accepted, no EOF/ERROR yet)
    arrived,    \* per client: requests whose bytes have all arrived
    partial,    \* per client: some bytes of the next request have arrived
    handled,    \* per client: requests conn_readcb took out of the buffer
    ctxenter,   \* the instance's lcb_sched_enter batch is open
    inflight,   \* <<c, i>> forwarded with lcb_pktfwd3, not yet answered
    http,       \* <<c, i>> query or search requests running
    rows,       \* per <<c, i>>: rows written for a query or search
    resp,       \* per client and request: final responses written
    uaf,        \* a callback dereferenced a deleted struct client
    overread    \* a search payload was read with length keylen - 7 < 0

vars == <<up, listening, accepted, open, arrived, partial, handled, ctxenter, inflight, http,
          rows, resp, uaf, overread>>

ReqIds == UNION {{<<c, i>> : i \in Req(c)} : c \in Clients}

-----------------------------------------------------------------------------
(* A buffer check that also waits when the packet exactly fills the      *)
(* buffer (len <= pktlen).                                               *)
HasPacketStrict(h, n, p) == h < n /\ (h + 1 < n \/ p)

(* conn_readcb's framing, for a buffer that holds requests h+1 .. n in   *)
(* full and, if p, part of the next: it goes on only when the buffer     *)
(* holds a whole header (len >= 24) and the whole packet (len >= 24 +    *)
(* bodylen) of request h+1.                                               *)
HasPacket(h, n, p) == h < n

(* The switch that falls through to FWD after a query or search was      *)
(* scheduled (the `goto DONE` missing).                                   *)
RouteFallthrough(k, ok) ==
    CASE k = "version"                    -> {"self"}
      [] k \in {"query", "search", "search6"} /\ ok -> {"http", "fwd"}
      [] OTHER                            -> {"fwd"}

(* conn_readcb's switch: VERSION is answered at once; a STAT whose key   *)
(* matches "query " or "search " (memcmp of 7 bytes, which a 6-byte key   *)
(* "search" followed by a space matches) goes to lcb_query / lcb_search, *)
(* and back to FWD if that fails; everything else is forwarded.          *)
Route(k, ok) ==
    CASE k = "version"                    -> {"self"}
      [] k \in {"query", "search", "search6"} /\ ok -> {"http"}
      [] OTHER                            -> {"fwd"}

(* A callback whose cookie is the struct client writes into cl->bev:    *)
(* through freed memory once conn_eventcb deleted the client.             *)
Deref(c) == uaf \/ ~open[c]

-----------------------------------------------------------------------------
Init ==
    /\ up = TRUE
    /\ listening = FALSE
    /\ accepted = {}
    /\ open = [c \in Clients |-> FALSE]
    /\ arrived = [c \in Clients |-> 0]
    /\ partial = [c \in Clients |-> FALSE]
    /\ handled = [c \in Clients |-> 0]
    /\ ctxenter = FALSE
    /\ inflight = {}
    /\ http = {}
    /\ rows = [r \in ReqIds |-> 0]
    /\ resp = [c \in Clients |-> [i \in Req(c) |-> 0]]
    /\ uaf = FALSE
    /\ overread = FALSE

(* One read of the client's socket, which completes k more requests and  *)
(* may leave the next one partial, followed by conn_readcb: it takes one  *)
(* complete packet out of the buffer, opens a batch (lcb_sched_enter) and *)
(* routes it.  The VERSION case writes its answer and returns with the    *)
(* batch still open; every other case ends at DONE with lcb_sched_leave. *)
(* `ok` is whether lcb_query / lcb_search accepted the command.           *)
Read(c, k, frag, ok) ==
    LET a == arrived[c] + k
        i == handled[c] + 1
        kd == Script[c][i]
        dest == Route(kd, ok)
    IN
    /\ up /\ open[c]
    /\ a + (IF frag THEN 1 ELSE 0) <= Len(Script[c])
    /\ k > 0 \/ (frag /\ ~partial[c])
    /\ arrived' = [arrived EXCEPT ![c] = a]
    /\ partial' = [partial EXCEPT ![c] = frag]
    /\ IF HasPacket(handled[c], a, frag)
       THEN /\ handled' = [handled EXCEPT ![c] = i]
            /\ ctxenter' = ("self" \in dest)
            /\ inflight' = IF "fwd" \in dest THEN inflight \cup {<<c, i>>} ELSE inflight
            /\ http' = IF "http" \in dest THEN http \cup {<<c, i>>} ELSE http
            /\ resp' = IF "self" \in dest THEN [resp EXCEPT ![c][i] = @ + 1] ELSE resp
            /\ overread' = (overread \/ kd = "search6")
       ELSE UNCHANGED <<handled, ctxenter, inflight, http, resp, overread>>
    /\ UNCHANGED <<up, listening, accepted, open, rows, uaf>>

(* The cluster's answer to a forwarded packet reaches pktfwd_callback:   *)
(* an error (a timeout or a failed connection) ends the process through  *)
(* good_or_die; a response is copied to the client's output buffer.      *)
PktFwdCallback(c, i, ok) ==
    /\ up
    /\ <<c, i>> \in inflight
    /\ IF ok
       THEN /\ inflight' = inflight \ {<<c, i>>}
            /\ resp' = [resp EXCEPT ![c][i] = @ + 1]
            /\ uaf' = Deref(c)
            /\ UNCHANGED up
       ELSE /\ up' = FALSE
            /\ UNCHANGED <<inflight, resp, uaf>>
    /\ UNCHANGED <<listening, accepted, open, arrived, partial, handled, ctxenter, http,
                   rows, overread>>

(* n1ql_callback / fts_callback for a row: a STAT response keyed row-N. *)
RowCallback(c, i) ==
    /\ up
    /\ <<c, i>> \in http
    /\ rows[<<c, i>>] < MaxRows
    /\ rows' = [rows EXCEPT ![<<c, i>>] = @ + 1]
    /\ uaf' = Deref(c)
    /\ UNCHANGED <<up, listening, accepted, open, arrived, partial, handled, ctxenter, inflight,
                   http, resp, overread>>

(* n1ql_callback / fts_callback for the final response (the meta row and *)
(* the empty terminating STAT response); the query timeout is 400 ms.    *)
FinalCallback(c, i) ==
    /\ up
    /\ <<c, i>> \in http
    /\ http' = http \ {<<c, i>>}
    /\ resp' = [resp EXCEPT ![c][i] = @ + 1]
    /\ uaf' = Deref(c)
    /\ UNCHANGED <<up, listening, accepted, open, arrived, partial, handled, ctxenter, inflight,
                   rows, overread>>

(* conn_eventcb with BEV_EVENT_EOF or BEV_EVENT_ERROR: the bufferevent    *)
(* is freed and the struct client deleted, whatever is still running on  *)
(* its behalf.                                                            *)
ConnEvent(c) ==
    /\ up /\ open[c]
    /\ open' = [open EXCEPT ![c] = FALSE]
    /\ UNCHANGED <<up, listening, accepted, arrived, partial, handled, ctxenter, inflight, http,
                   rows, resp, uaf, overread>>

(* real_main creates the instance and calls lcb_connect; bootstrap_callback *)
(* then calls good_or_die on the result and setup_listener, which dies if  *)
(* the listener cannot be bound.  Any failure on the way ends the process. *)
Bootstrap(res) ==
    /\ up /\ ~listening
    /\ IF res = "ok" THEN listening' = TRUE /\ UNCHANGED up
                     ELSE up' = FALSE /\ UNCHANGED listening
    /\ UNCHANGED <<accepted, open, arrived, partial, handled, ctxenter, inflight, http,
                   rows, resp, uaf, overread>>

(* listener_cb: a client connects; its bufferevent gets conn_readcb and   *)
(* conn_eventcb with the new struct client as their cookie.  A client     *)
(* connects once (a reconnect is another client).                         *)
Accept(c) ==
    /\ up /\ listening
    /\ c \notin accepted
    /\ accepted' = accepted \cup {c}
    /\ open' = [open EXCEPT ![c] = TRUE]
    /\ UNCHANGED <<up, listening, arrived, partial, handled, ctxenter, inflight, http,
                   rows, resp, uaf, overread>>

(* SIGINT: sigint_handler breaks the event loop, real_main returns and   *)
(* the process exits (the atexit cleanup destroys the instance).          *)
SigInt ==
    /\ up
    /\ up' = FALSE
    /\ UNCHANGED <<listening, accepted, open, arrived, partial, handled, ctxenter, inflight,
                   http, rows, resp, uaf, overread>>

(* Nothing is left to run: the process ended, or every client has        *)
(* closed or sent everything and every request has been answered.        *)
Finished ==
    /\ ~up \/ (inflight = {} /\ http = {} /\
               \A c \in Clients : ~open[c] \/ (arrived[c] = Len(Script[c]) /\ ~partial[c]))
    /\ UNCHANGED vars

Next ==
    \/ \E c \in Clients, k \in 0 .. MaxPerRead, frag, ok \in BOOLEAN : Read(c, k, frag, ok)
    \/ \E <<c, i>> \in ReqIds, ok \in BOOLEAN : PktFwdCallback(c, i, ok)
    \/ \E <<c, i>> \in ReqIds : RowCallback(c, i)
    \/ \E <<c, i>> \in ReqIds : FinalCallback(c, i)
    \/ \E c \in Clients : ConnEvent(c)
    \/ \E res \in {"ok", "bootfail", "listenfail"} : Bootstrap(res)
    \/ \E c \in Clients : Accept(c)
    \/ SigInt
    \/ Finished

(* Bootstrap ends, in success or at its timeout; a connected client goes *)
(* on sending its script; the cluster answers                            *)
(* every forwarded packet (or it times out); a query or search ends      *)
(* within its 400 ms timeout.                                            *)
Fairness ==
    /\ WF_vars(\E res \in {"ok", "bootfail", "listenfail"} : Bootstrap(res))
    /\ \A c \in Clients :
         WF_vars(\E k \in 0 .. MaxPerRead, frag, ok \in BOOLEAN : Read(c, k, frag, ok))
    /\ \A r \in ReqIds : WF_vars(\E ok \in BOOLEAN : PktFwdCallback(r[1], r[2], ok))
    /\ \A r \in ReqIds : WF_vars(FinalCallback(r[1], r[2]))

Spec == Init /\ [][Next]_vars /\ Fairness

-----------------------------------------------------------------------------
(* Every request is in exactly one place: still in the input buffer (not *)
(* yet handled, and then only once all its bytes arrived), forwarded to  *)
(* the cluster, at the query or search service, or answered, and it is  *)
(* answered at most once.  This is what conn_readcb's framing and its    *)
(* switch, with its gotos to FWD and DONE, must keep.                    *)
RequestAccounting ==
    \A c \in Clients :
        /\ handled[c] <= arrived[c]
        /\ \A i \in Req(c) :
              LET places == (IF <<c, i>> \in inflight THEN 1 ELSE 0)
                            + (IF <<c, i>> \in http THEN 1 ELSE 0) + resp[c][i]
              IN  IF i <= handled[c] THEN places = 1 ELSE places = 0

(* Every request whose bytes have arrived is answered, unless the client *)
(* disconnected or the proxy exited: conn_readcb must not leave complete *)
(* packets behind in the input buffer.                                   *)
Served ==
    \A <<c, i>> \in ReqIds :
        arrived[c] >= i ~> (resp[c][i] = 1 \/ ~open[c] \/ ~up)

(* No callback (pktfwd_callback, n1ql_callback, fts_callback) runs with  *)
(* a cookie that conn_eventcb has already deleted.                       *)
NoCallbackIntoFreedClient == ~uaf

(* lcb_cmdsearch_payload is only given bytes of the request's key. *)
SearchPayloadInBounds == ~overread

=============================================================================
