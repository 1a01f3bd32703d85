--------------------------- MODULE AnalyticsStream ---------------------------
(***************************************************************************)
(* What an analytics request (a query or a deferred poll) promises its    *)
(* caller (spec sections 4 and 5, "Cancellation"): the call is refused    *)
(* synchronously, or it is accepted and the callback then receives rows   *)
(* and, last, one FINAL response carrying the request's status, unless    *)
(* the caller cancels it first, after which no callback fires at all.     *)
(* An accepted request does not stay open forever.                         *)
(***************************************************************************)
EXTENDS Sequences

CONSTANTS
    Reqs,      \* user requests
    Status     \* the status a FINAL response can carry

VARIABLES
    state,     \* per request: idle | refused | open | cancelled | done
    out        \* per request: the callbacks delivered so far

vars == <<state, out>>

Init ==
    /\ state = [q \in Reqs |-> "idle"]
    /\ out = [q \in Reqs |-> <<>>]

Submit(q) ==
    /\ state[q] = "idle"
    /\ \E s \in {"refused", "open"} : state' = [state EXCEPT ![q] = s]
    /\ UNCHANGED out

Row(q) ==
    /\ state[q] = "open"
    /\ out' = [out EXCEPT ![q] = Append(@, [kind |-> "row", rc |-> "ok"])]
    /\ UNCHANGED state

Final(q, rc) ==
    /\ state[q] = "open"
    /\ out' = [out EXCEPT ![q] = Append(@, [kind |-> "final", rc |-> rc])]
    /\ state' = [state EXCEPT ![q] = "done"]

Cancel(q) ==
    /\ state[q] = "open"
    /\ state' = [state EXCEPT ![q] = "cancelled"]
    /\ UNCHANGED out

Next ==
    \E q \in Reqs :
        \/ Submit(q) \/ Row(q) \/ Cancel(q)
        \/ \E rc \in Status : Final(q, rc)

(* An open request ends: FINAL arrives unless a cancel comes first. *)
Spec == Init /\ [][Next]_vars /\ \A q \in Reqs : WF_vars(\E rc \in Status : Final(q, rc))

=============================================================================
