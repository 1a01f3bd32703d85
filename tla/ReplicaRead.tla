----------------------------- MODULE ReplicaRead -----------------------------
(***************************************************************************)
(* What a replica read promises its caller (spec section 4.7), whatever   *)
(* the strategy: the call is rejected synchronously, or it is accepted and *)
(* then either discarded by lcb_sched_fail before anything is sent, or    *)
(* answered by at most MaxResponses callbacks of which exactly the last   *)
(* carries FINAL.                                                          *)
(***************************************************************************)
EXTENDS Integers, Sequences

CONSTANTS
    Reqs,          \* user requests
    Outcomes,      \* the status a callback can carry
    MaxResponses   \* callbacks one request may receive (one per replica)

VARIABLES
    state,         \* per request: new | rejected | open | closed
    out            \* per request: the callbacks delivered so far

Init ==
    /\ state = [r \in Reqs |-> "new"]
    /\ out = [r \in Reqs |-> <<>>]

Accept(r) ==
    /\ state[r] = "new"
    /\ state' \in {[state EXCEPT ![r] = "rejected"], [state EXCEPT ![r] = "open"]}
    /\ UNCHANGED out

(* A callback before the last one. *)
Reply(r, o) ==
    /\ state[r] = "open"
    /\ Len(out[r]) + 1 < MaxResponses
    /\ out' = [out EXCEPT ![r] = Append(@, [rc |-> o, final |-> FALSE])]
    /\ UNCHANGED state

(* The last callback. *)
Finish(r, o) ==
    /\ state[r] = "open"
    /\ Len(out[r]) < MaxResponses
    /\ out' = [out EXCEPT ![r] = Append(@, [rc |-> o, final |-> TRUE])]
    /\ state' = [state EXCEPT ![r] = "closed"]

(* A batch of accepted requests that never reached the wire is dropped. *)
Discard(S) ==
    /\ S # {}
    /\ \A r \in S : state[r] = "open" /\ out[r] = <<>>
    /\ state' = [r \in Reqs |-> IF r \in S THEN "closed" ELSE state[r]]
    /\ UNCHANGED out

Next ==
    \/ \E r \in Reqs : Accept(r)
    \/ \E r \in Reqs, o \in Outcomes : Reply(r, o) \/ Finish(r, o)
    \/ \E S \in SUBSET Reqs : Discard(S)

Spec == Init /\ [][Next]_<<state, out>>

=============================================================================
