------------------------------ MODULE MC_Proxy ------------------------------
(* Two clients: one asks VERSION, runs a query and sends a KV request;   *)
(* the other sends a plain STAT and a search.                            *)
EXTENDS Proxy

MCScript == [c \in Clients |->
                IF c = "a" THEN <<"version", "query", "kv">> ELSE <<"stat", "search">>]

(* One client whose key "search" is followed by a space in the value. *)
MCScriptSearch6 == [c \in Clients |-> <<"search6">>]
=============================================================================
