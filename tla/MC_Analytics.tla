---------------------------- MODULE MC_Analytics ----------------------------
(* Two concurrent analytics requests, each streaming up to two body      *)
(* chunks before its FINAL chunk.  Queries are built with a statement and *)
(* no timeout, a timeout in seconds, minutes or nanoseconds, one of two  *)
(* hours that overflows lcb_U32, one with a unit parsetmo does not know, *)
(* one with no number, or with no callback, a statement that is not a    *)
(* string, or a timeout that is not a string.                              *)
EXTENDS Analytics

MCN1qlTimeout == 75000000

MCTmoVals ==
    { [num |-> 75, unit |-> "s"], [num |-> 2, unit |-> "m"],
      [num |-> 1500, unit |-> "ns"], [num |-> 2, unit |-> "h"],
      [num |-> 10, unit |-> "x"], [num |-> -1, unit |-> "s"] }

Good == [st |-> "str", tmo |-> NullTmo, mode |-> FALSE, cb |-> TRUE]

MCAnaCmds ==
    {Good} \cup {[Good EXCEPT !.tmo = t] : t \in MCTmoVals}
      \cup {[Good EXCEPT !.cb = FALSE], [Good EXCEPT !.st = "num"],
            [Good EXCEPT !.tmo = NonStrTmo], [Good EXCEPT !.mode = TRUE]}

ASSUME MCTmoVals \subseteq TmoStr
ASSUME MCAnaCmds \subseteq ApiAnaCmds
\* Every timeout that fits an lcb_U32 also fits TLC's integers.
ASSUME \A t \in MCTmoVals :
    t.num = -1 \/ Overflows(t) \/ t.unit \notin MulUnits \/ t.num = 0
      \/ (t.unit # "h" /\ t.num <= 2147483647 \div UsPer(t.unit))
=============================================================================
