----------------------------- MODULE MC_KvSubmit -----------------------------
(* Three calls of any kind on the default and one named collection, with *)
(* collections enabled, starting with or without a cluster map.  Stores  *)
(* pass a plain upsert, an append of a value already compressed, an      *)
(* append with an expiry, a prepend with flags, a JSON upsert with a     *)
(* synchronous durability level, or an operation value                  *)
(* lcb_STORE_OPERATION does not define.  The cluster supports            *)
(* synchronous replication and compression is allowed outbound.  Each   *)
(* command is one the lcb_cmdstore setters build.  Gets are plain,      *)
(* touching, or locking and touching.                                    *)
EXTENDS KvSubmit

Plain == [op |-> "upsert", exptime |-> FALSE, flags |-> FALSE, cas |-> FALSE,
          emptykey |-> FALSE, durmode |-> "none", level |-> FALSE, datatype |-> {}]

MCStoreCmds ==
    { Plain,
      [Plain EXCEPT !.op = "append", !.datatype = {"snappy"}],
      [Plain EXCEPT !.op = "append", !.exptime = TRUE],
      [Plain EXCEPT !.op = "prepend", !.flags = TRUE],
      [Plain EXCEPT !.durmode = "sync", !.level = TRUE, !.datatype = {"json"}],
      [Plain EXCEPT !.op = "invalid"] }

(* Named collections get ids from 8 up, the first the server assigns. *)
MCCollId == [c \in Colls |-> IF c = Default THEN 0 ELSE 8]

MCGetCmds == {NoGetCmd, [NoGetCmd EXCEPT !.touch = TRUE], [lock |-> TRUE, touch |-> TRUE]}

ASSUME MCStoreCmds \subseteq ApiStoreCmds
=============================================================================
