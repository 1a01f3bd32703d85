----------------------------- MODULE StoreCodec -----------------------------
(***************************************************************************)
(* The pure parts of lcb_store (src/src/operations/store.cc): the command *)
(* validation, the commands the setters can build, and the header of a  *)
(* store packet, next to the rules the specification states for them    *)
(* (sections 4.7 and 8).  KvSubmit uses the code's operators, and its run checks that they  *)
(* agree with the rules on the commands users pass.                       *)
(***************************************************************************)
EXTENDS Naturals

StoreOps == {"upsert", "insert", "replace", "append", "prepend", "invalid"}

(* A store command, reduced to the fields these operators read: the      *)
(* operation, whether exptime, flags and cas are non-zero, whether the   *)
(* key is empty, the durability mode, whether a durability level is set, *)
(* and the datatype bits the user gave the value (JSON, SNAPPY).          *)
StoreCmd == [op : StoreOps, exptime : BOOLEAN, flags : BOOLEAN, cas : BOOLEAN,
             emptykey : BOOLEAN, durmode : {"none", "sync", "poll"}, level : BOOLEAN,
             datatype : SUBSET {"json", "snappy"}]

(* The command lcb_cmdstore_create returns: calloc'd, so no key, no      *)
(* expiry, flags or cas, and durability mode NONE (0).                   *)
CmdStoreCreate(op) ==
    [op |-> op, exptime |-> FALSE, flags |-> FALSE, cas |-> FALSE,
     emptykey |-> TRUE, durmode |-> "none", level |-> FALSE, datatype |-> {}]

\* The setters that write a field StoreCmd keeps.  The others (timeout,
\* parent_span, collection, value, value_iov) leave them alone.
Setters == {"key", "expiry", "cas", "flags", "datatype", "durability", "durability_observe"}

\* The arguments of a setter: zero (FALSE) or non-zero (TRUE), for key an
\* empty or non-empty key, for datatype any set of bits.
SetterArgs(s) == IF s = "datatype" THEN SUBSET {"json", "snappy"} ELSE BOOLEAN

(* One lcb_cmdstore_* setter call with argument v.  lcb_cmdstore_cas refuses *)
(* upsert and insert with INVALID_ARGUMENT and leaves the command as it  *)
(* was; lcb_cmdstore_durability and _durability_observe each switch the  *)
(* durability mode.                                                       *)
CmdStoreSet(cmd, s, v) ==
    CASE s = "key"        -> [cmd EXCEPT !.emptykey = ~v]
      [] s = "expiry"     -> [cmd EXCEPT !.exptime = v]
      [] s = "cas"        -> IF cmd.op \in {"upsert", "insert"} THEN cmd
                             ELSE [cmd EXCEPT !.cas = v]
      [] s = "flags"      -> [cmd EXCEPT !.flags = v]
      [] s = "datatype"   -> [cmd EXCEPT !.datatype = v]
      [] s = "durability" -> [cmd EXCEPT !.durmode = "sync", !.level = v]
      [] OTHER            -> [cmd EXCEPT !.durmode = "poll"]

(* The commands reachable from S by any sequence of setter calls: S     *)
(* grown one call at a time until nothing new appears.                  *)
RECURSIVE SetterClosure(_)
SetterClosure(S) ==
    LET T == S \cup UNION {{CmdStoreSet(c, s, v) : v \in SetterArgs(s)} : c \in S, s \in Setters}
    IN  IF T = S THEN S ELSE SetterClosure(T)

(* Every command a user can build and pass to lcb_store.  The operation  *)
(* is any lcb_STORE_OPERATION value, "invalid" standing for one outside   *)
(* the enumeration, which C lets a caller pass.                          *)
ApiStoreCmds == SetterClosure({CmdStoreCreate(op) : op \in StoreOps})

(* A store_validate that checks append's options and forgets prepend's. *)
StoreValidateNoPrependCheck(cmd, collok, syncok) ==
    CASE ~collok                                  -> "INVALID_ARGUMENT"
      [] cmd.emptykey                              -> "EMPTY_KEY"
      [] cmd.durmode = "sync" /\ cmd.level /\ ~syncok -> "UNSUPPORTED_OPERATION"
      [] cmd.op = "append" /\ (cmd.exptime \/ cmd.flags) -> "OPTIONS_CONFLICT"
      [] cmd.op = "insert" /\ cmd.cas               -> "OPTIONS_CONFLICT"
      [] OTHER                                     -> "SUCCESS"

(* store_validate: the collection check (lcb_is_collection_valid, given  *)
(* as collok), the empty key, a durability level the cluster cannot do   *)
(* synchronously (syncok is LCBT_SUPPORT_SYNCREPLICATION), then the       *)
(* option conflicts of append/prepend and insert, in that order.          *)
StoreValidate(cmd, collok, syncok) ==
    CASE ~collok                                  -> "INVALID_ARGUMENT"
      [] cmd.emptykey                              -> "EMPTY_KEY"
      [] cmd.durmode = "sync" /\ cmd.level /\ ~syncok -> "UNSUPPORTED_OPERATION"
      [] cmd.op \in {"append", "prepend"} /\ (cmd.exptime \/ cmd.flags) -> "OPTIONS_CONFLICT"
      [] cmd.op = "insert" /\ cmd.cas               -> "OPTIONS_CONFLICT"
      [] OTHER                                     -> "SUCCESS"

(* get_esize_and_opcode: the opcode and extras length of each operation, *)
(* INVALID_ARGUMENT for any other value of lcb_STORE_OPERATION.           *)
GetEsizeAndOpcode(op) ==
    CASE op = "upsert"  -> [rc |-> "SUCCESS", opcode |-> "SET", esize |-> 8]
      [] op = "insert"  -> [rc |-> "SUCCESS", opcode |-> "ADD", esize |-> 8]
      [] op = "replace" -> [rc |-> "SUCCESS", opcode |-> "REPLACE", esize |-> 8]
      [] op = "append"  -> [rc |-> "SUCCESS", opcode |-> "APPEND", esize |-> 0]
      [] op = "prepend" -> [rc |-> "SUCCESS", opcode |-> "PREPEND", esize |-> 0]
      [] OTHER          -> [rc |-> "INVALID_ARGUMENT", opcode |-> "NONE", esize |-> 0]

(* The capabilities of the pipeline's server that lcb_store reads:       *)
(* supports_compression and supports_json.  `smaller` is whether         *)
(* mcreq_compress_value found the compressed value worth sending; it     *)
(* clears should_compress otherwise.                                      *)
Caps == [snappy : BOOLEAN, json : BOOLEAN]

(* can_compress that compresses a value the user already compressed. *)
CanCompressTwice(opts, caps, datatype) ==
    "OUT" \in opts /\ (caps.snappy \/ "FORCE" \in opts)

(* can_compress: the instance's compressopts allow OUT, the server       *)
(* supports snappy or FORCE is set, and the value is not marked SNAPPY.  *)
CanCompress(opts, caps, datatype) ==
    /\ "OUT" \in opts
    /\ caps.snappy \/ "FORCE" \in opts
    /\ "snappy" \notin datatype

(* The header lcb_store's operation lambda writes for cmd: the alt magic *)
(* and 4 bytes of frame extras for a durability level the cluster can    *)
(* do synchronously, the opcode and extras of get_esize_and_opcode, and  *)
(* the datatype: COMPRESSED when the value was compressed here or the    *)
(* user marked it SNAPPY, JSON when the user marked it and the server    *)
(* supports JSON.                                                         *)
StoreHeader(cmd, syncok, opts, caps, smaller) ==
    LET alt  == cmd.durmode = "sync" /\ cmd.level /\ syncok
        r    == GetEsizeAndOpcode(cmd.op)
        comp == CanCompress(opts, caps, cmd.datatype) /\ smaller
    IN  [magic |-> IF alt THEN "AREQ" ELSE "REQ", ffextlen |-> IF alt THEN 4 ELSE 0,
         opcode |-> r.opcode, extlen |-> r.esize, compressed |-> comp,
         datatype |-> {b \in {"snappy"} : comp \/ "snappy" \in cmd.datatype}
                      \cup {b \in {"json"} : "json" \in cmd.datatype /\ caps.json}]

-----------------------------------------------------------------------------
(* The rules as the specification states them. *)

\* Section 4.7: upsert->SET, insert->ADD, replace->REPLACE, append->APPEND,
\* prepend->PREPEND; 8 bytes of extras (flags, expiry) for SET/ADD/REPLACE,
\* none for APPEND/PREPEND.
SpecOpcode == [upsert |-> "SET", insert |-> "ADD", replace |-> "REPLACE",
               append |-> "APPEND", prepend |-> "PREPEND"]
\* The spec's get command classes and their opcodes (Get family, Opcodes used).
SpecGetOpcode == [get |-> "GET", gat |-> "GAT", getl |-> "GET_LOCKED"]
SpecEsize(opcode) == IF opcode \in {"SET", "ADD", "REPLACE"} THEN 8 ELSE 0

\* Section 8: append/prepend with a non-zero expiry or flags, and insert
\* with a non-zero cas, return OPTIONS_CONFLICT synchronously.
SpecConflict(cmd) ==
    \/ cmd.op \in {"append", "prepend"} /\ (cmd.exptime \/ cmd.flags)
    \/ cmd.op = "insert" /\ cmd.cas

(* A store packet is encoded as sections 4.7 and 6 say, for every       *)
(* server it may go to: the opcode of its operation and 8 bytes of       *)
(* extras for SET/ADD/REPLACE, none otherwise; the alt magic with 4      *)
(* bytes of frame extras exactly when a durability level is set and     *)
(* supported; a value compressed only when policy allows it, the server *)
(* takes snappy (or FORCE is set) and it is not compressed already; the *)
(* SNAPPY bit exactly when the value on the wire is compressed; the JSON *)
(* bit exactly when the user flagged JSON and the server supports it.    *)
EncodedPerSpec(cmd, syncok, opts) ==
    \A caps \in Caps, smaller \in BOOLEAN :
        LET h == StoreHeader(cmd, syncok, opts, caps, smaller)
            wanted == cmd.durmode = "sync" /\ cmd.level /\ syncok
        IN  /\ h.opcode = SpecOpcode[cmd.op]
            /\ h.extlen = SpecEsize(h.opcode)
            /\ (h.magic = "AREQ") = wanted /\ h.ffextlen = (IF wanted THEN 4 ELSE 0)
            /\ h.compressed => /\ "OUT" \in opts /\ (caps.snappy \/ "FORCE" \in opts)
                               /\ "snappy" \notin cmd.datatype
            /\ ("snappy" \in h.datatype) = (h.compressed \/ "snappy" \in cmd.datatype)
            /\ ("json" \in h.datatype) = ("json" \in cmd.datatype /\ caps.json)

=============================================================================
