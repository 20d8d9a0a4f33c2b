----------------------------- MODULE TypedStore -----------------------------
(***************************************************************************)
(* The KV, hash and sorted-set handlers on a primary.  Each handler is   *)
(* one Transaction, so one atomic step.  hclear is the exception: it      *)
(* takes an engine iterator (an implicit leveldb snapshot) of at most     *)
(* HSCAN_LIMIT fields, then calls hdel on each field, and each hdel is a  *)
(* Transaction of its own.  It repeats until a scan finds nothing, and    *)
(* other writers' handlers can commit between any two of its steps.       *)
(***************************************************************************)
EXTENDS StoreIterator

CONSTANTS
    Ops,            \* the handler families clients call: "kv", "hash", "zset", "hclear"
    IncrBys,        \* the increments clients pass to incr, hincr and zincr
    Scores,         \* the scores clients pass to zset
    HSCAN_LIMIT,    \* the batch size of hclear's hscan (1000 in the code)
    Limits,         \* the limits clients pass to scan and hscan
    Ranges          \* the <<offset, limit>> pairs clients pass to zrange and zrrange

VARIABLES
    db,             \* the engine: engine key -> value or Nil
    binlog,         \* the binlog records committed so far, oldest first
    reply,          \* the reply of the last call that returned
    hpc,            \* hclear: "idle", or "del" while it works through a batch
    hit,            \* hclear: the fields of the batch not yet deleted
    hnum,           \* hclear: num, the deletions of this batch
    hcount          \* hclear: count, the deletions of earlier batches

vars == <<db, binlog, reply, hpc, hit, hnum, hcount>>
hclearVars == <<hpc, hit, hnum, hcount>>

SE == INSTANCE SequencesExt

Init ==
    /\ db = EmptyDb
    /\ binlog = <<>>
    /\ reply = 0
    /\ hpc = "idle" /\ hit = <<>> /\ hnum = 0 /\ hcount = 0

\* A client's whole handler as one step.
Apply(o) ==
    /\ db' = o.db
    /\ binlog' = binlog \o o.recs
    /\ reply' = o.ret
    /\ UNCHANGED hclearVars

KvCall ==
    /\ "kv" \in Ops
    /\ \E k, k2 \in Keys, v, v2 \in Vals, by \in IncrBys :
          \/ Apply(Set(db, k, v, "SYNC"))
          \/ Apply(SetNx(db, k, v, "SYNC"))
          \/ Apply(GetSet(db, k, v, "SYNC"))
          \/ Apply(Del(db, k, "SYNC"))
          \/ Apply(Incr(db, k, by, "SYNC"))
          \/ Apply(MultiSet(db, <<<<k, v>>, <<k2, v2>>>>, "SYNC"))
          \/ Apply(MultiDel(db, <<k, k2>>, "SYNC"))

HashCall ==
    /\ "hash" \in Ops
    /\ \E f \in Fields :
          \/ \E v \in Vals : Apply(HSet(db, f, v, "SYNC"))
          \/ Apply(HDel(db, f, "SYNC"))
          \/ \E by \in IncrBys : Apply(HIncr(db, f, by, "SYNC"))

ZSetCall ==
    /\ "zset" \in Ops
    /\ \E f \in Fields :
          \/ \E s \in Scores : Apply(ZSet(db, f, s, "SYNC"))
          \/ Apply(ZDel(db, f, "SYNC"))
          \/ \E by \in IncrBys : Apply(ZIncr(db, f, by, "SYNC"))

\* The fields of hscan(name, "", "", HSCAN_LIMIT), the batch hclear deletes.
HClearBatch(d) == LET it == HScan(d, HSCAN_LIMIT) IN [i \in DOMAIN it |-> it[i][1]]

\* hclear, at its start or after a batch: count += num, then a new scan.
\* A scan that finds nothing ends the call, replying count.
HClearScan ==
    /\ "hclear" \in Ops
    /\ hpc = "idle" \/ (hpc = "del" /\ hit = <<>>)
    /\ LET count == IF hpc = "idle" THEN 0 ELSE hcount + hnum
       IN IF HClearBatch(db) = <<>>
          THEN /\ hpc' = "idle" /\ reply' = count
               /\ hit' = <<>> /\ hnum' = 0 /\ hcount' = 0
          ELSE /\ hpc' = "del" /\ hit' = HClearBatch(db)
               /\ hnum' = 0 /\ hcount' = count /\ UNCHANGED reply
    /\ UNCHANGED <<db, binlog>>

\* hclear: hdel of the next field of the batch, counted whether or not a
\* concurrent writer has deleted it since the scan.
HClearDel ==
    LET o == HDel(db, Head(hit), "SYNC")
    IN /\ hpc = "del" /\ hit # <<>>
       /\ db' = o.db /\ binlog' = binlog \o o.recs
       /\ hit' = Tail(hit) /\ hnum' = hnum + 1
       /\ UNCHANGED <<reply, hpc, hcount>>

Next == KvCall \/ HashCall \/ ZSetCall \/ HClearScan \/ HClearDel

Spec == Init /\ [][Next]_vars


-----------------------------------------------------------------------------
HFields(d) == {f \in Fields : d[HashKey(f)] # Nil}
ZKeys(d) == {f \in Fields : d[ZSetKey(f)] # Nil}
\* The (key, score) pairs of the live ZSCORE index entries.
ZIndex(d) == {<<f, s>> \in Fields \X IntRange : d[ZScoreKey(f, s)] # Nil}

TypeOK ==
    /\ \A k \in Keys : db[KvKey(k)] \in Vals \cup IntRange \cup {Nil}
    /\ \A f \in Fields : db[HashKey(f)] \in Vals \cup IntRange \cup {Nil}
    /\ \A f \in Fields : db[ZSetKey(f)] \in IntRange \cup {Nil}
    /\ db[HSizeKey] \in (1 .. Cardinality(Fields)) \cup {Nil}
    /\ db[ZSizeKey] \in (1 .. Cardinality(Fields)) \cup {Nil}
    /\ hpc \in {"idle", "del"} /\ hnum \in Nat /\ hcount \in Nat
    /\ hit \in Seq(Fields)

(***************************************************************************)
(* Size bookkeeping (spec 3 and 8.4): the stored hsize and zsize equal    *)
(* the number of live fields and keys, and an empty collection has no     *)
(* size key.  hset_one/zset_one decide "new or update" from the engine,   *)
(* incr_hsize/incr_zsize re-read the size and delete it at 0; every       *)
(* handler, hclear's hdel calls included, has to get both halves right.   *)
(***************************************************************************)
SizesExact ==
    /\ db[HSizeKey] = IF HFields(db) = {} THEN Nil ELSE Cardinality(HFields(db))
    /\ db[ZSizeKey] = IF ZKeys(db) = {} THEN Nil ELSE Cardinality(ZKeys(db))

(***************************************************************************)
(* The sorted-set index is paired with the entries (spec 3): a ZSCORE     *)
(* entry exists for a key exactly at the score its ZSET entry holds.      *)
(* zset_one must delete the index entry at the old score before writing   *)
(* the new one, and zdel_one must delete both.                            *)
(***************************************************************************)
ZIndexPaired ==
    \A f \in Fields, s \in IntRange : db[ZScoreKey(f, s)] # Nil <=> db[ZSetKey(f)] = s

DataKeys ==
    {KvKey(k) : k \in Keys} \cup {HashKey(f) : f \in Fields} \cup {ZSetKey(f) : f \in Fields}
DelCmds == {"KDEL", "HDEL", "ZDEL"}

(***************************************************************************)
(* Every write is logged, the way a replica needs it: when a step changes *)
(* a user entry, the last record it adds for that key is a delete exactly *)
(* when the entry is gone.  Replication ships these records (and re-reads *)
(* the value), so a change without one, or with the wrong command, never  *)
(* reaches a replica.                                                     *)
(***************************************************************************)
LogCoversWrites ==
    [][\A key \in DataKeys :
         db'[key] # db[key] =>
            LET mine == {i \in Len(binlog) + 1 .. Len(binlog') : binlog'[i].key = key}
            IN /\ mine # {}
               /\ (binlog'[SE!Max(mine)].cmd \in DelCmds <=> db'[key] = Nil)]_vars

\* The store implements the maps of Collections: the entries give the
\* members, and the replies are the ones the spec gives on maps.
C == INSTANCE Collections WITH kv <- [k \in Keys |-> db[KvKey(k)]],
                               hash <- [f \in Fields |-> db[HashKey(f)]],
                               zset <- [f \in Fields |-> db[ZSetKey(f)]],
                               reply <- reply

CollectionsRefined == C!Spec

(***************************************************************************)
(* The read handlers answer what the maps say (spec 4.2, 8, S2, S3):      *)
(* scan, rscan, hscan and hrscan list pairs in key order from either end, *)
(* hsize and zsize count members, zrank gives positions by (score, key),  *)
(* and zrange skips offset members and returns limit more.  Each read     *)
(* walks the engine through Iterator::next and a typed iterator, so it    *)
(* rests on the key encodings sorting right (sign byte, most significant  *)
(* byte first), on the window's bounds, on where a typed iterator stops,  *)
(* on decode_score, and on zrange's offset + limit surviving uint64       *)
(* overflow.  zrrank and zrrange are not part of it: their backward walk  *)
(* starts below a member whose score is SCORE_MAX (t_zset.cpp:156), and  *)
(* this run reaches that score.                                            *)
(***************************************************************************)
ReadsMatch ==
    /\ HSize(db) = C!HSizeA /\ ZSize(db) = C!ZSizeA
    /\ \A l \in Limits :
          /\ Scan(db, l) = C!ScanA(l) /\ RScan(db, l) = C!RScanA(l)
          /\ HScan(db, l) = C!HScanA(l) /\ HRScan(db, l) = C!HRScanA(l)
    /\ \A <<o, l>> \in Ranges : ZRange(db, o, l) = C!ZRangeA(o, l)
    /\ \A f \in Fields : ZRank(db, f) = C!ZRankA(f)

=============================================================================
