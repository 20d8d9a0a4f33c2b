----------------------------- MODULE SSDBStore -----------------------------
(***************************************************************************)
(* The typed write path of SSDBImpl, as operators over one engine state.  *)
(*                                                                         *)
(* The engine (leveldb) is a function from engine keys to values, Nil     *)
(* meaning "no such key".  Every write handler opens a Transaction        *)
(* (binlog.h), reads the engine directly (never the pending batch),       *)
(* stages puts, deletes and binlog records, and either commits them as    *)
(* one atomic batch or returns early, in which case the Transaction's     *)
(* destructor rolls the batch back.  A handler is therefore an operator   *)
(* from the engine state to an Outcome: committed or not, the engine      *)
(* after the batch, the binlog records it adds, and the return value.     *)
(* The Transaction mutex serialises all writers, so one handler is one    *)
(* atomic step of any module that uses these operators.                   *)
(*                                                                         *)
(* Only one queue, one hash and one sorted set name are modelled: every   *)
(* handler touches the keys of its own name only, so names do not         *)
(* interact.                                                               *)
(***************************************************************************)
EXTENDS Integers, Sequences, FiniteSets

CONSTANTS
    Keys,           \* user keys of the KV type (one byte each)
    Vals,           \* user values (KV values and queue items)
    Nil,            \* "not found" in the engine
    QNAME,          \* the byte naming the modelled queue
    QFRONT_SEQ,     \* t_queue.h: meta slot holding the front sequence
    QBACK_SEQ,      \* t_queue.h: meta slot holding the back sequence
    QITEM_MIN_SEQ,  \* t_queue.h: lowest item sequence (scaled down)
    QITEM_MAX_SEQ,  \* t_queue.h: highest item sequence (scaled down)
    Fields,         \* hash fields and sorted-set keys (one byte each)
    HNAME,          \* the byte naming the modelled hash
    ZNAME,          \* the byte naming the modelled sorted set
    INT_BITS,       \* width of int64 counters and scores (scaled down)
    BYTE_BITS       \* width of one byte of an encoded score (scaled down)

\* t_queue.h:22, pushes on an empty queue start in the middle of the range.
QITEM_SEQ_INIT == QITEM_MAX_SEQ \div 2

(***************************************************************************)
(* Engine keys are byte strings, here sequences of byte values, ordered  *)
(* by the engine lexicographically.  The first byte is the DataType tag   *)
(* (const.h is not under src/; the values are SSDB's).  User data lies    *)
(* in [MIN_PREFIX, MAX_PREFIX]; QSIZE sorts below it.                     *)
(***************************************************************************)
KV == 107           \* 'k'
HASH == 104         \* 'h'
HSIZE == 72         \* 'H'
ZSET == 115         \* 's'
ZSCORE == 122       \* 'z'
ZSIZE == 90         \* 'Z'
QUEUE == 113        \* 'q'
QSIZE == 81         \* 'Q'
MIN_PREFIX == 104   \* 'h', the HASH tag
MAX_PREFIX == 115   \* 's', the ZSET tag

(***************************************************************************)
(* KvKey(k) is encode_kv_key, QKey(s) is encode_qitem_key of the modelled *)
(* queue (a one-byte name QNAME; the meta slots QFRONT_SEQ and QBACK_SEQ  *)
(* live in the same key space as the items, and the big-endian sequence   *)
(* is one byte here), QSizeKey is encode_qsize_key.  QNameKey is the raw  *)
(* name: the key _qpop puts in its binlog record, not an engine key.      *)
(***************************************************************************)
KvKey(k) == <<KV, k>>
QKey(s) == <<QUEUE, 1, QNAME, s>>
QSizeKey == <<QSIZE, QNAME>>
QNameKey == <<QNAME>>

(***************************************************************************)
(* int64 arithmetic at INT_BITS bits: the code adds counters without an   *)
(* overflow check, and the build wraps around (two's complement).         *)
(***************************************************************************)
IntRange == -(2^(INT_BITS - 1)) .. 2^(INT_BITS - 1) - 1
Wrap(x) == ((x + 2^(INT_BITS - 1)) % 2^INT_BITS) - 2^(INT_BITS - 1)

\* Variant of encode_score that writes the score's bytes as they lie in
\* memory on a little-endian host, least significant first.
EncodeScoreLittleEndian(s) ==
    LET B == 2^BYTE_BITS
        u == IF s < 0 THEN s + 2^INT_BITS ELSE s
    IN [i \in 1 .. INT_BITS \div BYTE_BITS |-> (u \div B^(i - 1)) % B]

\* encode_score: big_endian((uint64_t)s), most significant byte first.
EncodeScore(s) ==
    LET B == 2^BYTE_BITS
        n == INT_BITS \div BYTE_BITS
        u == IF s < 0 THEN s + 2^INT_BITS ELSE s
    IN [i \in 1 .. n |-> (u \div B^(n - i)) % B]

(***************************************************************************)
(* t_hash.h and t_zset.h encodings: HashKey is encode_hash_key (tag,      *)
(* name length, name, '=', field), ZSetKey encode_zset_key (tag, length,  *)
(* name, length, key), ZScoreKey encode_zscore_key (tag, length, name,    *)
(* '-' or '=' for the sign, the encoded score, '=', key).                 *)
(***************************************************************************)
HashKey(f) == <<HASH, 1, HNAME, 61, f>>
HSizeKey == <<HSIZE, HNAME>>
ZSetKey(f) == <<ZSET, 1, ZNAME, 1, f>>
ZScoreKey(f, s) ==
    <<ZSCORE, 1, ZNAME, IF s < 0 THEN 45 ELSE 61>> \o EncodeScore(s) \o <<61, f>>
ZSizeKey == <<ZSIZE, ZNAME>>

QSeqs == {QFRONT_SEQ, QBACK_SEQ} \cup (QITEM_MIN_SEQ .. QITEM_MAX_SEQ)
EngineKeys ==
    {KvKey(k) : k \in Keys} \cup {QKey(s) : s \in QSeqs} \cup {QSizeKey}
    \cup {HashKey(f) : f \in Fields} \cup {HSizeKey} \cup {ZSetKey(f) : f \in Fields}
    \cup {ZScoreKey(f, s) : f \in Fields, s \in IntRange} \cup {ZSizeKey}

\* Byte-string order, as leveldb's default comparator and std::string's <.
RECURSIVE KeyLess(_, _)
KeyLess(a, b) ==
    \/ a = <<>> /\ b # <<>>
    \/ /\ a # <<>> /\ b # <<>>
       /\ \/ Head(a) < Head(b)
          \/ Head(a) = Head(b) /\ KeyLess(Tail(a), Tail(b))

\* The elements of a finite set S as a sequence in the order Less.
OrderBy(S, Less(_, _)) ==
    [i \in 1 .. Cardinality(S) |-> CHOOSE x \in S : Cardinality({y \in S : Less(y, x)}) = i - 1]

EmptyDb == [key \in EngineKeys |-> Nil]

\* Binlog types and the record a handler stages with add_log (binlog.h:94).
LogTypes == {"SYNC", "MIRROR"}
Rec(type, cmd, key) == [type |-> type, cmd |-> cmd, key |-> key]

\* The two ways a Transaction ends (binlog.h:114-131).
Commit(w, recs, ret) == [commit |-> TRUE, db |-> w, recs |-> recs, ret |-> ret]
Abort(d, ret) == [commit |-> FALSE, db |-> d, recs |-> <<>>, ret |-> ret]

(***************************************************************************)
(* KV handlers (t_kv.cpp).                                                 *)
(***************************************************************************)
Set(d, k, v, lt) ==
    Commit([d EXCEPT ![KvKey(k)] = v], <<Rec(lt, "KSET", KvKey(k))>>, 1)

\* del() logs KDEL whether or not the key exists.
Del(d, k, lt) ==
    Commit([d EXCEPT ![KvKey(k)] = Nil], <<Rec(lt, "KDEL", KvKey(k))>>, 1)

\* setnx: an existing key ends the Transaction with nothing staged.
SetNx(d, k, v, lt) ==
    IF d[KvKey(k)] # Nil THEN Abort(d, 0)
    ELSE Commit([d EXCEPT ![KvKey(k)] = v], <<Rec(lt, "KSET", KvKey(k))>>, 1)

\* getset: replies whether the key was found (the old value goes to *val).
GetSet(d, k, v, lt) ==
    Commit([d EXCEPT ![KvKey(k)] = v], <<Rec(lt, "KSET", KvKey(k))>>,
           IF d[KvKey(k)] = Nil THEN 0 ELSE 1)

\* The value str_to_int64 parses, or Nil where it sets errno: every value
\* the handlers write with str() parses, the client's opaque values do not.
ParseInt(v) == IF v \in IntRange THEN v ELSE Nil

\* incr: an absent key starts from 0; a value that does not parse replies
\* 0 with nothing staged; the sum wraps as int64_t does.
Incr(d, k, by, lt) ==
    LET old == d[KvKey(k)]
        new == IF old = Nil THEN by ELSE Wrap(ParseInt(old) + by)
    IN IF old # Nil /\ ParseInt(old) = Nil THEN Abort(d, 0)
       ELSE Commit([d EXCEPT ![KvKey(k)] = new], <<Rec(lt, "KSET", KvKey(k))>>, 1)

\* multi_set: one Put and one KSET record per pair, in argument order, so
\* a key given twice keeps its last value; the reply counts the pairs.
RECURSIVE MultiSetBatch(_, _)
MultiSetBatch(w, kvs) ==
    IF kvs = <<>> THEN w
    ELSE MultiSetBatch([w EXCEPT ![KvKey(Head(kvs)[1])] = Head(kvs)[2]], Tail(kvs))

MultiSet(d, kvs, lt) ==
    Commit(MultiSetBatch(d, kvs),
           [i \in 1 .. Len(kvs) |-> Rec(lt, "KSET", KvKey(kvs[i][1]))], Len(kvs))

\* multi_del: a Delete and a KDEL record per key, present or not.
MultiDel(d, ks, lt) ==
    Commit([key \in EngineKeys |->
               IF \E i \in 1 .. Len(ks) : key = KvKey(ks[i]) THEN Nil ELSE d[key]],
           [i \in 1 .. Len(ks) |-> Rec(lt, "KDEL", KvKey(ks[i]))], Len(ks))

(***************************************************************************)
(* Hash handlers (t_hash.cpp).  hset_one and hdel_one stage the field and *)
(* its record and return how many fields they added or removed;           *)
(* incr_hsize then reads the size from the engine and stages size + incr, *)
(* deleting the size key at 0.                                            *)
(***************************************************************************)
StoredSize(d, key) == IF d[key] = Nil \/ d[key] < 0 THEN 0 ELSE d[key]

\* Variant of incr_hsize/incr_zsize that stores a size of 0.
IncrSizeStoresZero(d, w, key, incr) == [w EXCEPT ![key] = StoredSize(d, key) + incr]

IncrSize(d, w, key, incr) ==
    [w EXCEPT ![key] = IF StoredSize(d, key) + incr = 0 THEN Nil
                       ELSE StoredSize(d, key) + incr]

\* Variant of hset_one that counts every write as a new field.
HSetOneCountsUpdates(d, f, v, lt) ==
    IF d[HashKey(f)] = v
    THEN [w |-> d, recs |-> <<>>, n |-> 0]
    ELSE [w |-> [d EXCEPT ![HashKey(f)] = v], recs |-> <<Rec(lt, "HSET", HashKey(f))>>, n |-> 1]

\* hset_one: a new field, or a changed value, is staged and logged; an
\* equal value is left alone.
HSetOne(d, f, v, lt) ==
    IF d[HashKey(f)] = v
    THEN [w |-> d, recs |-> <<>>, n |-> 0]
    ELSE [w |-> [d EXCEPT ![HashKey(f)] = v],
          recs |-> <<Rec(lt, "HSET", HashKey(f))>>,
          n |-> IF d[HashKey(f)] = Nil THEN 1 ELSE 0]

\* hset, and hincr after it has computed the new value.
HSetCommit(d, f, v, lt, ret) ==
    LET o == HSetOne(d, f, v, lt)
    IN Commit(IF o.n > 0 THEN IncrSize(d, o.w, HSizeKey, o.n) ELSE o.w, o.recs,
              IF ret = Nil THEN o.n ELSE ret)

HSet(d, f, v, lt) == HSetCommit(d, f, v, lt, Nil)

\* Variant of hdel whose hdel_one deletes the field without a record.
HDelUnlogged(d, f, lt) ==
    IF d[HashKey(f)] = Nil THEN Commit(d, <<>>, 0)
    ELSE Commit(IncrSize(d, [d EXCEPT ![HashKey(f)] = Nil], HSizeKey, -1), <<>>, 1)

\* hdel: an absent field commits an empty batch and replies 0.
HDel(d, f, lt) ==
    IF d[HashKey(f)] = Nil THEN Commit(d, <<>>, 0)
    ELSE Commit(IncrSize(d, [d EXCEPT ![HashKey(f)] = Nil], HSizeKey, -1),
                <<Rec(lt, "HDEL", HashKey(f))>>, 1)

\* Variant of hincr without the errno check: a value that does not parse
\* counts as 0, which is what str_to_int64 returns for it.
HIncrIgnoresErrno(d, f, by, lt) ==
    LET old == d[HashKey(f)]
    IN HSetCommit(d, f, IF old = Nil \/ ParseInt(old) = Nil THEN by ELSE Wrap(old + by), lt, 1)

\* hincr: as incr, then hset_one of str(new value), replying 1.
HIncr(d, f, by, lt) ==
    LET old == d[HashKey(f)]
    IN IF old # Nil /\ ParseInt(old) = Nil THEN Abort(d, 0)
       ELSE HSetCommit(d, f, IF old = Nil THEN by ELSE Wrap(ParseInt(old) + by), lt, 1)

\* Variant of zset_one that does not delete the index entry at the old score.
ZSetOneKeepsOldIndex(d, f, s, lt) ==
    LET old == d[ZSetKey(f)]
    IN IF old = s
       THEN [w |-> d, recs |-> <<>>, n |-> 0]
       ELSE [w |-> [d EXCEPT ![ZScoreKey(f, s)] = "", ![ZSetKey(f)] = s],
             recs |-> <<Rec(lt, "ZSET", ZSetKey(f))>>, n |-> IF old = Nil THEN 1 ELSE 0]

(***************************************************************************)
(* Sorted-set handlers (t_zset.cpp).  A member has two entries: ZSetKey   *)
(* holds its score, ZScoreKey(f, score) is the index zrange scans.  A     *)
(* client's score string is filtered through Int64() and str(); the model *)
(* takes the resulting integer as the input.                              *)
(***************************************************************************)
ZSetOne(d, f, s, lt) ==
    LET old == d[ZSetKey(f)]
        unindexed == IF old = Nil THEN d ELSE [d EXCEPT ![ZScoreKey(f, old)] = Nil]
    IN IF old = s
       THEN [w |-> d, recs |-> <<>>, n |-> 0]
       ELSE [w |-> [unindexed EXCEPT ![ZScoreKey(f, s)] = "", ![ZSetKey(f)] = s],
             recs |-> <<Rec(lt, "ZSET", ZSetKey(f))>>,
             n |-> IF old = Nil THEN 1 ELSE 0]

ZSetCommit(d, f, s, lt, ret) ==
    LET o == ZSetOne(d, f, s, lt)
    IN Commit(IF o.n > 0 THEN IncrSize(d, o.w, ZSizeKey, o.n) ELSE o.w, o.recs,
              IF ret = Nil THEN o.n ELSE ret)

ZSet(d, f, s, lt) == ZSetCommit(d, f, s, lt, Nil)

ZDel(d, f, lt) ==
    LET old == d[ZSetKey(f)]
    IN IF old = Nil THEN Commit(d, <<>>, 0)
       ELSE Commit(IncrSize(d, [d EXCEPT ![ZScoreKey(f, old)] = Nil, ![ZSetKey(f)] = Nil],
                            ZSizeKey, -1),
                   <<Rec(lt, "ZDEL", ZSetKey(f))>>, 1)

\* zincr: a stored score always parses, so there is no errno check.
ZIncr(d, f, by, lt) ==
    LET old == d[ZSetKey(f)]
    IN ZSetCommit(d, f, IF old = Nil THEN by ELSE Wrap(old + by), lt, 1)

(***************************************************************************)
(* Queue handlers (t_queue.cpp).  d is the engine as read, w the engine   *)
(* with the batch staged so far.                                          *)
(***************************************************************************)
QSize(d) == IF d[QSizeKey] = Nil THEN 0 ELSE d[QSizeKey]

IncrQSizeStoresZero(d, w, incr) ==
    IF QSize(d) + incr < 0
    THEN [w EXCEPT ![QSizeKey] = Nil, ![QKey(QFRONT_SEQ)] = Nil,
                   ![QKey(QBACK_SEQ)] = Nil]
    ELSE [w EXCEPT ![QSizeKey] = QSize(d) + incr]

\* incr_qsize: reads the size from the engine, stages the new size, and
\* removes size, front and back together when the queue becomes empty.
IncrQSize(d, w, incr) ==
    IF QSize(d) + incr <= 0
    THEN [w EXCEPT ![QSizeKey] = Nil, ![QKey(QFRONT_SEQ)] = Nil,
                   ![QKey(QBACK_SEQ)] = Nil]
    ELSE [w EXCEPT ![QSizeKey] = QSize(d) + incr]

PushCmd(fb) == IF fb = QFRONT_SEQ THEN "QPUSH_FRONT" ELSE "QPUSH_BACK"
PopCmd(fb) == IF fb = QFRONT_SEQ THEN "QPOP_FRONT" ELSE "QPOP_BACK"

\* _qpush: the end pointer is staged before the range check, so a full
\* queue returns -1 and the rollback discards the pointer move.
QPush(d, item, fb, lt) ==
    LET found == d[QKey(fb)] # Nil
        seq == IF ~found THEN QITEM_SEQ_INIT
               ELSE IF fb = QFRONT_SEQ THEN d[QKey(fb)] - 1 ELSE d[QKey(fb)] + 1
        ends == IF found THEN [d EXCEPT ![QKey(fb)] = seq]
                ELSE [d EXCEPT ![QKey(QFRONT_SEQ)] = seq, ![QKey(QBACK_SEQ)] = seq]
        w == IncrQSize(d, [ends EXCEPT ![QKey(seq)] = item], 1)
    IN IF seq <= QITEM_MIN_SEQ \/ seq >= QITEM_MAX_SEQ
       THEN Abort(d, -1)
       ELSE Commit(w, <<Rec(lt, PushCmd(fb), QKey(seq))>>, QSize(d) + 1)

\* Variant of _qpop that adds no binlog record.
QPopUnlogged(d, fb, lt) ==
    LET seq == d[QKey(fb)]
        w == IncrQSize(d, [d EXCEPT ![QKey(seq)] = Nil], -1)
        inward == IF fb = QFRONT_SEQ THEN seq + 1 ELSE seq - 1
    IN IF seq = Nil \/ d[QKey(seq)] = Nil THEN Abort(d, 0)
       ELSE Commit(IF QSize(d) - 1 > 0 THEN [w EXCEPT ![QKey(fb)] = inward] ELSE w,
                   <<>>, d[QKey(seq)])

\* _qpop: deletes the end item, logs the raw name, shrinks the size and
\* moves the end pointer inward only if items remain.  The reply is the
\* item handed back through *item, or 0 for an empty queue.
QPop(d, fb, lt) ==
    LET seq == d[QKey(fb)]
        w == IncrQSize(d, [d EXCEPT ![QKey(seq)] = Nil], -1)
        inward == IF fb = QFRONT_SEQ THEN seq + 1 ELSE seq - 1
    IN IF seq = Nil THEN Abort(d, 0)
       ELSE IF d[QKey(seq)] = Nil THEN Abort(d, 0)
       ELSE Commit(IF QSize(d) - 1 > 0 THEN [w EXCEPT ![QKey(fb)] = inward] ELSE w,
                   <<Rec(lt, PopCmd(fb), QNameKey)>>, d[QKey(seq)])

\* Variant of qset that drops the "+ 1" of a negative index.
QSetBackOffByOne(d, index, item, lt) ==
    LET base == IF index >= 0 THEN d[QKey(QFRONT_SEQ)] ELSE d[QKey(QBACK_SEQ)]
        seq == base + index
    IN IF index >= QSize(d) \/ index < -QSize(d) \/ base = Nil THEN Abort(d, 0)
       ELSE Commit([d EXCEPT ![QKey(seq)] = item], <<Rec(lt, "QSET", QKey(seq))>>, 1)

\* qset: index from the front when >= 0, from the back when < 0.
QSet(d, index, item, lt) ==
    LET size == QSize(d)
        base == IF index >= 0 THEN d[QKey(QFRONT_SEQ)] ELSE d[QKey(QBACK_SEQ)]
        seq == IF index >= 0 THEN base + index ELSE base + index + 1
    IN IF index >= size \/ index < -size THEN Abort(d, 0)
       ELSE IF base = Nil THEN Abort(d, 0)
       ELSE Commit([d EXCEPT ![QKey(seq)] = item], <<Rec(lt, "QSET", QKey(seq))>>, 1)

\* qset_by_seq, used by a replica to apply QSET: accepts any seq in
\* [front, front + size], a missing front reading as 0.
QSetBySeq(d, seq, item, lt) ==
    LET min == IF d[QKey(QFRONT_SEQ)] = Nil THEN 0 ELSE d[QKey(QFRONT_SEQ)]
        max == min + QSize(d)
    IN IF seq < min \/ seq > max THEN Abort(d, 0)
       ELSE Commit([d EXCEPT ![QKey(seq)] = item], <<Rec(lt, "QSET", QKey(seq))>>, 1)

\* qfix: rewrites size, front and back from the items found in
\* [QITEM_MIN_SEQ, QITEM_MAX_SEQ]; it adds no binlog record.
QLiveSeqs(d) == {s \in QITEM_MIN_SEQ .. QITEM_MAX_SEQ : d[QKey(s)] # Nil}

QFix(d) ==
    LET live == QLiveSeqs(d)
        lo == CHOOSE s \in live : \A t \in live : s <= t
        hi == CHOOSE s \in live : \A t \in live : s >= t
    IN IF live = {}
       THEN Commit([d EXCEPT ![QSizeKey] = Nil, ![QKey(QFRONT_SEQ)] = Nil,
                             ![QKey(QBACK_SEQ)] = Nil], <<>>, 0)
       ELSE Commit([d EXCEPT ![QSizeKey] = Cardinality(live),
                             ![QKey(QFRONT_SEQ)] = lo, ![QKey(QBACK_SEQ)] = hi], <<>>, 0)

(***************************************************************************)
(* The queue as a client sees it: the items from front to back.           *)
(***************************************************************************)
QueueItems(d) ==
    LET f == d[QKey(QFRONT_SEQ)]
        At(s) == IF QKey(s) \in DOMAIN d THEN d[QKey(s)] ELSE Nil
    IN IF f = Nil THEN <<>> ELSE [i \in 1 .. QSize(d) |-> At(f + i - 1)]


(***************************************************************************)
(* The single-call readers.  qget_by_seq is one engine read of an item  *)
(* key, Nil for "not found"; qget_uint64 is the same read of a pointer    *)
(* slot (its size check cannot fail here, where pointers are numbers).    *)
(* qfront and qback read the pointer, then the item it names.  qget adds  *)
(* the index to the front pointer, or index + 1 to the back pointer for a *)
(* negative index, and reads that sequence with no range check.          *)
(***************************************************************************)
QGetBySeq(d, seq) == IF QKey(seq) \in DOMAIN d THEN d[QKey(seq)] ELSE Nil

QEnd(d, slot) ==
    LET ptr == QGetBySeq(d, slot)
    IN IF ptr = Nil THEN Nil ELSE QGetBySeq(d, ptr)

QFront(d) == QEnd(d, QFRONT_SEQ)
QBack(d) == QEnd(d, QBACK_SEQ)

\* Variant of qget that offsets a negative index from the back pointer
\* without the + 1.
QGetNegOffByOne(d, index) ==
    LET ptr == QGetBySeq(d, IF index >= 0 THEN QFRONT_SEQ ELSE QBACK_SEQ)
    IN IF ptr = Nil THEN Nil ELSE QGetBySeq(d, ptr + index)

QGet(d, index) ==
    LET ptr == QGetBySeq(d, IF index >= 0 THEN QFRONT_SEQ ELSE QBACK_SEQ)
    IN IF ptr = Nil THEN Nil
       ELSE QGetBySeq(d, IF index >= 0 THEN ptr + index ELSE ptr + index + 1)


\* qslice: the item sequences of begin and end are taken from the front
\* pointer for an index >= 0 and from the back pointer plus one for a
\* negative one (a missing pointer answers an empty list); the loop then
\* reads seq after seq and stops at the first one with no item.
RECURSIVE QSliceFrom(_, _, _)
QSliceFrom(d, seq, seq_end) ==
    IF seq > seq_end \/ QGetBySeq(d, seq) = Nil THEN <<>>
    ELSE <<QGetBySeq(d, seq)>> \o QSliceFrom(d, seq + 1, seq_end)

QSliceNoBackAdjust(d, begin, end) ==
    LET f == QGetBySeq(d, QFRONT_SEQ)
        b == QGetBySeq(d, QBACK_SEQ)
        ItemSeq(i) == IF i >= 0 THEN f + i ELSE b + i
    IN IF ((begin >= 0 \/ end >= 0) /\ f = Nil) \/ ((begin < 0 \/ end < 0) /\ b = Nil)
       THEN <<>> ELSE QSliceFrom(d, ItemSeq(begin), ItemSeq(end))

QSlice(d, begin, end) ==
    LET f == QGetBySeq(d, QFRONT_SEQ)
        b == QGetBySeq(d, QBACK_SEQ)
        ItemSeq(i) == IF i >= 0 THEN f + i ELSE b + i + 1
    IN IF ((begin >= 0 \/ end >= 0) /\ f = Nil) \/ ((begin < 0 \/ end < 0) /\ b = Nil)
       THEN <<>> ELSE QSliceFrom(d, ItemSeq(begin), ItemSeq(end))

=============================================================================
