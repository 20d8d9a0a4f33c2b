--------------------------- MODULE StoreIterator ---------------------------
(***************************************************************************)
(* The read path of SSDBImpl: the Iterator of iterator.cpp, the typed     *)
(* iterators KIterator, HIterator and ZIterator over it, and the read     *)
(* handlers of t_kv, t_hash and t_zset built on them.  A leveldb iterator *)
(* reads an implicit snapshot and Get reads one key, so a read handler    *)
(* sees one engine state d and is an operator from d to its reply.        *)
(***************************************************************************)
EXTENDS SSDBStore

LOCAL INSTANCE SequencesExt

\* uint64_t (limits, offsets, ranks) at INT_BITS bits, and the bounds of
\* the score range: SSDB_SCORE_MIN and SSDB_SCORE_MAX, zrank's INT_MAX.
UINT_MAX == 2^INT_BITS - 1
SCORE_MIN == -(2^(INT_BITS - 1))
SCORE_MAX == 2^(INT_BITS - 1) - 1
INT_MAX == SCORE_MAX

KeyLeq(a, b) == a = b \/ KeyLess(a, b)

\* Every engine key, in the engine's order.
EngineOrder == OrderBy(EngineKeys, KeyLess)

(***************************************************************************)
(* SSDBImpl::iterator and rev_iterator (ssdb_impl.cpp, not under src;     *)
(* spec 4.6) position a leveldb iterator at start; Iterator::next moves   *)
(* it forward or backward and returns false at the first key past end (an *)
(* empty end is no bound).  Window is the engine keys such a walk can     *)
(* visit, in the order it visits them; it depends only on the bounds, so  *)
(* each handler's window is a constant below.                             *)
(***************************************************************************)
Window(start, end, dir) ==
    IF dir = "FORWARD"
    THEN SelectSeq(EngineOrder, LAMBDA k : KeyLeq(start, k) /\ (end = <<>> \/ KeyLeq(k, end)))
    ELSE Reverse(SelectSeq(EngineOrder, LAMBDA k : KeyLeq(k, start) /\ (end = <<>> \/ KeyLeq(end, k))))

(***************************************************************************)
(* A typed iterator's next() calls Iterator::next until it returns false, *)
(* and returns false itself at the first key that is not its own.  Own    *)
(* keys are contiguous in the engine order (one type tag, one name), so   *)
(* a walk ends where the own prefix of its window ends, and Typed is that *)
(* prefix.  In it, the walk yields the keys the snapshot holds, each       *)
(* next() counting limit down.                                            *)
(***************************************************************************)
Typed(window, own) ==
    LET i == SelectInSeq(window, LAMBDA k : k \notin own)
    IN IF i = 0 THEN window ELSE SubSeq(window, 1, i - 1)

IterKeys(d, typed, limit) ==
    LET live == SelectSeq(typed, LAMBDA k : d[k] # Nil)
    IN SubSeq(live, 1, IF limit < Len(live) THEN limit ELSE Len(live))

\* The keys each typed iterator takes as its own: KIterator and ZIterator
\* check the type tag only, HIterator the tag and the name.
KvOwn == {k \in EngineKeys : k[1] = KV}
HashOwn == {k \in EngineKeys : k[1] = HASH /\ k[3] = HNAME}
ZOwn == {k \in EngineKeys : k[1] = ZSCORE}

\* KIterator::next: decode_kv_key gives the key, the entry the value.
KItems(d, typed, limit) ==
    LET ks == IterKeys(d, typed, limit)
    IN [i \in DOMAIN ks |-> <<ks[i][2], d[ks[i]]>>]

\* HIterator::next: decode_hash_key gives the name and the field.
HItems(d, typed, limit) ==
    LET ks == IterKeys(d, typed, limit)
    IN [i \in DOMAIN ks |-> <<ks[i][5], d[ks[i]]>>]

\* decode_score: the big-endian bytes after the sign byte, as int64.
DecodeScore(k) ==
    LET n == INT_BITS \div BYTE_BITS
        U[i \in 0 .. n] == IF i = 0 THEN 0 ELSE U[i - 1] * 2^BYTE_BITS + k[4 + i]
    IN IF U[n] >= 2^(INT_BITS - 1) THEN U[n] - 2^INT_BITS ELSE U[n]

\* ZIterator::next: checks the ZSCORE tag only, and decode_zscore_key
\* gives the key and the score.
ZItems(d, typed, limit) ==
    LET ks == IterKeys(d, typed, limit)
    IN [i \in DOMAIN ks |-> <<ks[i][Len(ks[i])], DecodeScore(ks[i])>>]

(***************************************************************************)
(* KV reads (t_kv.cpp).  scan and rscan from "" with no end: scan starts   *)
(* at encode_kv_key(""), rscan at encode_kv_key("") + "\xff".              *)
(***************************************************************************)
KvForward == Typed(Window(<<KV>>, <<>>, "FORWARD"), KvOwn)
KvBackward == Typed(Window(<<KV, 255>>, <<>>, "BACKWARD"), KvOwn)
Scan(d, limit) == KItems(d, KvForward, limit)
RScan(d, limit) == KItems(d, KvBackward, limit)

(***************************************************************************)
(* Hash reads (t_hash.cpp): hsize reads the size key (0 when absent or    *)
(* negative); hscan and hrscan from field "" with no end, hrscan's start  *)
(* being encode_hash_key(name, "") + "\xff".                              *)
(***************************************************************************)
HSize(d) == StoredSize(d, HSizeKey)
HashForward == Typed(Window(<<HASH, 1, HNAME, 61>>, <<>>, "FORWARD"), HashOwn)
HashBackward == Typed(Window(<<HASH, 1, HNAME, 61, 255>>, <<>>, "BACKWARD"), HashOwn)
HScan(d, limit) == HItems(d, HashForward, limit)
HRScan(d, limit) == HItems(d, HashBackward, limit)

(***************************************************************************)
(* Sorted-set reads (t_zset.cpp).  ziterator with no key and no scores:   *)
(* forward from encode_zscore_key(name, "", SCORE_MIN) to                 *)
(* encode_zscore_key(name, "\xff", SCORE_MAX); backward from              *)
(* encode_zscore_key(name, "", SCORE_MAX) to encode_zscore_key(name, "",  *)
(* SCORE_MIN).  zsize reads its size key as hsize does.                  *)
(***************************************************************************)
ZScoreAt(key, s) ==
    <<ZSCORE, 1, ZNAME, IF s < 0 THEN 45 ELSE 61>> \o EncodeScore(s) \o <<61>> \o key
ZSize(d) == StoredSize(d, ZSizeKey)
ZForward == Typed(Window(ZScoreAt(<<>>, SCORE_MIN), ZScoreAt(<<255>>, SCORE_MAX), "FORWARD"), ZOwn)
ZBackward == Typed(Window(ZScoreAt(<<>>, SCORE_MAX), ZScoreAt(<<>>, SCORE_MIN), "BACKWARD"), ZOwn)

\* zrank and zrrank: the position of f in an iteration limited to INT_MAX,
\* or -1 when the iteration ends without it.
ZRank(d, f) == SelectInSeq(ZItems(d, ZForward, INT_MAX), LAMBDA e : e[1] = f) - 1
ZRRank(d, f) == SelectInSeq(ZItems(d, ZBackward, INT_MAX), LAMBDA e : e[1] = f) - 1

\* Variant of zrange's limit without the uint64 overflow check.
ZRangeLimitUnchecked(offset, limit) == (offset + limit) % (UINT_MAX + 1)

\* zrange and zrrange: limit becomes offset + limit unless that overflows;
\* skip(offset) then consumes offset entries of the iteration.
ZRangeLimit(offset, limit) ==
    IF (offset + limit) % (UINT_MAX + 1) > limit
    THEN (offset + limit) % (UINT_MAX + 1) ELSE limit
ZRange(d, offset, limit) ==
    LET it == ZItems(d, ZForward, ZRangeLimit(offset, limit))
    IN SubSeq(it, offset + 1, Len(it))
ZRRange(d, offset, limit) ==
    LET it == ZItems(d, ZBackward, ZRangeLimit(offset, limit))
    IN SubSeq(it, offset + 1, Len(it))

=============================================================================
