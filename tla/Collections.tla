---------------------------- MODULE Collections ----------------------------
(***************************************************************************)
(* What the KV, hash and sorted-set handlers promise, stated on maps: the *)
(* KV type maps keys to values, a hash maps fields to values, a sorted    *)
(* set maps keys to scores, and a handler replies with what the spec      *)
(* (4.2, 8) says.  No sizes, no index and no engine encoding appear here; *)
(* TypedStore is checked to implement this.                               *)
(***************************************************************************)
EXTENDS SSDBStore

VARIABLES
    kv,         \* key -> value, or Nil
    hash,       \* field -> value, or Nil
    zset,       \* key -> score, or Nil
    reply       \* the reply of the last call

Init ==
    /\ kv = [k \in Keys |-> Nil]
    /\ hash = [f \in Fields |-> Nil]
    /\ zset = [f \in Fields |-> Nil]
    /\ reply = 0

\* 1 for a member that is not there yet, 0 for one that is.
IsNew(m, f) == IF m[f] = Nil THEN 1 ELSE 0

\* The value incr, hincr and zincr store: by on an absent entry, else
\* the int64 sum.
Added(old, by) == IF old = Nil THEN by ELSE Wrap(old + by)

\* set, setnx, getset and del; multi_set and multi_del of two keys, in
\* argument order, replying the number of keys given.
SetA(k, v) == kv' = [kv EXCEPT ![k] = v] /\ reply' = 1 /\ UNCHANGED <<hash, zset>>
SetNxA(k, v) ==
    IF kv[k] # Nil THEN reply' = 0 /\ UNCHANGED <<kv, hash, zset>> ELSE SetA(k, v)
GetSetA(k, v) == kv' = [kv EXCEPT ![k] = v] /\ reply' = 1 - IsNew(kv, k) /\ UNCHANGED <<hash, zset>>
DelA(k) == kv' = [kv EXCEPT ![k] = Nil] /\ reply' = 1 /\ UNCHANGED <<hash, zset>>
MultiSetA(k, v, k2, v2) ==
    kv' = [kv EXCEPT ![k] = v, ![k2] = v2] /\ reply' = 2 /\ UNCHANGED <<hash, zset>>
MultiDelA(k, k2) == kv' = [kv EXCEPT ![k] = Nil, ![k2] = Nil] /\ reply' = 2 /\ UNCHANGED <<hash, zset>>

\* A value that does not parse as an integer is left alone, replying 0.
IncrA(k, by) ==
    IF kv[k] # Nil /\ ParseInt(kv[k]) = Nil
    THEN reply' = 0 /\ UNCHANGED <<kv, hash, zset>>
    ELSE kv' = [kv EXCEPT ![k] = Added(kv[k], by)] /\ reply' = 1 /\ UNCHANGED <<hash, zset>>

\* hset and zset reply 1 on insert and 0 on update (spec 4.2).
HSetA(f, v) ==
    hash' = [hash EXCEPT ![f] = v] /\ reply' = IsNew(hash, f) /\ UNCHANGED <<kv, zset>>

HDelA(f) ==
    hash' = [hash EXCEPT ![f] = Nil] /\ reply' = 1 - IsNew(hash, f) /\ UNCHANGED <<kv, zset>>

HIncrA(f, by) ==
    IF hash[f] # Nil /\ ParseInt(hash[f]) = Nil
    THEN reply' = 0 /\ UNCHANGED <<kv, hash, zset>>
    ELSE hash' = [hash EXCEPT ![f] = Added(hash[f], by)] /\ reply' = 1 /\ UNCHANGED <<kv, zset>>

\* One field removed by hclear, which replies only when it has finished.
HRemoveA(f) == hash' = [hash EXCEPT ![f] = Nil] /\ UNCHANGED <<kv, zset, reply>>

\* hclear replies once the hash is empty.  The spec gives no contract on
\* the count it replies, so any count is accepted here.
HClearDoneA == hash = [f \in Fields |-> Nil] /\ reply' \in Nat /\ UNCHANGED <<kv, hash, zset>>

ZSetA(f, s) ==
    zset' = [zset EXCEPT ![f] = s] /\ reply' = IsNew(zset, f) /\ UNCHANGED <<kv, hash>>

ZDelA(f) ==
    zset' = [zset EXCEPT ![f] = Nil] /\ reply' = 1 - IsNew(zset, f) /\ UNCHANGED <<kv, hash>>

ZIncrA(f, by) ==
    zset' = [zset EXCEPT ![f] = Added(zset[f], by)] /\ reply' = 1 /\ UNCHANGED <<kv, hash>>

Next ==
    \/ \E f \in Fields :
        \/ \E v \in Vals \cup IntRange : HSetA(f, v) \/ ZSetA(f, v)
        \/ HDelA(f) \/ ZDelA(f) \/ HRemoveA(f)
        \/ \E by \in IntRange : HIncrA(f, by) \/ ZIncrA(f, by)
    \/ HClearDoneA
    \/ \E k \in Keys :
        \/ \E v \in Vals \cup IntRange : SetA(k, v) \/ SetNxA(k, v) \/ GetSetA(k, v)
        \/ DelA(k)
        \/ \E by \in IntRange : IncrA(k, by)
        \/ \E k2 \in Keys : MultiDelA(k, k2) \/ \E v, v2 \in Vals \cup IntRange : MultiSetA(k, v, k2, v2)

Spec == Init /\ [][Next]_<<kv, hash, zset, reply>>

-----------------------------------------------------------------------------
(***************************************************************************)
(* The reads, as answers on the maps.  A scan lists <<key, value>> pairs  *)
(* in key order (spec 8, S2), at most limit of them; a sorted set orders  *)
(* its members by score, then key (S3); zrank and zrrank give the zero-   *)
(* based position from either end, or -1 (4.2); zrange skips offset      *)
(* members and returns the next limit.                                     *)
(***************************************************************************)
Members(m) == {x \in DOMAIN m : m[x] # Nil}
Pairs(m, xs) == [i \in DOMAIN xs |-> <<xs[i], m[xs[i]]>>]
First(s, n) == SubSeq(s, 1, IF n < Len(s) THEN n ELSE Len(s))
Ascending(m, limit) == First(Pairs(m, OrderBy(Members(m), <)), limit)
Descending(m, limit) == First(Pairs(m, OrderBy(Members(m), >)), limit)

ScanA(limit) == Ascending(kv, limit)
RScanA(limit) == Descending(kv, limit)
HScanA(limit) == Ascending(hash, limit)
HRScanA(limit) == Descending(hash, limit)
HSizeA == Cardinality(Members(hash))
ZSizeA == Cardinality(Members(zset))

\* Members of a sorted set z by score, then key, from either end.
ZBefore(z, a, b) == z[a] < z[b] \/ (z[a] = z[b] /\ a < b)
ZAscending(z) == Pairs(z, OrderBy(Members(z), LAMBDA a, b : ZBefore(z, a, b)))
ZDescending(z) == Pairs(z, OrderBy(Members(z), LAMBDA a, b : ZBefore(z, b, a)))
Position(s, f) == LET i == {j \in DOMAIN s : s[j][1] = f} IN IF i = {} THEN -1 ELSE (CHOOSE j \in i : TRUE) - 1

ZRankA(f) == Position(ZAscending(zset), f)
ZRRankA(f) == Position(ZDescending(zset), f)
Slice(s, offset, limit) == LET w == First(s, offset + limit) IN SubSeq(w, offset + 1, Len(w))
ZRangeA(offset, limit) == Slice(ZAscending(zset), offset, limit)
ZRRangeA(offset, limit) == Slice(ZDescending(zset), offset, limit)

=============================================================================
