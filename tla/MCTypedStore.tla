---------------------------- MODULE MCTypedStore ----------------------------
(***************************************************************************)
(* TypedStore for TLC.  int64 is scaled to INT_BITS = 4 bits written as   *)
(* two 2-bit bytes, so scores range over -8..7.  The cfg's score -3 and   *)
(* increment -3 give, within four records, two members at -3, a member   *)
(* at -6 beside one at -3 (bytes 3,1 and 2,2: misordered little-endian),  *)
(* and a wrap from -9 to 7 = SCORE_MAX beside a negative member.          *)
(***************************************************************************)
EXTENDS TypedStore

MCQITEM_MIN_SEQ == 4
MCQITEM_MAX_SEQ == 10

\* zrange arguments: a plain limit, and an offset whose sum with a limit of
\* UINT_MAX wraps to 0 in uint64.
MCRanges == {<<0, 1>>, <<1, UINT_MAX>>}

\* The score clients pass to zset and the increment of incr, hincr and
\* zincr: three zincr calls take a member from -3 through -6 to 7.
MCScores == {-3}
MCIncrBys == {-3}

\* Bounds the binlog, and with it the length of behaviours.
BinlogBound == Len(binlog) <= 5

\* A tighter bound for the run that combines all three types.
BinlogBound4 == Len(binlog) <= 4

=============================================================================
