---------------------------- MODULE BinlogQueue ----------------------------
(***************************************************************************)
(* The binlog of BinlogQueue as far as replication reads it.  binlog.cpp *)
(* is not under src/; these operators follow the interface in binlog.h   *)
(* and its description in the spec (4.1): records carry consecutive      *)
(* sequences in commit order, find_next and find_last look them up, and  *)
(* a background task deletes the oldest records once more than CAPACITY  *)
(* are kept.                                                              *)
(***************************************************************************)
EXTENDS SSDBStore

CONSTANTS
    CAPACITY    \* records kept before compaction deletes the oldest

\* The sequence of the newest record, 0 for a binlog never written.
LastSeq(log) == IF log = <<>> THEN 0 ELSE log[Len(log)].seq

\* commit: the records staged by add_log get the next sequences in order.
AddLogs(log, recs) ==
    log \o [i \in 1 .. Len(recs) |->
                [seq |-> LastSeq(log) + i, type |-> recs[i].type,
                 cmd |-> recs[i].cmd, key |-> recs[i].key]]

\* find_next(seq): the oldest record whose sequence is at least seq.
FindNext(log, seq) ==
    LET later == {i \in 1 .. Len(log) : log[i].seq >= seq}
    IN IF later = {} THEN Nil
       ELSE log[CHOOSE i \in later : \A j \in later : i <= j]

\* find_last: the newest record.
FindLast(log) == IF log = <<>> THEN Nil ELSE log[Len(log)]

\* Compaction deletes the oldest record while too many are kept.
NeedsCompaction(log) == Len(log) > CAPACITY

=============================================================================
