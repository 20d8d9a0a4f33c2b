---------------------------- MODULE MCQueueStore ----------------------------
(***************************************************************************)
(* QueueStore with the sequence range scaled down: 10000 .. 2^63-1        *)
(* becomes 4 .. 10, so pushes start at 5 and the range is exhausted after *)
(* no push to the front or four to the back (more after pops).                            *)
(***************************************************************************)
EXTENDS QueueStore

MCQITEM_MIN_SEQ == 4
MCQITEM_MAX_SEQ == 10
MCIndexes == {-2, -1, 0, 1}

\* Bounds the binlog, and with it the length of behaviours.
BinlogBound == Len(binlog) <= 6

=============================================================================
