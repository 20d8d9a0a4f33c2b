--------------------------- MODULE MCQueueReaders ---------------------------
(***************************************************************************)
(* QueueReaders with the bounds of MCQueueStore and one reader asking for *)
(* the front, the back, and the second item.                              *)
(***************************************************************************)
EXTENDS QueueReaders

MCQITEM_MIN_SEQ == 4
MCQITEM_MAX_SEQ == 10
MCIndexes == {0}
MCReadIndexes == {-1, 0, 1}

BinlogBound == Len(binlog) <= 4

=============================================================================
