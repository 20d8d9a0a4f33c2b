--------------------------- MODULE MCReplication ---------------------------
(***************************************************************************)
(* Replication instantiated for TLC: two KV keys (bytes 1 and 2, below    *)
(* the queue's keys as 'k' < 'q'), one queue named 'a' (a byte below      *)
(* every tag, so its raw name sorts before every engine key), and the     *)
(* item range 4 .. 10 of MCQueueStore.                                     *)
(***************************************************************************)
EXTENDS Replication

MCQITEM_MIN_SEQ == 4
MCQITEM_MAX_SEQ == 10

\* Scores clients pass to zset: an update from one to the other moves
\* the index entry across the sign byte.
MCScores == {-1, 1}

=============================================================================
