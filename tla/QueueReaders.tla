---------------------------- MODULE QueueReaders ----------------------------
(***************************************************************************)
(* A reader of a queue racing the writers.  qget (and qfront, qback,      *)
(* which are qget at index 0 and -1) makes two engine reads: the front or *)
(* back pointer, then the item at the computed sequence.  Readers take no *)
(* lock and pass leveldb's default ReadOptions, which carry no snapshot,  *)
(* so any number of committed handlers can fall between the two reads.    *)
(***************************************************************************)
EXTENDS QueueStore

CONSTANTS
    ReadIndexes     \* the index arguments readers pass to qget

VARIABLES
    rpc,            \* "idle", or "item" between the two reads, or "done"
    rindex,         \* the index of the call in progress
    rseq,           \* the item sequence computed from the pointer
    rans,           \* the answer the call returns: an item, or Nil
    rseen           \* the answers the call could correctly return

readerVars == <<rpc, rindex, rseq, rans, rseen>>
allVars == <<vars, readerVars>>

\* The correct answer of qget(i) on an engine state, Nil for "not found".
Answer(d, i) ==
    LET q == QueueItems(d)
    IN IF i >= Len(q) \/ i < -Len(q) THEN Nil
       ELSE IF i >= 0 THEN q[i + 1] ELSE q[Len(q) + i + 1]

RInit ==
    /\ Init
    /\ rpc = "idle" /\ rindex = 0 /\ rseq = 0 /\ rans = Nil /\ rseen = {}

\* qget, first read: the pointer.  An absent pointer answers "not found".
ReadPointer(i) ==
    LET ptr == db[QKey(IF i >= 0 THEN QFRONT_SEQ ELSE QBACK_SEQ)]
    IN /\ rpc = "idle"
       /\ rindex' = i
       /\ rseen' = {Answer(db, i)}
       /\ IF ptr = Nil
          THEN rpc' = "done" /\ rans' = Nil /\ UNCHANGED rseq
          ELSE /\ rpc' = "item"
               /\ rseq' = IF i >= 0 THEN ptr + i ELSE ptr + i + 1
               /\ UNCHANGED rans
       /\ UNCHANGED vars

\* qget, second read: the item at the computed sequence.
ReadItem ==
    /\ rpc = "item"
    /\ rans' = db[QKey(rseq)]
    /\ rpc' = "done"
    /\ UNCHANGED <<vars, rindex, rseq, rseen>>

Return ==
    /\ rpc = "done"
    /\ rpc' = "idle"
    /\ UNCHANGED <<vars, rindex, rseq, rans, rseen>>

\* A handler commits while a call is in progress: its answer on the new
\* state becomes a correct answer for the call too.
Write ==
    /\ Next
    /\ rseen' = IF rpc = "item" THEN rseen \cup {Answer(db', rindex)} ELSE rseen
    /\ UNCHANGED <<rpc, rindex, rseq, rans>>

RNext ==
    \/ Write
    \/ \E i \in ReadIndexes : ReadPointer(i)
    \/ ReadItem
    \/ Return

RSpec == RInit /\ [][RNext]_allVars

-----------------------------------------------------------------------------
(***************************************************************************)
(* A qget is linearizable: what it returns is the correct answer for the  *)
(* queue as it stood at some moment between its first and its last read.  *)
(* The spec (5, "Reads ... snapshot through the engine's own MVCC") says  *)
(* so; the code's two unsnapshotted reads in qget/qfront do not.         *)
(***************************************************************************)
ReadLinearizable == rpc = "done" => rans \in rseen

=============================================================================
