----------------------------- MODULE QueueStore -----------------------------
(***************************************************************************)
(* One SSDB queue on a primary: the queue handlers of t_queue.cpp run by  *)
(* clients one after another (the Transaction mutex serialises them), each*)
(* committing its engine writes and its binlog record in one batch.       *)
(***************************************************************************)
EXTENDS SSDBStore

CONSTANTS
    Indexes     \* the index arguments clients pass to qset

VARIABLES
    db,         \* the engine: engine key -> value or Nil
    binlog,     \* the binlog records committed so far, oldest first
    reply       \* the reply of the last handler

vars == <<db, binlog, reply>>

Init ==
    /\ db = EmptyDb
    /\ binlog = <<>>
    /\ reply = 0

\* Run one handler: its batch is written and its records appended only if
\* it commits; the reply is returned either way.
Apply(o) ==
    /\ db' = o.db
    /\ binlog' = binlog \o o.recs
    /\ reply' = o.ret

QPushFront(v) == Apply(QPush(db, v, QFRONT_SEQ, "SYNC"))
QPushBack(v) == Apply(QPush(db, v, QBACK_SEQ, "SYNC"))
QPopFront == Apply(QPop(db, QFRONT_SEQ, "SYNC"))
QPopBack == Apply(QPop(db, QBACK_SEQ, "SYNC"))
QSetAt(i, v) == Apply(QSet(db, i, v, "SYNC"))
QFixAll == Apply(QFix(db))

Next ==
    \/ \E v \in Vals : QPushFront(v) \/ QPushBack(v)
    \/ QPopFront \/ QPopBack
    \/ \E i \in Indexes, v \in Vals : QSetAt(i, v)
    \/ QFixAll

Spec == Init /\ [][Next]_vars

-----------------------------------------------------------------------------
ItemSeqs == QITEM_MIN_SEQ .. QITEM_MAX_SEQ

\* Items hold values, front and back hold item sequences, and a stored
\* size is positive (an empty queue has no size key).
TypeOK ==
    /\ \A s \in ItemSeqs : db[QKey(s)] \in Vals \cup {Nil}
    /\ db[QKey(QFRONT_SEQ)] \in ItemSeqs \cup {Nil}
    /\ db[QKey(QBACK_SEQ)] \in ItemSeqs \cup {Nil}
    /\ db[QSizeKey] \in (1 .. Cardinality(ItemSeqs)) \cup {Nil}
    /\ binlog \in Seq([type : LogTypes, cmd : STRING, key : EngineKeys \cup {QNameKey}])

ItemsLogged ==
    [][QueueItems(db') # QueueItems(db) => Len(binlog') = Len(binlog) + 1]_vars

\* The store implements the abstract queue: every handler is one of the
\* Deque's operations on the items from front to back, with its reply.
D == INSTANCE Deque WITH q <- QueueItems(db), reply <- reply

DequeRefined == D!Spec


(***************************************************************************)
(* The readers agree with the deque: qfront and qback answer            *)
(* the end items, and qget(i) the item at i counted from the front or, if *)
(* negative, from the back, and "not found" past either end.  qget takes  *)
(* the sequence from the front pointer or from the back pointer plus one, *)
(* with no range check of its own; qslice walks the sequences from begin  *)
(* to end and stops at the first gap, answering the items from begin up *)
(* to end or the back, and nothing when begin lies outside the queue.    *)
(* These answers rest on the arithmetic                                  *)
(* at each end and on no item lying outside front..back after any mix of  *)
(* pushes, pops and sets at both ends.                                    *)
(***************************************************************************)
QReadsMatch ==
    LET q == QueueItems(db)
    IN /\ QFront(db) = IF q = <<>> THEN Nil ELSE Head(q)
       /\ QBack(db) = IF q = <<>> THEN Nil ELSE q[Len(q)]
       /\ \A i \in Indexes :
            QGet(db, i) = IF i >= Len(q) \/ i < -Len(q) THEN Nil ELSE q[D!Position(i)]
       /\ \A bi, ei \in Indexes :
            QSlice(db, bi, ei) =
              IF D!Position(bi) \in 1..Len(q)
              THEN SubSeq(q, D!Position(bi), IF D!Position(ei) > Len(q) THEN Len(q) ELSE D!Position(ei))
              ELSE <<>>

=============================================================================
