---------------------------- MODULE Replication ----------------------------
(***************************************************************************)
(* Primary-to-replica replication: clients writing on the primary, the   *)
(* BackendSync thread serving one replica (backend_sync.cpp), the TCP     *)
(* link between them, and the Slave thread applying what it receives      *)
(* (slave.cpp).                                                           *)
(*                                                                         *)
(* Every step is one of: a whole write handler on the primary (atomic     *)
(* under the Transaction mutex), one compaction of the binlog, one        *)
(* iteration of Client::sync's loop, one iteration of Client::copy's loop *)
(* or its break, the end of a tick of _run_thread, one frame processed by *)
(* the Slave, one of the two writes of Slave::save_status, a connection   *)
(* made or lost, and a restart of the replica process.                    *)
(***************************************************************************)
EXTENDS BinlogQueue

CONSTANTS
    WriteOps,       \* the write handlers clients call on the primary
    MaxWrites,      \* bound: writes committed on the primary
    MaxDisconnects, \* bound: connections lost
    MaxCrashes,     \* bound: restarts of the replica process
    CHAN_CAPACITY,  \* frames the socket buffers hold before flush blocks
    NOOP_IDLES,     \* idle ticks before a noop (3000 / TICK_INTERVAL_MS)
    Scores          \* the scores clients pass to zset

VARIABLES
    db, binlog, nwrites,            \* primary: engine, binlog, writes done
    cstatus,    \* BackendSync::Client status, "DOWN" when no thread serves
    cpc,        \* where the client thread is in _run_thread's loop
    cbusy,      \* !is_empty: the tick sent something
    cidle,      \* _run_thread's idle: consecutive idle ticks
    clast_seq,  \* Client::last_seq
    clast_key,  \* Client::last_key, <<>> for ""
    citer,      \* Client::iter: Nil, or the snapshot and the last key read
    chan,       \* frames sent by the client and not yet read by the Slave
    sconn,      \* Slave link: "CONNECTED" or "DISCONNECTED"
    rdb,        \* the replica's engine
    slast_seq,  \* Slave::last_seq
    slast_key,  \* Slave::last_key
    spc,        \* "recv", or which write of save_status is pending
    ck,         \* the checkpoint in the meta db: [seq, key]
    ndisc, ncrash

primaryVars == <<db, binlog, nwrites>>
clientVars == <<cstatus, cpc, cbusy, cidle, clast_seq, clast_key, citer>>
slaveVars == <<sconn, rdb, slast_seq, slast_key, spc, ck>>
vars == <<primaryVars, clientVars, chan, slaveVars, ndisc, ncrash>>

\* A frame: a binlog header (seq, type, cmd, key) and a value or Nil.
Msg(seq, type, cmd, key, val) ==
    [seq |-> seq, type |-> type, cmd |-> cmd, key |-> key, val |-> val]

\* The client and the link as they are before any connection.
InitLink ==
    /\ cstatus = "DOWN" /\ cpc = "sync" /\ cbusy = FALSE /\ cidle = 0
    /\ clast_seq = 0 /\ clast_key = <<>> /\ citer = Nil
    /\ chan = <<>> /\ sconn = "DISCONNECTED" /\ spc = "recv"
    /\ ndisc = 0 /\ ncrash = 0

\* A new replica of a new primary: both engines and the binlog empty.
Init ==
    /\ InitLink
    /\ db = EmptyDb /\ binlog = <<>> /\ nwrites = 0
    /\ rdb = EmptyDb /\ slast_seq = 0 /\ slast_key = <<>>
    /\ ck = [seq |-> 0, key |-> <<>>]

\* The write that puts data on the primary before the replica attaches:
\* a set, or an hset where no KV keys are modelled.
SeedWrite ==
    IF Keys # {} THEN Set(EmptyDb, CHOOSE k \in Keys : TRUE, CHOOSE v \in Vals : TRUE, "SYNC")
    ELSE HSet(EmptyDb, CHOOSE f \in Fields : TRUE, CHOOSE v \in Vals : TRUE, "SYNC")

\* A replica that has finished its copy and is in sync: both engines hold
\* the result of one write, the binlog its record, and the checkpoint its
\* sequence with the last_key that COPY/END cleared.
SyncedInit ==
    LET o == SeedWrite
    IN /\ InitLink
       /\ db = o.db /\ binlog = AddLogs(<<>>, o.recs) /\ nwrites = 0
       /\ rdb = o.db /\ slast_seq = 1 /\ slast_key = <<>>
       /\ ck = [seq |-> 1, key |-> <<>>]

\* A new replica attached to a primary that holds data: the primary as in
\* SyncedInit, the replica empty with no checkpoint.
AttachInit ==
    LET o == SeedWrite
    IN /\ InitLink
       /\ db = o.db /\ binlog = AddLogs(<<>>, o.recs) /\ nwrites = 0
       /\ rdb = EmptyDb /\ slast_seq = 0 /\ slast_key = <<>>
       /\ ck = [seq |-> 0, key |-> <<>>]

(***************************************************************************)
(* The primary.                                                            *)
(***************************************************************************)
\* The outcomes of the write handlers a client may call.
WriteOutcomes(d) ==
    UNION {
      IF "set" \in WriteOps THEN {Set(d, k, v, "SYNC") : k \in Keys, v \in Vals} ELSE {},
      IF "del" \in WriteOps THEN {Del(d, k, "SYNC") : k \in Keys} ELSE {},
      IF "qpush" \in WriteOps
      THEN {QPush(d, v, fb, "SYNC") : v \in Vals, fb \in {QFRONT_SEQ, QBACK_SEQ}} ELSE {},
      IF "qpop" \in WriteOps
      THEN {QPop(d, fb, "SYNC") : fb \in {QFRONT_SEQ, QBACK_SEQ}} ELSE {},
      IF "qset" \in WriteOps THEN {QSet(d, i, v, "SYNC") : i \in {0, -1}, v \in Vals} ELSE {},
      IF "hset" \in WriteOps THEN {HSet(d, f, v, "SYNC") : f \in Fields, v \in Vals} ELSE {},
      IF "hdel" \in WriteOps THEN {HDel(d, f, "SYNC") : f \in Fields} ELSE {},
      IF "zset" \in WriteOps THEN {ZSet(d, f, s, "SYNC") : f \in Fields, s \in Scores} ELSE {},
      IF "zdel" \in WriteOps THEN {ZDel(d, f, "SYNC") : f \in Fields} ELSE {}}

\* A client's write handler commits its batch and records.
ClientWrite ==
    /\ nwrites < MaxWrites
    /\ \E o \in WriteOutcomes(db) :
          /\ o.commit
          /\ db' = o.db
          /\ binlog' = AddLogs(binlog, o.recs)
    /\ nwrites' = nwrites + 1
    /\ UNCHANGED <<clientVars, chan, slaveVars, ndisc, ncrash>>

\* The compaction thread deletes the oldest record.
Compact ==
    /\ NeedsCompaction(binlog)
    /\ binlog' = Tail(binlog)
    /\ UNCHANGED <<db, nwrites, clientVars, chan, slaveVars, ndisc, ncrash>>

(***************************************************************************)
(* The connection.  Slave::connect sends sync140 with the replica's       *)
(* last_seq and last_key; the primary starts a BackendSync thread whose   *)
(* Client::init decides between a resumed SYNC and a COPY.                *)
(***************************************************************************)
\* A new BackendSync thread runs Client::init on the sync140 request: it
\* takes last_seq and last_key from it, and resumes SYNC at once (sending
\* COPY/END) when last_key is empty and last_seq is not 0, else starts or
\* resumes a COPY.
ClientInit(last_seq, last_key) ==
    /\ clast_seq' = last_seq
    /\ clast_key' = last_key
    /\ citer' = Nil
    /\ cpc' = "sync"
    /\ cbusy' = FALSE
    /\ cidle' = 0
    /\ IF last_key = <<>> /\ last_seq # 0
       THEN /\ cstatus' = "SYNC"
            /\ chan' = <<Msg(last_seq, "COPY", "END", <<>>, Nil)>>
       ELSE /\ cstatus' = "COPY"
            /\ chan' = <<>>

\* Slave::connect, once the link is gone and save_status is done: connect
\* and send sync140 with the replica's last_seq and last_key.  A failed
\* connect, auth or flush only makes the Slave try again later.
Connect ==
    /\ sconn = "DISCONNECTED" /\ cstatus = "DOWN" /\ spc = "recv"
    /\ sconn' = "CONNECTED"
    /\ ClientInit(slast_seq, slast_key)
    /\ UNCHANGED <<primaryVars, rdb, slast_seq, slast_key, spc, ck, ndisc, ncrash>>

\* The link breaks (a flush error on the primary, a read error or the
\* idle timeout on the replica): frames in flight are lost, the client
\* thread quits, and the Slave will reconnect.
Disconnect ==
    /\ sconn = "CONNECTED"
    /\ ndisc < MaxDisconnects
    /\ sconn' = "DISCONNECTED"
    /\ cstatus' = "DOWN"
    /\ citer' = Nil
    /\ chan' = <<>>
    /\ ndisc' = ndisc + 1
    /\ UNCHANGED <<primaryVars, cpc, cbusy, cidle, cidle, clast_seq, clast_key,
                   rdb, slast_seq, slast_key, spc, ck, ncrash>>

\* The replica process restarts: its engine keeps what was committed,
\* last_seq and last_key are reloaded from the checkpoint (load_status).
SlaveRestart ==
    /\ ncrash < MaxCrashes
    /\ ncrash' = ncrash + 1
    /\ slast_seq' = ck.seq
    /\ slast_key' = ck.key
    /\ spc' = "recv"
    /\ sconn' = "DISCONNECTED"
    /\ cstatus' = "DOWN"
    /\ citer' = Nil
    /\ chan' = <<>>
    /\ UNCHANGED <<primaryVars, cpc, cbusy, cidle, cidle, clast_seq, clast_key, rdb, ck, ndisc>>

(***************************************************************************)
(* The BackendSync client thread.  cpc is "sync" inside Client::sync's    *)
(* loop, "copy" on entering Client::copy and "copying" after at least one *)
(* of its iterations, "end" at the noop/sleep/flush end of a tick, and    *)
(* "reset" at the top of the next tick when the status is OUT_OF_SYNC.   *)
(* A step that sends needs room in the socket buffers: the link is        *)
(* blocking, so flush waits until the replica reads.                      *)
(***************************************************************************)
\* Mutant: a send that does not wait for room in the socket buffers.
ServingNoRoom == cstatus # "DOWN"

Serving == cstatus # "DOWN" /\ Len(chan) < CHAN_CAPACITY
Send(m) == chan' = Append(chan, m)

\* The record Client::sync looks at: the newest one on a fresh COPY,
\* otherwise the first at or after last_seq + 1.
SyncLog ==
    IF cstatus = "COPY" /\ clast_seq = 0 THEN FindLast(binlog)
    ELSE FindNext(binlog, clast_seq + 1)

AfterSync == IF cstatus = "COPY" THEN "copy" ELSE "end"

SetLikeCmds == {"KSET", "HSET", "ZSET", "QSET", "QPUSH_BACK", "QPUSH_FRONT"}

\* sync: no record to send; return 0.
SyncNone ==
    /\ Serving /\ cpc = "sync"
    /\ SyncLog = Nil
    /\ cpc' = AfterSync
    /\ UNCHANGED <<primaryVars, cstatus, cbusy, cidle, clast_seq, clast_key, citer,
                   chan, slaveVars, ndisc, ncrash>>

\* Mutant: skip-ahead that keeps the iterator created before the write.
SyncSkipAheadKeepIter ==
    /\ Serving /\ cpc = "sync"
    /\ SyncLog # Nil
    /\ cstatus = "COPY" /\ KeyLess(clast_key, SyncLog.key)
    /\ clast_seq' = SyncLog.seq
    /\ UNCHANGED <<primaryVars, cstatus, cpc, cbusy, cidle, clast_key, citer, chan,
                   slaveVars, ndisc, ncrash>>

\* sync during COPY: a record beyond the copy position is skipped, since
\* the copy will reach its key, and the iterator is dropped so that the
\* copy sees the write.
SyncSkipAhead ==
    /\ Serving /\ cpc = "sync"
    /\ SyncLog # Nil
    /\ cstatus = "COPY" /\ KeyLess(clast_key, SyncLog.key)
    /\ clast_seq' = SyncLog.seq
    /\ citer' = Nil
    /\ UNCHANGED <<primaryVars, cstatus, cpc, cbusy, cidle, clast_key, chan,
                   slaveVars, ndisc, ncrash>>

\* sync: the next record was compacted away.
SyncOutOfSync ==
    /\ Serving /\ cpc = "sync"
    /\ SyncLog # Nil
    /\ ~(cstatus = "COPY" /\ KeyLess(clast_key, SyncLog.key))
    /\ clast_seq # 0 /\ SyncLog.seq # clast_seq + 1
    /\ cstatus' = "OUT_OF_SYNC"
    /\ cbusy' = TRUE
    /\ cpc' = "end"
    /\ UNCHANGED <<primaryVars, cidle, clast_seq, clast_key, citer, chan,
                   slaveVars, ndisc, ncrash>>



\* sync: forward the record, a set-like one with the key's value as the
\* engine holds it now, and nothing if the key is gone.
SyncSend ==
    /\ Serving /\ cpc = "sync"
    /\ SyncLog # Nil
    /\ ~(cstatus = "COPY" /\ KeyLess(clast_key, SyncLog.key))
    /\ ~(clast_seq # 0 /\ SyncLog.seq # clast_seq + 1)
    /\ LET log == SyncLog
           m == Msg(log.seq, log.type, log.cmd, log.key, Nil)
       IN /\ clast_seq' = log.seq
          /\ IF log.cmd \in SetLikeCmds
             THEN IF db[log.key] = Nil THEN UNCHANGED chan
                  ELSE Send([m EXCEPT !.val = db[log.key]])
             ELSE Send(m)
    /\ cbusy' = TRUE
    /\ cpc' = AfterSync
    /\ UNCHANGED <<primaryVars, cidle, cstatus, clast_key, citer, slaveVars, ndisc, ncrash>>

\* The copy iterator: iterator(last_key or MIN_PREFIX, "", -1) reads a
\* snapshot of the engine from its start key, exclusive.
CopyIter ==
    IF citer # Nil THEN citer
    ELSE [snap |-> db, pos |-> IF clast_key = <<>> THEN <<MIN_PREFIX>> ELSE clast_key]

\* Iterator::next: the smallest live key of the snapshot after pos.
IterNext(it) ==
    LET ks == {k \in DOMAIN it.snap : it.snap[k] # Nil /\ KeyLess(it.pos, k)}
    IN IF ks = {} THEN Nil ELSE CHOOSE k \in ks : \A j \in ks \ {k} : KeyLess(k, j)

\* The command a copied key is sent as; Nil for types copy skips.
CopyCmd(tag) ==
    CASE tag = KV -> "KSET" [] tag = HASH -> "HSET" [] tag = ZSET -> "ZSET"
      [] tag = QUEUE -> "QPUSH_BACK" [] OTHER -> Nil

\* next() returned false, or the key's type is past MAX_PREFIX.
PastUserKeys(k) == IF k = Nil THEN TRUE ELSE k[1] > MAX_PREFIX

\* copy: the iterator is exhausted or left the user types.
CopyEnd ==
    /\ Serving /\ cpc \in {"copy", "copying"}
    /\ PastUserKeys(IterNext(CopyIter))
    /\ cstatus' = "SYNC"
    /\ citer' = Nil
    /\ Send(Msg(clast_seq, "COPY", "END", <<>>, Nil))
    /\ cbusy' = TRUE
    /\ cpc' = "end"
    /\ UNCHANGED <<primaryVars, cidle, clast_seq, clast_key, slaveVars, ndisc, ncrash>>

\* copy: ship one key of the snapshot, tagged with the current last_seq.
CopyKey ==
    /\ Serving /\ cpc \in {"copy", "copying"}
    /\ LET it == CopyIter
           k == IterNext(it)
       IN /\ ~PastUserKeys(k)
          /\ clast_key' = k
          /\ citer' = [it EXCEPT !.pos = k]
          /\ IF CopyCmd(k[1]) = Nil THEN UNCHANGED <<chan, cbusy>>
             ELSE /\ Send(Msg(clast_seq, "COPY", CopyCmd(k[1]), k, it.snap[k]))
                  /\ cbusy' = TRUE
    /\ cpc' = "copying"
    /\ UNCHANGED <<primaryVars, cidle, cstatus, clast_seq, slaveVars, ndisc, ncrash>>

\* copy: the batch, size or time limit ends this call after an iteration.
CopyBreak ==
    /\ cstatus # "DOWN" /\ cpc = "copying"
    /\ cpc' = "end"
    /\ UNCHANGED <<primaryVars, cstatus, cbusy, cidle, clast_seq, clast_key, citer,
                   chan, slaveVars, ndisc, ncrash>>

\* Mutant: the loop does not check for OUT_OF_SYNC before syncing.
NextTickNoReset == "sync"

NextTick == IF cstatus = "OUT_OF_SYNC" THEN "reset" ELSE "sync"

\* The end of a tick: a busy tick clears idle, an idle one counts it and
\* sleeps; then flush, and loop.
TickEnd ==
    /\ cstatus # "DOWN" /\ cpc = "end"
    /\ cbusy \/ cidle < NOOP_IDLES
    /\ cidle' = IF cbusy THEN 0 ELSE cidle + 1
    /\ cpc' = NextTick
    /\ cbusy' = FALSE
    /\ UNCHANGED <<primaryVars, cstatus, clast_seq, clast_key, citer, chan,
                   slaveVars, ndisc, ncrash>>

\* The end of the NOOP_IDLES-th idle tick in a row: noop sends the current
\* position (0 while a COPY has not shipped a key), then flush.
Noop ==
    /\ Serving /\ cpc = "end" /\ ~cbusy /\ cidle >= NOOP_IDLES
    /\ Send(Msg(IF cstatus = "COPY" /\ clast_key = <<>> THEN 0 ELSE clast_seq,
                "NOOP", "NONE", <<>>, Nil))
    /\ cidle' = 0
    /\ cpc' = NextTick
    /\ UNCHANGED <<primaryVars, cstatus, cbusy, clast_seq, clast_key, citer,
                   slaveVars, ndisc, ncrash>>

\* reset: start a new COPY from scratch after OUT_OF_SYNC.  The iterator
\* is left as it is.
Reset ==
    /\ Serving /\ cpc = "reset"
    /\ cstatus' = "COPY"
    /\ clast_seq' = 0
    /\ clast_key' = <<>>
    /\ Send(Msg(0, "COPY", "BEGIN", <<>>, Nil))
    /\ cpc' = "sync"
    /\ UNCHANGED <<primaryVars, cbusy, cidle, citer, slaveVars, ndisc, ncrash>>

(***************************************************************************)
(* The Slave thread.                                                       *)
(***************************************************************************)
\* proc_sync: re-execute the record with the typed handler.  A queue
\* record whose sequence is outside the item range is dropped; a push is
\* made at the replica's own end, whatever sequence the primary used.
ProcSync(d, m) ==
    LET seq == m.key[4] IN
    CASE m.cmd = "KSET" -> Set(d, m.key[2], m.val, "SYNC")
      [] m.cmd = "KDEL" -> Del(d, m.key[2], "SYNC")
      [] m.cmd \in {"QSET", "QPUSH_BACK", "QPUSH_FRONT"}
           /\ (seq < QITEM_MIN_SEQ \/ seq > QITEM_MAX_SEQ) -> Abort(d, 0)
      [] m.cmd = "QSET" -> QSetBySeq(d, seq, m.val, "SYNC")
      [] m.cmd = "QPUSH_BACK" -> QPush(d, m.val, QBACK_SEQ, "SYNC")
      [] m.cmd = "QPUSH_FRONT" -> QPush(d, m.val, QFRONT_SEQ, "SYNC")
      [] m.cmd = "QPOP_BACK" -> QPop(d, QBACK_SEQ, "SYNC")
      [] m.cmd = "QPOP_FRONT" -> QPop(d, QFRONT_SEQ, "SYNC")
      [] m.cmd = "HSET" -> HSet(d, m.key[5], m.val, "SYNC")
      [] m.cmd = "HDEL" -> HDel(d, m.key[5], "SYNC")
      [] m.cmd = "ZSET" -> ZSet(d, m.key[5], m.val, "SYNC")
      [] m.cmd = "ZDEL" -> ZDel(d, m.key[5], "SYNC")

Recv == sconn = "CONNECTED" /\ spc = "recv" /\ chan # <<>>

\* proc_noop: adopt the primary's position and save it.
RecvNoop ==
    /\ Recv /\ Head(chan).type = "NOOP"
    /\ chan' = Tail(chan)
    /\ IF slast_seq # Head(chan).seq
       THEN slast_seq' = Head(chan).seq /\ spc' = "save_key"
       ELSE UNCHANGED <<slast_seq, spc>>
    /\ UNCHANGED <<primaryVars, clientVars, sconn, rdb, slast_key, ck, ndisc, ncrash>>

\* proc_copy, COPY/BEGIN: nothing to do.
RecvCopyBegin ==
    /\ Recv /\ Head(chan).type = "COPY" /\ Head(chan).cmd = "BEGIN"
    /\ chan' = Tail(chan)
    /\ UNCHANGED <<primaryVars, clientVars, slaveVars, ndisc, ncrash>>

\* proc_copy, COPY/END: the copy is over; clear last_key and save.
\* last_seq stays what the copied records carried.
RecvCopyEnd ==
    /\ Recv /\ Head(chan).type = "COPY" /\ Head(chan).cmd = "END"
    /\ chan' = Tail(chan)
    /\ slast_key' = <<>>
    /\ spc' = "save_key"
    /\ UNCHANGED <<primaryVars, clientVars, sconn, rdb, slast_seq, ck, ndisc, ncrash>>

\* proc_sync on a data record (from COPY or SYNC): apply it; unless the
\* handler failed, advance last_seq (and last_key for a COPY record) and
\* start save_status.  proc ignores the failure otherwise.
RecvData ==
    /\ Recv /\ Head(chan).type \in {"COPY", "SYNC"}
    /\ Head(chan).cmd \notin {"BEGIN", "END"}
    /\ LET m == Head(chan)
           o == ProcSync(rdb, m)
       IN /\ chan' = Tail(chan)
          /\ IF o.ret = -1 THEN UNCHANGED <<rdb, slast_seq, slast_key, spc>>
             ELSE /\ rdb' = o.db
                  /\ slast_seq' = m.seq
                  /\ slast_key' = IF m.type = "COPY" THEN m.key ELSE slast_key
                  /\ spc' = "save_key"
    /\ UNCHANGED <<primaryVars, clientVars, sconn, ck, ndisc, ncrash>>

\* save_status writes last_key, then last_seq, to the meta db.
SaveKey ==
    /\ spc = "save_key"
    /\ ck' = [ck EXCEPT !.key = slast_key]
    /\ spc' = "save_seq"
    /\ UNCHANGED <<primaryVars, clientVars, chan, sconn, rdb, slast_seq, slast_key,
                   ndisc, ncrash>>

SaveSeq ==
    /\ spc = "save_seq"
    /\ ck' = [ck EXCEPT !.seq = slast_seq]
    /\ spc' = "recv"
    /\ UNCHANGED <<primaryVars, clientVars, chan, sconn, rdb, slast_seq, slast_key,
                   ndisc, ncrash>>

Next ==
    \/ ClientWrite \/ Compact
    \/ Connect \/ Disconnect \/ SlaveRestart
    \/ SyncNone \/ SyncSkipAhead \/ SyncOutOfSync \/ SyncSend
    \/ CopyEnd \/ CopyKey \/ CopyBreak
    \/ TickEnd \/ Noop \/ Reset
    \/ RecvNoop \/ RecvCopyBegin \/ RecvCopyEnd \/ RecvData
    \/ SaveKey \/ SaveSeq

Spec == Init /\ [][Next]_vars
SyncedSpec == SyncedInit /\ [][Next]_vars
AttachSpec == AttachInit /\ [][Next]_vars

\* The BackendSync thread and the Slave thread each loop without end while
\* their link is up (the Slave reconnects after an error), so each makes
\* progress whenever it can.  Clients, compaction, link errors and crashes
\* need not happen.
ClientStep ==
    \/ SyncNone \/ SyncSkipAhead \/ SyncOutOfSync \/ SyncSend
    \/ CopyEnd \/ CopyKey \/ CopyBreak \/ TickEnd \/ Noop \/ Reset
SlaveStep ==
    \/ Connect \/ RecvNoop \/ RecvCopyBegin \/ RecvCopyEnd \/ RecvData
    \/ SaveKey \/ SaveSeq
FairSyncedSpec == SyncedSpec /\ WF_vars(ClientStep) /\ WF_vars(SlaveStep)

-----------------------------------------------------------------------------
Statuses == {"DOWN", "COPY", "SYNC", "OUT_OF_SYNC"}

TypeOK ==
    /\ cstatus \in Statuses
    /\ cidle \in 0 .. NOOP_IDLES
    /\ cpc \in {"sync", "copy", "copying", "end", "reset"}
    /\ clast_seq \in 0 .. MaxWrites + 1 /\ slast_seq \in 0 .. MaxWrites + 1
    /\ ck \in [seq : 0 .. MaxWrites + 1, key : {<<>>} \cup EngineKeys]
    /\ slast_key \in {<<>>} \cup EngineKeys
    /\ spc \in {"recv", "save_key", "save_seq"}
    /\ sconn \in {"CONNECTED", "DISCONNECTED"}
    /\ Len(chan) <= CHAN_CAPACITY

\* What a client can read: every KV, hash, sorted-set and size entry and
\* the ZSCORE index directly, a queue from front to back.
UserView(d) ==
    <<[k \in EngineKeys \ ({QKey(s) : s \in QSeqs} \cup {QSizeKey}) |-> d[k]],
      QueueItems(d), d[QSizeKey]>>

\* The replica has caught up: the client is in SYNC past the newest
\* record and every frame it sent has been applied.
Drained ==
    /\ sconn = "CONNECTED" /\ cstatus = "SYNC"
    /\ clast_seq = LastSeq(binlog)
    /\ chan = <<>> /\ spc = "recv"

(***************************************************************************)
(* Replica convergence (spec 8.6, 8.7): whenever the replica has caught   *)
(* up with the primary, every user-level read gives the same answer on    *)
(* both.  Reaching it needs copy and sync to hand over correctly while    *)
(* writes race the iterator, forwarded values to be right although sync   *)
(* reads the current one, and a resumed or restarted replica to neither   *)
(* miss nor repeat a record.                                              *)
(***************************************************************************)
ReplicaConverges == Drained => UserView(rdb) = UserView(db)

(***************************************************************************)
(* The replica catches up (spec 8.7, S6): once writes stop, the client    *)
(* ends in SYNC and the replica's last_seq reaches the primary's newest   *)
(* record and stays there, whatever compaction did to the records it      *)
(* still needed.  It takes OUT_OF_SYNC, reset, a copy that terminates     *)
(* although each write drops the iterator, COPY/END, and the noops that   *)
(* carry a position past records sync skipped.                            *)
(***************************************************************************)
ReplicaCatchesUp == <>[](cstatus = "SYNC" /\ slast_seq = LastSeq(binlog))

=============================================================================
