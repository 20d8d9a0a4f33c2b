------------------------------ MODULE Server ------------------------------
(***************************************************************************)
(* NetworkServer::serve (net/server.cpp): one event-loop thread and two   *)
(* ProcWorkerPools, "reader" and "writer", whose threads run the commands *)
(* flagged THREAD.  Each client has one connection: it sends framed       *)
(* requests, which the network delivers in chunks, and may close.         *)
(*                                                                         *)
(* The loop: swap the ready lists, wait for events, handle each event     *)
(* (accept, a pool's result, a link readable or writable), then run one   *)
(* request of every link on the ready list.  A request is answered on the *)
(* loop (ping, auth, errors), handed to a pool (the link leaves the event *)
(* set until its result comes back) or to a backend (the link leaves the  *)
(* server).  A pool's results are a SelectableQueue: an item and one pipe *)
(* byte per result, the pipe being what the loop waits on.                *)
(***************************************************************************)
EXTENDS LinkFraming, FiniteSets, SequencesExt

CONSTANTS
    Clients,        \* the client connections
    Requests,       \* the requests clients send, each a sequence of records
    MaxRequests,    \* bound on the requests of each client, a function of the client
    Chunks,         \* the sizes in which the network may split a client's bytes
    NUM_READERS,    \* threads of the reader pool
    NUM_WRITERS,    \* threads of the writer pool
    NeedAuth,       \* server.auth is set
    PASSWORD,       \* its value, as a record
    NoJob           \* an idle worker's job

Pools == {"reader", "writer"}
Workers == ({"reader"} \X (1 .. NUM_READERS)) \cup ({"writer"} \X (1 .. NUM_WRITERS))

VARIABLES
    conn,       \* "none", "connecting", "open" (a Link), "deleted", "backend"
    closed,     \* the client has closed its socket
    sent,       \* the requests the client has sent, in order
    pend,       \* bytes the client sent that the network has not delivered
    sock,       \* bytes delivered to the server's socket, not yet read
    input,      \* link->input
    auth,       \* link->auth
    output,     \* link->output, as the replies it holds
    recvd,      \* the replies the client has received
    evIn,       \* FDEVENT_IN is set for the link in fdes
    evOut,      \* FDEVENT_OUT is set for the link in fdes
    err,        \* link->error(), set by mark_error
    readyList,  \* ready_list
    readyList2, \* ready_list_2
    jobs,       \* each pool's jobs Queue
    results,    \* each pool's results SelectableQueue: its items
    pipe,       \* and the bytes in its pipe
    wjob,       \* the job each worker thread holds
    mpc,        \* the loop: "wait", "events", "pop" or "ready"
    events,     \* the events fdes->wait returned, not yet handled
    mpool,      \* the pool whose pipe byte the loop has read
    link_count

clientVars == <<conn, closed, sent, pend, sock>>
linkVars == <<input, auth, output, recvd, evIn, evOut, err>>
loopVars == <<readyList, readyList2, mpc, events, mpool, link_count>>
poolVars == <<jobs, results, pipe, wjob>>
vars == <<clientVars, linkVars, loopVars, poolVars>>

(***************************************************************************)
(* The command table.  ping and auth are the built-in procs of            *)
(* NetworkServer (flag "r", run on the loop); the others stand for the    *)
(* commands serv.cpp registers with the THREAD, THREAD|WRITE and BACKEND  *)
(* flags.  Any other name is unknown.                                     *)
(***************************************************************************)
PING == <<"p">>
AUTH == <<"a">>
Kind(name) ==
    CASE name = PING -> "direct"
      [] name = AUTH -> "auth"
      [] name = <<"r">> -> "reader"
      [] name = <<"w">> -> "writer"
      [] name = <<"b">> -> "backend"
      [] OTHER -> "unknown"

\* A reply names the request it answers and its status word.
Reply(req, st) == [req |-> req, st |-> st]

Init ==
    /\ conn = [c \in Clients |-> "none"]
    /\ closed = [c \in Clients |-> FALSE]
    /\ sent = [c \in Clients |-> <<>>]
    /\ pend = [c \in Clients |-> <<>>]
    /\ sock = [c \in Clients |-> <<>>]
    /\ input = [c \in Clients |-> <<>>]
    /\ auth = [c \in Clients |-> FALSE]
    /\ output = [c \in Clients |-> <<>>]
    /\ recvd = [c \in Clients |-> <<>>]
    /\ evIn = [c \in Clients |-> FALSE]
    /\ evOut = [c \in Clients |-> FALSE]
    /\ err = [c \in Clients |-> FALSE]
    /\ readyList = <<>> /\ readyList2 = <<>>
    /\ jobs = [p \in Pools |-> <<>>]
    /\ results = [p \in Pools |-> <<>>]
    /\ pipe = [p \in Pools |-> 0]
    /\ wjob = [w \in Workers |-> NoJob]
    /\ mpc = "wait" /\ events = {} /\ mpool = "reader"
    /\ link_count = 0

-----------------------------------------------------------------------------
(* The clients and the network. *)

ClientConnect(c) ==
    /\ conn[c] = "none"
    /\ conn' = [conn EXCEPT ![c] = "connecting"]
    /\ UNCHANGED <<closed, sent, pend, sock, linkVars, loopVars, poolVars>>

ClientSend(c, r) ==
    /\ conn[c] \in {"connecting", "open"} /\ ~closed[c]
    /\ Len(sent[c]) < MaxRequests[c]
    /\ sent' = [sent EXCEPT ![c] = Append(@, r)]
    /\ pend' = [pend EXCEPT ![c] = @ \o Encode(r)]
    /\ UNCHANGED <<conn, closed, sock, linkVars, loopVars, poolVars>>

\* The network delivers the next chunk of what the client sent.
Deliver(c) ==
    /\ pend[c] # <<>>
    /\ \E n \in {k \in Chunks : k < Len(pend[c])} \cup {Len(pend[c])} :
          /\ sock' = [sock EXCEPT ![c] = @ \o SubSeq(pend[c], 1, n)]
          /\ pend' = [pend EXCEPT ![c] = SubSeq(@, n + 1, Len(@))]
    /\ UNCHANGED <<conn, closed, sent, linkVars, loopVars, poolVars>>

ClientClose(c) ==
    /\ conn[c] \in {"connecting", "open"} /\ ~closed[c]
    /\ closed' = [closed EXCEPT ![c] = TRUE]
    /\ UNCHANGED <<conn, sent, pend, sock, linkVars, loopVars, poolVars>>

\* The client's FIN has reached the server: a read returns 0.
PeerEOF(c) == closed[c] /\ pend[c] = <<>>

-----------------------------------------------------------------------------
(* The event loop. *)

\* Variant of DeleteLink that decrements link_count twice.
DeleteLinkTwice(c) ==
    /\ conn' = [conn EXCEPT ![c] = "deleted"]
    /\ evIn' = [evIn EXCEPT ![c] = FALSE]
    /\ evOut' = [evOut EXCEPT ![c] = FALSE]
    /\ link_count' = link_count - 2

\* Deleting a link: link_count--, fdes->del, delete link.
DeleteLink(c) ==
    /\ conn' = [conn EXCEPT ![c] = "deleted"]
    /\ evIn' = [evIn EXCEPT ![c] = FALSE]
    /\ evOut' = [evOut EXCEPT ![c] = FALSE]
    /\ link_count' = link_count - 1

\* Link::write on output out: the socket takes the first k replies, which
\* reach the client, and output->decr drops them from the buffer.
LinkWrite(c, out, k) ==
    /\ recvd' = [recvd EXCEPT ![c] = @ \o SubSeq(out, 1, k)]
    /\ output' = [output EXCEPT ![c] = SubSeq(out, k + 1, Len(out))]

\* Variant of ProcResult that, with input buffered, registers IN instead
\* of queuing the link.
ProcResultWaitsForInput(c, in, out, toReady2) ==
    \/ /\ closed[c] /\ out # <<>>
       /\ DeleteLink(c)
       /\ UNCHANGED <<output, recvd>>
       /\ IF toReady2 THEN UNCHANGED readyList2 ELSE UNCHANGED readyList
    \/ \E k \in 0 .. Len(out) :
         /\ LinkWrite(c, out, k)
         /\ evOut' = IF k < Len(out) THEN [evOut EXCEPT ![c] = TRUE] ELSE evOut
         /\ evIn' = [evIn EXCEPT ![c] = TRUE]
         /\ IF toReady2 THEN UNCHANGED readyList2 ELSE UNCHANGED readyList
         /\ UNCHANGED <<conn, link_count>>

(***************************************************************************)
(* proc_result, on a link whose input buffer holds in and whose output  *)
(* holds out (what the proc just sent included): write as much as       *)
(* the socket takes (a write to a closed peer may fail, and the link is   *)
(* deleted); register OUT while output is left; then either wait for     *)
(* input (IN) or, with input buffered, clear IN and queue the link on    *)
(* ready_list (toReady2 FALSE) or ready_list_2 (TRUE).                   *)
(***************************************************************************)
ProcResult(c, in, out, toReady2) ==
    \/ /\ closed[c] /\ out # <<>>
       /\ DeleteLink(c)
       /\ UNCHANGED <<output, recvd>>
       /\ IF toReady2 THEN UNCHANGED readyList2 ELSE UNCHANGED readyList
    \/ \E k \in 0 .. Len(out) :
         /\ LinkWrite(c, out, k)
         /\ evOut' = IF k < Len(out) THEN [evOut EXCEPT ![c] = TRUE] ELSE evOut
         /\ evIn' = [evIn EXCEPT ![c] = (in = <<>>)]
         /\ IF toReady2
            THEN readyList2' = IF in = <<>> THEN readyList2 ELSE Append(readyList2, c)
            ELSE readyList' = IF in = <<>> THEN readyList ELSE Append(readyList, c)
         /\ UNCHANGED <<conn, link_count>>

\* The loop top: swap the ready lists and wait.  fdes->wait reports the
\* listening socket if a client is connecting, a pool whose pipe holds a
\* byte, and a link that is readable (IN set, with bytes or EOF) or
\* writable (OUT set, and the client's socket has room: any subset).
Wait ==
    /\ mpc = "wait"
    /\ \E writable \in SUBSET {c \in Clients : conn[c] = "open" /\ evOut[c]} :
         LET readable == {c \in Clients : conn[c] = "open" /\ evIn[c] /\ (sock[c] # <<>> \/ PeerEOF(c))}
             evs == {[kind |-> "accept"] : x \in {c \in Clients : conn[c] = "connecting"}}
                    \cup {[kind |-> "pool", pool |-> p] : p \in {q \in Pools : pipe[q] > 0}}
                    \cup {[kind |-> "link", link |-> c, in |-> c \in readable, out |-> c \in writable] :
                            c \in readable \cup writable}
         IN /\ evs # {} \/ readyList2 # <<>>
            /\ events' = evs
    /\ readyList' = readyList2
    /\ readyList2' = <<>>
    /\ mpc' = "events"
    /\ UNCHANGED <<clientVars, linkVars, mpool, link_count, poolVars>>

\* accept_link: link_count++ and register IN.
EvAccept(e) ==
    /\ e.kind = "accept"
    /\ \E c \in Clients :
         /\ conn[c] = "connecting"
         /\ conn' = [conn EXCEPT ![c] = "open"]
         /\ evIn' = [evIn EXCEPT ![c] = TRUE]
         /\ link_count' = link_count + 1
    /\ UNCHANGED <<closed, sent, pend, sock, input, auth, output, recvd, evOut, err,
                   readyList, readyList2, mpool, poolVars>>

\* A pool's fd is readable: SelectableQueue::pop reads one pipe byte, ...
EvPool(e) ==
    /\ e.kind = "pool"
    /\ pipe' = [pipe EXCEPT ![e.pool] = @ - 1]
    /\ mpool' = e.pool
    /\ UNCHANGED <<clientVars, linkVars, readyList, readyList2, link_count, jobs, results, wjob>>

\* ... then pops the item under the mutex, and proc_result runs the job
\* onto ready_list.
PopResult ==
    /\ mpc = "pop"
    /\ results[mpool] # <<>>
    /\ LET c == Head(results[mpool])
       IN /\ results' = [results EXCEPT ![mpool] = Tail(@)]
          /\ ProcResult(c, input[c], output[c], FALSE)
    /\ mpc' = "events"
    /\ UNCHANGED <<readyList2, closed, sent, pend, sock, input, auth, err, events, mpool, jobs, pipe, wjob>>

(***************************************************************************)
(* proc_client_event.  IN: queue the link on ready_list, then (unless     *)
(* already in error) read; a read meeting EOF returns 0 and marks the     *)
(* error.  OUT (unless in error): write; a write returning <= 0 marks    *)
(* the error, which includes a write with nothing to write and a write  *)
(* to a closed peer; with output drained, clear OUT.                      *)
(***************************************************************************)
EvLink(e) ==
    /\ e.kind = "link"
    /\ LET c == e.link
           inErr == e.in /\ ~err[c] /\ PeerEOF(c)
           doOut == e.out /\ ~err[c] /\ ~inErr
       IN /\ readyList' = IF e.in THEN Append(readyList, c) ELSE readyList
          /\ input' = IF e.in /\ ~err[c] THEN [input EXCEPT ![c] = @ \o sock[c]] ELSE input
          /\ sock' = IF e.in /\ ~err[c] THEN [sock EXCEPT ![c] = <<>>] ELSE sock
          /\ \/ /\ doOut /\ output[c] # <<>>
                /\ \E k \in 1 .. Len(output[c]) :
                     /\ LinkWrite(c, output[c], k)
                     /\ evOut' = IF k = Len(output[c]) THEN [evOut EXCEPT ![c] = FALSE] ELSE evOut
                /\ err' = err
             \/ /\ doOut /\ output[c] # <<>> /\ closed[c]
                /\ err' = [err EXCEPT ![c] = TRUE]
                /\ UNCHANGED <<recvd, output, evOut>>
             \/ /\ ~(doOut /\ output[c] # <<>>)
                /\ err' = IF inErr \/ doOut THEN [err EXCEPT ![c] = TRUE] ELSE err
                /\ UNCHANGED <<recvd, output, evOut>>
    /\ UNCHANGED <<conn, closed, sent, pend, auth, evIn, readyList2, mpool, link_count, poolVars>>

HandleEvent ==
    /\ mpc = "events"
    /\ \E e \in events :
         /\ events' = events \ {e}
         /\ \/ EvAccept(e) /\ UNCHANGED mpc
            \/ EvPool(e) /\ mpc' = "pop"
            \/ EvLink(e) /\ UNCHANGED mpc

EventsDone ==
    /\ mpc = "events" /\ events = {}
    /\ mpc' = "ready"
    /\ UNCHANGED <<clientVars, linkVars, readyList, readyList2, events, mpool, link_count, poolVars>>

(***************************************************************************)
(* What a proc run on the loop answers: the auth gate of                  *)
(* NetworkServer::proc, an unknown command, proc_ping, or proc_auth,      *)
(* which also sets link->auth.  Commands run by a pool answer "ok".       *)
(***************************************************************************)
Gated(req, authed) == NeedAuth /\ ~authed /\ req[1] # AUTH
ProcAnswer(req, authed) ==
    CASE Gated(req, authed) -> [st |-> "noauth", auth |-> authed]
      [] Kind(req[1]) = "unknown" -> [st |-> "client_error", auth |-> authed]
      [] Kind(req[1]) = "auth" /\ Len(req) # 2 -> [st |-> "client_error", auth |-> authed]
      [] Kind(req[1]) = "auth" /\ (~NeedAuth \/ req[2] = PASSWORD) -> [st |-> "ok", auth |-> TRUE]
      [] Kind(req[1]) = "auth" -> [st |-> "error", auth |-> authed]
      [] OTHER -> [st |-> "ok", auth |-> authed]

\* Queue::push: append the job under the mutex and signal a waiting worker.
JobsPush(p, job) == jobs' = [jobs EXCEPT ![p] = Append(@, job)]

\* Variant of PushJob that leaves the link's events registered.
PushJobKeepsEvents(c, req) ==
    /\ JobsPush(Kind(req[1]), [link |-> c, req |-> req])
    /\ UNCHANGED <<evIn, evOut, conn, auth, output, recvd, readyList2, link_count>>

\* A THREAD command: the job goes to the writer or the reader pool
\* (PROC_THREAD), and the loop removes the link from fdes.
PushJob(c, req) ==
    /\ JobsPush(Kind(req[1]), [link |-> c, req |-> req])
    /\ evIn' = [evIn EXCEPT ![c] = FALSE]
    /\ evOut' = [evOut EXCEPT ![c] = FALSE]
    /\ UNCHANGED <<conn, auth, output, recvd, readyList2, link_count>>

\* Variant of HandOver that does not decrement link_count.
HandOverCounted(c) ==
    /\ conn' = [conn EXCEPT ![c] = "backend"]
    /\ evIn' = [evIn EXCEPT ![c] = FALSE]
    /\ evOut' = [evOut EXCEPT ![c] = FALSE]
    /\ UNCHANGED <<link_count, auth, output, recvd, readyList2, jobs>>

\* A BACKEND command sends nothing (link->send of an empty response) and
\* the link leaves the server: fdes->del and link_count-- (PROC_BACKEND).
HandOver(c) ==
    /\ conn' = [conn EXCEPT ![c] = "backend"]
    /\ evIn' = [evIn EXCEPT ![c] = FALSE]
    /\ evOut' = [evOut EXCEPT ![c] = FALSE]
    /\ link_count' = link_count - 1
    /\ UNCHANGED <<auth, output, recvd, readyList2, jobs>>

\* Any other command is answered on the loop: link->send appends the
\* reply, and proc_result runs onto ready_list_2.
Answer(c, req, in) ==
    /\ LET a == ProcAnswer(req, auth[c])
       IN /\ auth' = [auth EXCEPT ![c] = a.auth]
          /\ ProcResult(c, in, Append(output[c], Reply(req, a.st)), TRUE)
    /\ UNCHANGED jobs

\* NetworkServer::proc on the request req, the input then holding in.
Proc(c, req, in) ==
    /\ input' = [input EXCEPT ![c] = in]
    /\ \/ ~Gated(req, auth[c]) /\ Kind(req[1]) \in Pools /\ PushJob(c, req)
       \/ ~Gated(req, auth[c]) /\ Kind(req[1]) = "backend" /\ HandOver(c)
       \/ (Gated(req, auth[c]) \/ Kind(req[1]) \notin Pools \cup {"backend"}) /\ Answer(c, req, in)

\* One link of the ready list: delete it on an error or a parse error,
\* wait for more input on an incomplete packet, else proc the request.
ReadyStep ==
    /\ mpc = "ready" /\ readyList # <<>>
    /\ readyList' = Tail(readyList)
    /\ LET c == Head(readyList) IN
       \E r \in {Recv(input[c])} :
          \/ /\ err[c] \/ r.kind = "error"
             /\ DeleteLink(c)
             /\ UNCHANGED <<input, auth, output, recvd, readyList2, jobs>>
          \/ /\ ~err[c] /\ r.kind = "none"
             /\ evIn' = [evIn EXCEPT ![c] = TRUE]
             /\ UNCHANGED <<conn, input, auth, output, recvd, evOut, readyList2, link_count, jobs>>
          \/ /\ ~err[c] /\ r.kind = "req"
             /\ Proc(c, r.req, Consume(input[c], r.used))
    /\ UNCHANGED <<closed, sent, pend, sock, err, mpc, events, mpool, results, pipe, wjob>>

ReadyDone ==
    /\ mpc = "ready" /\ readyList = <<>>
    /\ mpc' = "wait"
    /\ UNCHANGED <<clientVars, linkVars, readyList, readyList2, events, mpool, link_count, poolVars>>

-----------------------------------------------------------------------------
(* A worker thread of a pool: WorkerPool::_run_worker. *)

\* jobs.pop: Queue::pop waits on its condition for a job.
WorkerPop(w) ==
    /\ wjob[w] = NoJob /\ jobs[w[1]] # <<>>
    /\ wjob' = [wjob EXCEPT ![w] = Head(jobs[w[1]])]
    /\ jobs' = [jobs EXCEPT ![w[1]] = Tail(@)]
    /\ UNCHANGED <<clientVars, linkVars, loopVars, results, pipe>>

\* SelectableQueue::push: under its mutex, append the item and write one
\* byte to the pipe.
ResultsPush(p, c) ==
    /\ results' = [results EXCEPT ![p] = Append(@, c)]
    /\ pipe' = [pipe EXCEPT ![p] = @ + 1]

\* ProcWorker::proc runs the command and link->send appends its reply;
\* then results.push adds the item and writes a byte to the pipe.
WorkerProc(w) ==
    /\ wjob[w] # NoJob
    /\ LET j == wjob[w]
       IN /\ output' = [output EXCEPT ![j.link] = Append(@, Reply(j.req, "ok"))]
          /\ ResultsPush(w[1], j.link)
    /\ wjob' = [wjob EXCEPT ![w] = NoJob]
    /\ UNCHANGED <<clientVars, input, auth, recvd, evIn, evOut, err, loopVars, jobs>>

-----------------------------------------------------------------------------

Client(c) ==
    \/ ClientConnect(c) \/ Deliver(c) \/ ClientClose(c)
    \/ \E r \in Requests : ClientSend(c, r)

Main == Wait \/ HandleEvent \/ PopResult \/ EventsDone \/ ReadyStep \/ ReadyDone

Worker(w) == WorkerPop(w) \/ WorkerProc(w)

Next == (\E c \in Clients : Client(c)) \/ Main \/ (\E w \in Workers : Worker(w))

\* The loop thread and every worker thread keep running; the network
\* delivers what a client sent.  Clients themselves may stop at any time.
Fairness ==
    /\ WF_vars(Main)
    /\ \A w \in Workers : WF_vars(Worker(w))
    /\ \A c \in Clients : WF_vars(Deliver(c))

Spec == Init /\ [][Next]_vars /\ Fairness

-----------------------------------------------------------------------------
Replies == [req : Requests, st : {"ok", "noauth", "client_error", "error"}]

TypeOK ==
    /\ conn \in [Clients -> {"none", "connecting", "open", "deleted", "backend"}]
    /\ closed \in [Clients -> BOOLEAN] /\ auth \in [Clients -> BOOLEAN]
    /\ \A c \in Clients : sent[c] \in Seq(Requests) /\ Len(sent[c]) <= MaxRequests[c]
    /\ output \in [Clients -> Seq(Replies)] /\ recvd \in [Clients -> Seq(Replies)]
    /\ evIn \in [Clients -> BOOLEAN] /\ evOut \in [Clients -> BOOLEAN] /\ err \in [Clients -> BOOLEAN]
    /\ readyList \in Seq(Clients) /\ readyList2 \in Seq(Clients)
    /\ jobs \in [Pools -> Seq([link : Clients, req : Requests])]
    /\ results \in [Pools -> Seq(Clients)] /\ pipe \in [Pools -> Nat]
    /\ wjob \in [Workers -> [link : Clients, req : Requests] \cup {NoJob}]
    /\ mpc \in {"wait", "events", "pop", "ready"} /\ mpool \in Pools
    /\ link_count \in 0 .. Cardinality(Clients)

\* How many of the places a link can be queued in hold c.
Count(s, c) == Cardinality({i \in DOMAIN s : s[i] = c})
JobLinks(p) == [i \in DOMAIN jobs[p] |-> jobs[p][i].link]
Places(c) ==
    Count(readyList, c) + Count(readyList2, c)
    + Count(JobLinks("reader"), c) + Count(JobLinks("writer"), c)
    + Count(results["reader"], c) + Count(results["writer"], c)
    + Cardinality({w \in Workers : wjob[w] # NoJob /\ wjob[w].link = c})
InPool(c) ==
    \/ \E p \in Pools : c \in Range(JobLinks(p)) \cup Range(results[p])
    \/ \E w \in Workers : wjob[w] # NoJob /\ wjob[w].link = c

(***************************************************************************)
(* The comment above proc_client_event: a link is in at most one of the   *)
(* ready list and a worker queue, so deleting it while processing either *)
(* is safe.  Also: a link in a pool has no events registered (the loop    *)
(* must not touch its buffers while a worker does), and a link that left  *)
(* the server (deleted or handed to a backend) is nowhere.                *)
(***************************************************************************)
LinkOwnership ==
    \A c \in Clients :
        /\ Places(c) <= 1
        /\ InPool(c) => ~evIn[c] /\ ~evOut[c]
        /\ conn[c] # "open" => Places(c) = 0 /\ ~evIn[c] /\ ~evOut[c]

\* link_count, incremented on accept and decremented on every delete and
\* on a hand-over to a backend, is the number of open links.
LinkCountExact == link_count = Cardinality({c \in Clients : conn[c] = "open"})

\* The replies a client should get for the requests it sent: one per
\* request in order, each as the proc answers it given the auth state the
\* earlier requests left; a backend command takes the connection over.
RECURSIVE Expected(_, _)
Expected(reqs, authed) ==
    IF reqs = <<>> THEN <<>>
    ELSE LET r == Head(reqs)
             a == ProcAnswer(r, authed)
         IN IF ~Gated(r, authed) /\ Kind(r[1]) = "backend" THEN <<>>
            ELSE <<Reply(r, a.st)>> \o Expected(Tail(reqs), a.auth)

(***************************************************************************)
(* Pipelined requests (several in one read, some run by pools and some on *)
(* the loop) are answered in order, one reply each: what the client has  *)
(* received followed by what waits in link->output is a prefix of the    *)
(* expected replies.                                                      *)
(***************************************************************************)
RepliesInOrder ==
    \A c \in Clients : IsPrefix(recvd[c] \o output[c], Expected(sent[c], FALSE))

(***************************************************************************)
(* Every request a client sends is eventually answered, unless the link   *)
(* is dropped or handed to a backend: no link is left with a complete    *)
(* request in its input and no event or list to bring it back.           *)
(***************************************************************************)
RequestsAnswered ==
    \A c \in Clients : \A n \in 1 .. MaxRequests[c] :
        Len(sent[c]) >= n
            ~> \/ Len(recvd[c]) + Len(output[c]) >= n
               \/ conn[c] \in {"deleted", "backend"}
               \/ err[c]

(***************************************************************************)
(* A link is dropped (marked in error or deleted) only when its client    *)
(* closed the connection: the clients send well-formed requests.          *)
(***************************************************************************)
NoSpuriousClose ==
    \A c \in Clients : (err[c] \/ conn[c] = "deleted") => closed[c]

=============================================================================
