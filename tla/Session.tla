------------------------------- MODULE Session -------------------------------
(***************************************************************************)
(* One client session: the client process with its parser workers, the     *)
(* socket, the gateway's ClientStreamHandler (a reader thread and a        *)
(* response thread), the client's own response queue and the end of the    *)
(* join that publishes to it.  The pipeline between the shard queues and   *)
(* the join is left out: a use case can answer once every shard of the     *)
(* streams it reads has its EOF.  The join publishes the chunks of a use   *)
(* case one by one and only then saves that the client is finalized: after *)
(* a crash in between it publishes all of them again.                      *)
(* A batch is one line of the file (BATCH_SIZE 1).  Sessions share nothing *)
(* but the monitor's table, so one client stands for all.                  *)
(***************************************************************************)
EXTENDS Integers, Sequences, FiniteSets, SequencesExt

CONSTANTS
  Layouts,       \* possible transactions files: where their lines start, header first, and end
  Workers,       \* number of parser processes (CLIENT_WORKERS)
  AccBatches,    \* batches of the accounts file
  Shards,        \* Shards[s]: shard queues of stream s
  UseCases,      \* use cases that answer (NRESPONSES of them)
  Needs,         \* Needs[u]: streams use case u reads
  Chunks,        \* chunks of every response
  SendBuffer,    \* responses the socket holds before a send can time out
  QueueMaxsize,  \* _QUEUE_MAXSIZE of the workers' queue
  MaxFaults,     \* bound: timeouts of queue.get, crashes or stops of the client, shutdowns
                 \*   of the gateway and joins that crash, together
  MaxRestarts    \* bound: crashes of one use case's join before it saved the client

Streams == {"trans", "accs"}

ASSUME SessionAssumption ==
  /\ Workers \in Nat \ {0} /\ AccBatches \in Nat /\ Chunks \in Nat \ {0}
  /\ Shards \in [Streams -> Nat \ {0}] /\ Needs \in [UseCases -> (SUBSET Streams) \ {{}}]
  /\ \A l \in Layouts :
       /\ l \in Seq(Nat) /\ Len(l) > 1 /\ l[1] = 0
       /\ \A i, k \in DOMAIN l : i < k => l[i] < l[k]

VARIABLES
  layout,    \* the transactions file
  left,      \* left[w]: lines worker w still has to queue, and its _DONE marker
  queue,     \* the workers' queue
  finished,  \* _DONE markers taken from it
  client,    \* where the client is in _run
  accsLeft,  \* account batches still to send
  c2g, g2c,  \* bytes in the socket, one sequence of messages per direction
  reader,    \* where the handler's reader thread is in _run
  closed,    \* has the handler closed the socket?
  registered,\* is the handler in the monitor's table?
  responder, \* the response thread
  responses, \* the client's response queue at the broker
  counts, rr,\* locals of _forward_sharded
  shard,     \* shard[s][i]: everything sent to shard i of stream s
  emitted,   \* emitted[u]: the chunks the join has published for u, in that order
  next,      \* next[u]: the chunk _maybe_finalize publishes next
  finalized, \* use cases whose join has saved the client as finalized
  restarts,  \* restarts[u]: crashes of u's join while it published
  written,   \* written[u]: what the client has appended for u, as places in emitted[u]
  timeouts, leaves, shutdowns, sendTimeouts

clientVars == <<layout, left, queue, finished, client, accsLeft, written, timeouts, leaves>>
gateVars == <<reader, closed, registered, responder, counts, rr, shard, shutdowns, sendTimeouts>>
joinVars == <<emitted, next, finalized, restarts>>
vars == <<clientVars, gateVars, c2g, g2c, responses, joinVars>>

Faults == timeouts + leaves + shutdowns + Cardinality({u \in UseCases : restarts[u] > 0})

-----------------------------------------------------------------------------
(* The input split of the transactions file. *)

Offset(k) == layout[k]
Size == layout[Len(layout)]
Bound(w) == (w * Size) \div Workers

\* Lines after the header.
Lines == 2 .. Len(layout) - 1

\* The marker a worker queues after its last line.
DONE == Len(layout)

\* Mutant: a worker also keeps the line it lands in.
OwnedWithFirst(w) == {k \in Lines : Offset(k + 1) > Bound(w - 1) /\ Offset(k) < Bound(w)}

\* A worker seeks to its lower bound, drops the line it lands in and reads every line
\* that starts before its upper bound.
Owned(w) == {k \in Lines : Offset(k) > Bound(w - 1) /\ Offset(k) < Bound(w)}

-----------------------------------------------------------------------------
\* The gateway declares and binds the durable shard queues of both streams before it
\* accepts a client.
DeclaredShards == [s \in Streams |-> [i \in 1..Shards[s] |-> <<>>]]

Init ==
  /\ layout \in Layouts
  /\ left = [w \in 1..Workers |-> {}] /\ queue = <<>> /\ finished = 0
  /\ client = "start" /\ accsLeft = AccBatches /\ written = [u \in UseCases |-> <<>>]
  /\ c2g = <<>> /\ g2c = <<>>
  /\ reader = "none" /\ closed = FALSE /\ registered = FALSE
  /\ responder = "none" /\ responses = <<>>
  /\ counts = <<>> /\ rr = 0
  /\ shard = DeclaredShards
  /\ emitted = [u \in UseCases |-> <<>>] /\ next = [u \in UseCases |-> 1]
  /\ finalized = {} /\ restarts = [u \in UseCases |-> 0]
  /\ timeouts = 0 /\ leaves = 0 /\ shutdowns = 0 /\ sendTimeouts = 0

Gone == client \in {"done", "ended", "left"}

\* What the client sends once the handler has closed the socket goes nowhere.
ClientSends(m) == c2g' = IF closed THEN c2g ELSE Append(c2g, m)

\* client/main.py retries until the gateway's accept loop takes the connection and starts
\* a handler for it; a gateway that has shut down takes none.
Connect ==
  /\ client = "start" /\ shutdowns = 0
  /\ client' = "connected" /\ reader' = "hello"
  /\ UNCHANGED <<layout, left, queue, finished, accsLeft, written, timeouts, leaves,
                 closed, registered, responder, counts, rr, shard, shutdowns, sendTimeouts,
                 c2g, g2c, responses, joinVars>>

ConnectGivesUp ==
  /\ client = "start" /\ shutdowns > 0
  /\ client' = "ended"
  /\ UNCHANGED <<layout, left, queue, finished, accsLeft, written, timeouts, leaves,
                 gateVars, c2g, g2c, responses, joinVars>>

\* _run, the handshake.
SendHello ==
  /\ client = "connected"
  /\ client' = "ack"
  /\ ClientSends([type |-> "hello"])
  /\ UNCHANGED <<layout, left, queue, finished, accsLeft, written, timeouts, leaves,
                 gateVars, g2c, responses, joinVars>>

\* _run and _send_transactions_parallel: after the HelloAck the workers start.
RecvHelloAck ==
  /\ client = "ack" /\ g2c # <<>>
  /\ client' = "trans"
  /\ left' = [w \in 1..Workers |-> Owned(w) \cup {DONE}]
  /\ g2c' = Tail(g2c)
  /\ UNCHANGED <<layout, queue, finished, accsLeft, written, timeouts, leaves,
                 gateVars, c2g, responses, joinVars>>

\* _transactions_worker reads on, line by line, and then puts its marker; queue.put blocks
\* while the queue is full.
WorkerPut(w) ==
  /\ client = "trans" /\ Len(queue) < QueueMaxsize
  /\ \E k \in left[w] :
       /\ \A j \in left[w] : k <= j
       /\ queue' = Append(queue, k)
       /\ left' = [left EXCEPT ![w] = @ \ {k}]
  /\ UNCHANGED <<layout, finished, client, accsLeft, written, timeouts, leaves,
                 gateVars, c2g, g2c, responses, joinVars>>

\* _send_transactions_parallel: one turn of the loop that drains the queue.
SendTransactions ==
  /\ client = "trans" /\ finished < Workers /\ queue # <<>>
  /\ queue' = Tail(queue)
  /\ IF Head(queue) = DONE
     THEN finished' = finished + 1 /\ UNCHANGED c2g
     ELSE ClientSends([type |-> "trans", batch |-> Head(queue)]) /\ UNCHANGED finished
  /\ UNCHANGED <<layout, left, client, accsLeft, written, timeouts, leaves,
                 gateVars, g2c, responses, joinVars>>

\* The EOF of the transactions: after the last marker, or when queue.get gave up.
SendTransactionsEOF ==
  /\ client = "trans"
  /\ \/ finished = Workers /\ UNCHANGED timeouts
     \/ /\ finished < Workers /\ queue = <<>> /\ Faults < MaxFaults
        /\ timeouts' = timeouts + 1
  /\ client' = "accs"
  /\ ClientSends([type |-> "eof"])
  /\ UNCHANGED <<layout, left, queue, finished, accsLeft, written, leaves,
                 gateVars, g2c, responses, joinVars>>

\* _send_accounts_batched, a batch at a time, then the EOF of the accounts.
SendAccounts ==
  /\ client = "accs"
  /\ IF accsLeft > 0
     THEN /\ accsLeft' = accsLeft - 1
          /\ ClientSends([type |-> "accs", batch |-> accsLeft])
          /\ UNCHANGED client
     ELSE /\ client' = "wait" /\ ClientSends([type |-> "eof"]) /\ UNCHANGED accsLeft
  /\ UNCHANGED <<layout, left, queue, finished, written, timeouts, leaves,
                 gateVars, g2c, responses, joinVars>>

\* Mutant: any chunk completes its use case.
CompletedByAny(w) == {u \in UseCases : w[u] # <<>>}

\* Response.last is set on the last chunk.
Completed(w) == {u \in UseCases : \E i \in DOMAIN w[u] : emitted[u][w[u][i]] = Chunks}

\* _receive_and_write_responses: append the chunk; the last chunk of the last use case
\* ends the loop, the file is put together and the client closes the socket.
RecvResponse ==
  /\ client = "wait" /\ g2c # <<>>
  /\ g2c' = Tail(g2c)
  /\ written' = [written EXCEPT ![Head(g2c).uc] = Append(@, Head(g2c).nth)]
  /\ client' = IF Completed(written') = UseCases THEN "done" ELSE client
  /\ UNCHANGED <<layout, left, queue, finished, accsLeft, timeouts, leaves,
                 gateVars, c2g, responses, joinVars>>

\* Every bare except of the client: the handler closed the socket, so a send or a recv
\* raises and the client returns without writing its file.
ConnectionEnded ==
  /\ closed /\ ~Gone
  /\ client \in {"ack", "wait"} => g2c = <<>>
  /\ client' = "ended"
  /\ UNCHANGED <<layout, left, queue, finished, accsLeft, written, timeouts, leaves,
                 gateVars, c2g, g2c, responses, joinVars>>

\* A crash point, or stop() on a signal: the socket closes with what the kernel still
\* delivers of the bytes sent.
ClientLeaves ==
  /\ ~Gone /\ Faults < MaxFaults
  /\ leaves' = leaves + 1
  /\ client' = "left"
  /\ \E k \in 0..Len(c2g) : c2g' = SubSeq(c2g, 1, k)
  /\ g2c' = <<>>
  /\ UNCHANGED <<layout, left, queue, finished, accsLeft, written, timeouts,
                 gateVars, responses, joinVars>>

-----------------------------------------------------------------------------
(* The handler.  Connection.recv: a message, OSError when the peer closed, empty bytes *)
(* when the handler closed the socket itself.                                          *)

Recv(type) == ~closed /\ c2g # <<>> /\ Head(c2g).type = type
RecvRaises == ~closed /\ c2g = <<>> /\ Gone
RecvEmpty == closed

\* Connection.send: lost on a peer that is gone but not yet known to be; it raises when
\* the peer is known to be gone, or when the buffer stays full for the send timeout.
Send(m) == ~closed /\ g2c' = IF Gone THEN g2c ELSE Append(g2c, m)
SendRaises == closed \/ Gone

\* _close: once.
Close == closed' = TRUE

\* stop_consuming does nothing on a channel that has no consumer yet.
StopConsuming == responder' = IF responder = "consuming" THEN "stopping" ELSE responder

\* Mutant: the teardown forgets the response consumer.
TeardownSocketOnly == registered' = FALSE /\ UNCHANGED responder /\ Close

\* The monitor's table: add and remove.
Register == registered' = TRUE
Unregister == registered' = FALSE

\* _teardown
Teardown == Unregister /\ StopConsuming /\ Close

\* _run: Hello, then the monitor's table.
RecvHello ==
  /\ reader = "hello" /\ Recv("hello")
  /\ c2g' = Tail(c2g)
  /\ Register /\ reader' = "helloAck"
  /\ UNCHANGED <<clientVars, closed, responder, counts, rr, shard, shutdowns, sendTimeouts,
                 g2c, responses, joinVars>>

\* Mutant: the response consumer is not started.
SendHelloAckOnly ==
  /\ reader = "helloAck" /\ Send([type |-> "helloAck"])
  /\ reader' = "trans" /\ UNCHANGED responder
  /\ counts' = [i \in 1..Shards["trans"] |-> 0] /\ rr' = 0
  /\ UNCHANGED <<clientVars, closed, registered, shard, shutdowns, sendTimeouts,
                 c2g, responses, joinVars>>

\* _run: HelloAck and _start_response_consumer, then the first _forward_sharded.
SendHelloAck ==
  /\ reader = "helloAck" /\ Send([type |-> "helloAck"])
  /\ reader' = "trans" /\ responder' = "starting"
  /\ counts' = [i \in 1..Shards["trans"] |-> 0] /\ rr' = 0
  /\ UNCHANGED <<clientVars, closed, registered, shard, shutdowns, sendTimeouts,
                 c2g, responses, joinVars>>

\* _run, except OSError of the handshake.
HandshakeFails ==
  /\ \/ reader = "hello" /\ RecvRaises
     \/ reader = "helloAck" /\ SendRaises
  /\ Teardown
  /\ reader' = "failed"
  /\ UNCHANGED <<clientVars, counts, rr, shard, shutdowns, sendTimeouts, c2g, g2c, responses, joinVars>>

\* Mutant: the message is counted for the shard of the one after it.
ForwardMiscounted(s) ==
  /\ reader = s /\ Recv(s)
  /\ c2g' = Tail(c2g)
  /\ LET i == (rr % Shards[s]) + 1 IN
     /\ shard' = [shard EXCEPT ![s][i] =
                    Append(@, [type |-> s, batch |-> Head(c2g).batch, seq |-> rr])]
     /\ counts' = [counts EXCEPT ![((rr + 1) % Shards[s]) + 1] = @ + 1]
  /\ rr' = rr + 1
  /\ UNCHANGED <<clientVars, reader, closed, registered, responder, shutdowns, sendTimeouts,
                 g2c, responses, joinVars>>

\* _forward_sharded: a data message goes to the next shard, stamped with the client's id
\* and the stream's next number.
Forward(s) ==
  /\ reader = s /\ Recv(s)
  /\ c2g' = Tail(c2g)
  /\ LET i == (rr % Shards[s]) + 1 IN
     /\ shard' = [shard EXCEPT ![s][i] =
                    Append(@, [type |-> s, batch |-> Head(c2g).batch, seq |-> rr])]
     /\ counts' = [counts EXCEPT ![i] = @ + 1]
  /\ rr' = rr + 1
  /\ UNCHANGED <<clientVars, reader, closed, registered, responder, shutdowns, sendTimeouts,
                 g2c, responses, joinVars>>

\* _forward_sharded: an EOF goes to every shard with that shard's count.
ForwardEOF(s) ==
  /\ reader = s /\ Recv("eof")
  /\ c2g' = Tail(c2g)
  /\ shard' = [shard EXCEPT ![s] = [i \in DOMAIN @ |->
                 Append(@[i], [type |-> "eof", expected |-> counts[i]])]]
  /\ reader' = IF s = "trans" THEN "accs" ELSE "finished"
  /\ counts' = IF s = "trans" THEN [i \in 1..Shards["accs"] |-> 0] ELSE counts
  /\ rr' = IF s = "trans" THEN 0 ELSE rr
  /\ UNCHANGED <<clientVars, closed, registered, responder, shutdowns, sendTimeouts,
                 g2c, responses, joinVars>>

\* _run, except OSError around the forwarding: the reader returns, nothing else happens.
ReaderFails ==
  /\ reader \in Streams /\ RecvRaises
  /\ reader' = "failed"
  /\ UNCHANGED <<clientVars, closed, registered, responder, counts, rr, shard, shutdowns,
                 sendTimeouts, c2g, g2c, responses, joinVars>>

\* _forward_sharded returned False, or the socket was closed before the Hello.
Abort ==
  /\ RecvEmpty
  /\ \/ /\ reader = "hello"
        /\ reader' = "failed" /\ UNCHANGED <<shard, registered, responder, closed>>
     \/ /\ reader \in Streams
        /\ shard' = [s \in Streams |-> [i \in 1..Shards[s] |->
                       Append(shard[s][i], [type |-> "abort"])]]
        /\ reader' = "aborted"
        /\ Teardown
  /\ UNCHANGED <<clientVars, counts, rr, shutdowns, sendTimeouts, c2g, g2c, responses, joinVars>>

\* _consume_responses: the queue is declared and bound in the response thread.
StartConsuming ==
  /\ responder = "starting"
  /\ responder' = "consuming"
  /\ UNCHANGED <<clientVars, reader, closed, registered, counts, rr, shard, shutdowns,
                 sendTimeouts, c2g, g2c, responses, joinVars>>

\* _deliver_response: the ack follows the send.
DeliverResponse ==
  /\ responder = "consuming" /\ responses # <<>>
  /\ Len(g2c) < SendBuffer /\ Send(Head(responses))
  /\ responses' = Tail(responses)
  /\ UNCHANGED <<clientVars, gateVars, c2g, joinVars>>

\* Mutant: a send that raises is logged and acknowledged.
DeliveryFailsAcked ==
  /\ responder = "consuming" /\ responses # <<>>
  /\ \/ SendRaises /\ UNCHANGED sendTimeouts
     \/ ~SendRaises /\ Len(g2c) = SendBuffer /\ sendTimeouts' = sendTimeouts + 1
  /\ responses' = Tail(responses)
  /\ UNCHANGED <<clientVars, reader, closed, registered, responder, counts, rr, shard, shutdowns,
                 c2g, g2c, joinVars>>

\* _deliver_response, except OSError: no ack, and the session is torn down.
DeliveryFails ==
  /\ responder = "consuming" /\ responses # <<>>
  /\ \/ SendRaises /\ UNCHANGED sendTimeouts
     \/ ~SendRaises /\ Len(g2c) = SendBuffer /\ sendTimeouts' = sendTimeouts + 1
  /\ Teardown
  /\ UNCHANGED <<clientVars, reader, counts, rr, shard, shutdowns, c2g, g2c, responses, joinVars>>

\* _consume_responses, finally: closing the connection deletes the exclusive queue.
CloseResponses ==
  /\ responder = "stopping"
  /\ responder' = "closed" /\ responses' = <<>>
  /\ UNCHANGED <<clientVars, reader, closed, registered, counts, rr, shard, shutdowns,
                 sendTimeouts, c2g, g2c, joinVars>>

\* Gateway.stop and the monitor's stop_all: only registered handlers are stopped.
Shutdown ==
  /\ Faults < MaxFaults
  /\ shutdowns' = shutdowns + 1
  /\ Unregister
  /\ IF registered THEN Close /\ StopConsuming ELSE UNCHANGED <<closed, responder>>
  /\ UNCHANGED <<clientVars, reader, counts, rr, shard, sendTimeouts, c2g, g2c, responses, joinVars>>

-----------------------------------------------------------------------------
(* The join of a use case: JoinRouteHandler._maybe_finalize. *)

HasEOF(s) == \A i \in 1..Shards[s] : \E k \in DOMAIN shard[s][i] : shard[s][i][k].type = "eof"
Aborted == reader = "aborted"

\* One turn of the loop over get_responses: the next chunk goes to the responses exchange
\* and reaches the client's queue while that is bound.  A message is told apart by its place
\* in emitted[u].  The pipeline is taken to be slower than the declaration of the queue (a
\* response that overtakes it would be dropped).
Respond(u) ==
  /\ \A s \in Needs[u] : HasEOF(s)
  /\ u \notin finalized /\ next[u] <= Chunks /\ responder # "starting"
  /\ emitted' = [emitted EXCEPT ![u] = Append(@, next[u])]
  /\ next' = [next EXCEPT ![u] = @ + 1]
  /\ responses' = IF responder = "consuming"
                  THEN Append(responses, [type |-> "response", uc |-> u, nth |-> Len(emitted[u]) + 1])
                  ELSE responses
  /\ UNCHANGED <<clientVars, gateVars, c2g, g2c, finalized, restarts>>

\* mark_finalized and the flush that saves it.
Finalize(u) ==
  /\ u \notin finalized /\ next[u] > Chunks
  /\ finalized' = finalized \cup {u}
  /\ UNCHANGED <<clientVars, gateVars, c2g, g2c, responses, emitted, next, restarts>>

\* The join is killed after it published and before that save; the message that completed
\* the client was not acked, comes again and _maybe_finalize starts over.
JoinCrash(u) ==
  /\ u \notin finalized /\ next[u] > 1
  /\ restarts[u] < MaxRestarts /\ (restarts[u] = 0 => Faults < MaxFaults)
  /\ restarts' = [restarts EXCEPT ![u] = @ + 1]
  /\ next' = [next EXCEPT ![u] = 1]
  /\ UNCHANGED <<clientVars, gateVars, c2g, g2c, responses, emitted, finalized>>

JoinNext == \E u \in UseCases : Respond(u) \/ Finalize(u) \/ JoinCrash(u)

ClientNext ==
  \/ Connect \/ ConnectGivesUp \/ SendHello \/ RecvHelloAck \/ (\E w \in 1..Workers : WorkerPut(w))
  \/ SendTransactions \/ SendTransactionsEOF \/ SendAccounts \/ RecvResponse \/ ConnectionEnded

ReaderNext ==
  \/ RecvHello \/ SendHelloAck \/ HandshakeFails \/ ReaderFails \/ Abort
  \/ \E s \in Streams : Forward(s) \/ ForwardEOF(s)

ResponderNext == StartConsuming \/ DeliverResponse \/ DeliveryFails \/ CloseResponses

Next ==
  \/ ClientNext \/ ReaderNext \/ ResponderNext
  \/ JoinNext \/ ClientLeaves \/ Shutdown

\* Threads and processes that can run do; nothing times out, leaves, crashes or is shut
\* down by fairness, and a full socket does not have to time out.
Fairness ==
  /\ \A w \in 1..Workers : WF_vars(WorkerPut(w))
  /\ WF_vars(Connect \/ ConnectGivesUp \/ SendHello \/ RecvHelloAck \/ SendTransactions \/ SendAccounts \/ RecvResponse \/ ConnectionEnded)
  /\ WF_vars(SendTransactionsEOF /\ finished = Workers)
  /\ WF_vars(ReaderNext)
  /\ WF_vars(StartConsuming \/ DeliverResponse \/ (DeliveryFails /\ SendRaises) \/ CloseResponses)
  /\ \A u \in UseCases : WF_vars((Respond(u) /\ ~Aborted) \/ Finalize(u))

Spec == Init /\ [][Next]_vars /\ Fairness

-----------------------------------------------------------------------------
(* Properties *)

\* Every variable of the session keeps its type; a reader or a response thread is in one
\* of its phases.
TypeOK ==
  /\ layout \in Layouts /\ finished \in 0..Workers /\ accsLeft \in 0..AccBatches
  /\ \A w \in 1..Workers : left[w] \subseteq Lines \cup {DONE}
  /\ Range(queue) \subseteq Lines \cup {DONE} /\ Len(queue) <= QueueMaxsize
  /\ client \in {"start", "connected", "ack", "trans", "accs", "wait", "done", "ended", "left"}
  /\ reader \in Streams \cup {"none", "hello", "helloAck", "finished", "failed", "aborted"}
  /\ responder \in {"none", "starting", "consuming", "stopping", "closed"}
  /\ closed \in BOOLEAN /\ registered \in BOOLEAN
  /\ Len(g2c) <= SendBuffer /\ Range(counts) \subseteq Nat /\ rr \in Nat
  /\ next \in [UseCases -> 1 .. Chunks + 1] /\ finalized \subseteq UseCases
  /\ \A u \in UseCases : Range(emitted[u]) \subseteq 1..Chunks /\ restarts[u] \in Nat

\* Where the data messages of stream s are on its shard i.
DataAt(s, i) == {k \in DOMAIN shard[s][i] : shard[s][i][k].type = s}

Forwarded(s) == UNION {{shard[s][i][k].batch : k \in DataAt(s, i)} : i \in 1..Shards[s]}

\* No batch of s is on two places of its shards.
ForwardedOnce(s) ==
  \A i, j \in 1..Shards[s] : \A k \in DataAt(s, i), l \in DataAt(s, j) :
    shard[s][i][k].batch = shard[s][j][l].batch => i = j /\ k = l

\* _forward_sharded: whatever the interleaving of client, reader and teardown, the EOF of
\* a shard announces exactly the messages that shard holds, nothing but an Abort follows
\* it, and no number of the stream is given twice.
ShardsAnnounced ==
  \A s \in Streams :
    /\ \A i \in 1..Shards[s] : \A k \in DOMAIN shard[s][i] :
         shard[s][i][k].type = "eof" =>
           /\ shard[s][i][k].expected = Cardinality(DataAt(s, i))
           /\ \A j \in k + 1 .. Len(shard[s][i]) : shard[s][i][j].type = "abort"
    /\ \A i, j \in 1..Shards[s] : \A k \in DataAt(s, i), l \in DataAt(s, j) :
         shard[s][i][k].seq = shard[s][j][l].seq => i = j /\ k = l

\* _transactions_worker and _send_transactions_parallel: the EOF is only sent after every
\* worker has finished and a worker owns every line that starts in its range, so once the
\* pipeline has the EOF of the transactions it has every line of the file once (unless the
\* client gave up waiting on its workers).
EofCoversFile ==
  HasEOF("trans") /\ timeouts = 0 =>
    Forwarded("trans") = Lines /\ ForwardedOnce("trans")

\* What the client's file holds for u.
Text(u) == [i \in DOMAIN written[u] |-> emitted[u][written[u][i]]]

\* _deliver_response, _receive_and_write_responses, _maybe_finalize: what a client that
\* writes its file has for a use case is what the join published, in that order and without
\* a gap, up to some point; every chunk is in it, and each just once, in order, when the join
\* was not killed while it published (if it was, the file may hold chunks twice).
OutputIsWhole ==
  client = "done" => \A u \in UseCases :
    /\ IsPrefix(Text(u), emitted[u]) /\ ToSet(Text(u)) = 1..Chunks
    /\ restarts[u] = 0 => Text(u) = [i \in 1..Chunks |-> i]

\* Where the messages of use case u are in q, and which.
ResponsesAt(q, u) == {i \in DOMAIN q : q[i].type = "response" /\ q[i].uc = u}
ChunksOf(q, u) == {q[i].nth : i \in ResponsesAt(q, u)}
InOrder(q, u) == \A i, j \in ResponsesAt(q, u) : i < j => q[i].nth < q[j].nth
Counted(w) == w = [i \in 1..Len(w) |-> i]

\* _deliver_response acks only what is on the wire: while the client is there and the
\* session is open, a message the join has published is in the client's file, on the wire or
\* on the response queue, each in one of them, once and in order.
NoResponseLost ==
  ~closed /\ ~Gone =>
    \A u \in UseCases :
      LET inFlight == g2c \o responses IN
      /\ Counted(written[u]) /\ Len(written[u]) <= Len(emitted[u])
      /\ ChunksOf(inFlight, u) = Len(written[u]) + 1 .. Len(emitted[u])
      /\ InOrder(inFlight, u)

Released == ~registered /\ responder \in {"none", "closed"}

\* _teardown: a session torn down by either thread leaves the monitor's table and its
\* response queue (unless a shutdown found the response thread before its consumer).
TornDownIsReleased == (closed /\ shutdowns = 0) ~> (Released \/ shutdowns > 0)

\* The whole round trip: a client that stays, with a gateway that stays and a socket that
\* is drained, gets all its responses.
SessionCompletes == <>(client = "done" \/ leaves > 0 \/ shutdowns > 0 \/ sendTimeouts > 0)

\* _abort "tell[s] the pipeline to drop this crashed client's partial data": a client that
\* drops while its upload is incomplete is aborted on every shard.
DroppedIsAborted ==
  (client = "left" /\ reader \in Streams) ~>
    (HasEOF("accs") \/ \A s \in Streams : \A i \in 1..Shards[s] :
       shard[s][i] # <<>> /\ Last(shard[s][i]).type = "abort")

-----------------------------------------------------------------------------
(* Inductive strengthening of NoResponseLost and OutputIsWhole *)

ResponseMsgs == [type : {"response"}, uc : UseCases, nth : Nat]
HelloAckMsg == [type |-> "helloAck"]

\* Until the reader has sent the HelloAck there is no response thread, nothing was forwarded
\* and nothing answered; the client waits for it, and takes it first.
HandshakeOK ==
  /\ client \in {"start", "connected", "ack", "trans", "accs", "wait", "done", "ended", "left"}
  /\ responder \in {"none", "starting", "consuming", "stopping", "closed"}
  /\ responder = "none" =>
       /\ g2c = <<>> /\ responses = <<>> /\ shard = DeclaredShards
       /\ reader \in {"none", "hello", "helloAck", "failed"}
       /\ client \notin {"trans", "accs", "wait", "done"}
       /\ \A u \in UseCases : emitted[u] = <<>>
  /\ reader \in {"none", "hello", "helloAck"} => responder = "none"
  /\ client \in {"start", "connected"} => responder = "none" /\ c2g = <<>> /\ reader # "helloAck"
  /\ responder # "none" /\ client = "ack" => g2c # <<>> /\ g2c[1] = HelloAckMsg
  /\ responder \in {"stopping", "closed"} => closed

\* The client's socket holds the HelloAck first, if at all, and responses.
WireOK ==
  /\ g2c \in Seq(ResponseMsgs \cup {HelloAckMsg}) /\ responses \in Seq(ResponseMsgs)
  /\ \A i \in DOMAIN g2c : g2c[i] = HelloAckMsg => i = 1 /\ client = "ack"
  /\ DOMAIN written = UseCases /\ DOMAIN emitted = UseCases

\* Every run of _maybe_finalize publishes from the first chunk on, so what comes before a
\* chunk was published before it; without a restart each is published once.
PublishedOK(u) ==
  /\ emitted[u] \in Seq(1..Chunks) /\ next[u] \in 1 .. Chunks + 1
  /\ next[u] > 1 => Len(emitted[u]) > 0 /\ emitted[u][Len(emitted[u])] = next[u] - 1
  /\ \A i \in 1 .. Len(emitted[u]) : \A k \in 1 .. emitted[u][i] : \E j \in 1 .. i : emitted[u][j] = k
  /\ restarts[u] \in Nat
  /\ restarts[u] = 0 => Counted(emitted[u]) /\ Len(emitted[u]) = next[u] - 1

PublishedInv ==
  /\ DOMAIN next = UseCases /\ DOMAIN restarts = UseCases
  /\ \A u \in UseCases : PublishedOK(u)

\* The messages of u in the client's file, on the wire up to the n-th, and on the queue
\* follow one another.
ChunksOK(u) ==
  /\ written[u] \in Seq(Nat) /\ Counted(written[u]) /\ Len(written[u]) <= Len(emitted[u])
  /\ InOrder(g2c, u) /\ InOrder(responses, u) /\ ChunksOf(responses, u) \subseteq 1 .. Len(emitted[u])
  /\ ~Gone =>
       \E n \in Len(written[u]) .. Len(emitted[u]) :
         /\ ChunksOf(g2c, u) = Len(written[u]) + 1 .. n
         /\ ~closed => ChunksOf(responses, u) = n + 1 .. Len(emitted[u])
  /\ client = "done" => \E i \in 1 .. Len(written[u]) : emitted[u][i] = Chunks

ResponseInv == HandshakeOK /\ WireOK /\ PublishedInv /\ \A u \in UseCases : ChunksOK(u)

-----------------------------------------------------------------------------
(* Inductive strengthening of ShardsAnnounced *)

IsSeq(q) == Len(q) \in Nat /\ q = [k \in 1..Len(q) |-> q[k]]

\* The accounts are forwarded after the transactions, and neither before the handshake.
NotBegun(s) == reader \in {"none", "hello", "helloAck"} \/ (s = "accs" /\ reader = "trans")

\* While a stream is forwarded its shards hold data only, as much as was counted, with
\* numbers that were given out.
ShardsOK(s) ==
  /\ DOMAIN shard[s] = 1..Shards[s]
  /\ \A i \in 1..Shards[s] :
       /\ IsSeq(shard[s][i])
       /\ NotBegun(s) => shard[s][i] = <<>>
       /\ reader = s =>
            /\ counts[i] = Len(shard[s][i])
            /\ \A k \in DOMAIN shard[s][i] : shard[s][i][k].type = s /\ shard[s][i][k].seq < rr
       /\ \A k \in DOMAIN shard[s][i] :
            /\ shard[s][i][k].type \in {s, "eof", "abort"}
            /\ shard[s][i][k].type = s => shard[s][i][k].seq \in Nat

ShardInv ==
  /\ DOMAIN shard = Streams /\ \A s \in Streams : ShardsOK(s)
  /\ reader \in Streams => counts \in [1..Shards[reader] -> Nat] /\ rr \in Nat
  /\ ShardsAnnounced
=============================================================================
