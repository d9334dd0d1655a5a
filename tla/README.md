# Verification of the money-laundering analysis pipeline

TLA+ specifications of the distributed pipeline in `src/`, the TLC
configurations that check them on small instances and the TLAPS proofs that
establish the main results for every instance.

## 1. The system

A client uploads transactions and accounts to the **gateway**, which stamps
each message, spreads it over the shards of the **default filters** and returns
the answers of five use cases. Between them, fleets of controllers (**filter**,
**group-by**, **aggregate**, **merge**) exchange messages through RabbitMQ, and
a **join** per use case builds the response. A cluster of **supervisors**
watches heartbeats and restarts dead containers; a chaos monkey kills them.

| Component | State it keeps | Operations | What makes it correct |
|---|---|---|---|
| `RingCompletion`, `RingNode`, `SentCounts` | per client: expected and received counts, per-shard sent counts, phase; aborted clients | data, upstream EOF, barrier token, abort, start-up recheck | the downstream EOF announces exactly the outputs sent, after all of them, and does come |
| ring controllers | accumulation per client, in memory, on disk, or none | process one input, emit, free, discard | outputs computed from the whole input shard, each input once |
| `Checkpointer`, `dispatch`, `CheckpointStore` | held acks, dirty flag, tombstones, lock, file | apply and record, batched and forced save, restore | an acknowledged effect is never lost, a redelivered one never applied twice |
| `Deduplicator` | per producer: highest contiguous number, numbers beyond a gap | is_duplicate, record, snapshot, restore | duplicate if and only if processed |
| `PersistentSpill`, `MultiShardSpill` | open files, their lines | append, read, clear, snapshot (lengths), restore (truncate) | files agree with the dedup table after a crash |
| `StampingMOM` | producer id, one counter | send, send_stamped | a replayed output gets the number it had |
| merge | two inputs' EOF counts, rows of both | left and right data and EOF, emit | completes with both inputs, replays identically |
| join | counts per client, finalized set, rows | data, EOF, abort, finalize | one whole response per client; never waits for its own lock |
| gateway | reader and response thread per client, monitor table | forward, abort, deliver, teardown, shutdown | EOF counts match what was forwarded; no response lost; a dead client is aborted |
| client | byte ranges, workers' queue, responses | upload, receive | every line once; five whole answers |
| supervisor election | leader, runtime, event queue | LeaderDown, NewLeader, announce, promote, downgrade | in the end one leader, the greatest |
| registry, reviver, heartbeat | last beat and status per node, cooldown | register, beat, sweep, revive | dead nodes are revived, connected ones are not declared dead |
| use-case functions | dicts, spilled partial dicts | filter, group, aggregate, merge, join | the cluster's answer is the answer of one machine |
| compose generator | fleets, queues, partitions | generate | every queue has the right readers and writers |

Interaction: controllers share nothing but broker queues. Each has ONE consume
thread that handles data, EOF, abort and ring messages, so that handlers of one
process never interleave; handlers of different processes do, and a process may
die between any two of its effects: a send, a save, an ack. The broker keeps
every message until it is acked. An ack is scheduled on the connection
(`_ack.py`) and may go out long after the handler. The gateway has two threads
per client that share a socket; a supervisor has an event worker, a runtime
worker and an announcer that share two fields.

The hard parts: what a crash repeats or forgets; messages and tokens that come
twice or late; the order of save, send, ack and delete; numbers given again
after a replay; aborts that race with completion; threads that close what
another one uses; elections cut off half-way; timers that race. `PROJECT.json`
lists them at their lines as hazards.

## 2. Modules

| Module | Models | Role |
|---|---|---|
| `RingStage` | `ring_completion.py`, `ring_node.py`, `sent_counts.py`, controllers, checkpointer, dispatch | one stage of N controllers, one client |
| `StageBarrier` | what a stage promises the next one | abstract specification |
| `Dedup` | `deduplicator.py` with the checkpointer around it | component |
| `Spill` | `persistent_spill.py`, `multi_shard_spill.py` | component |
| `Merge` | `ring_merge.py`, `stamping_mom.py` | component, several clients |
| `Join` | `join_route_handler.py` | component, several clients |
| `MergeJoin` | the queue between the two, faults | composition of `Merge` and `Join` |
| `Session` | `client.py`, `client_stream_handler.py`, `gateway.py`, `connection.py` | one client session |
| `Election` | `server.py`, `leader_runtime.py`, `replica_runtime.py` | N supervisors |
| `NodeWatch` | `registry.py`, `reviver.py`, `heartbeat/client.py`, `chaos/main.py` | nodes and a leading supervisor, with a clock |
| `Messages` | `comms/messages/` | what `_fields` and `_from_fields` do |
| `PathGraph` | what use case 4 asks of a graph | reference definitions |
| `UseCases` | `filter_fns`, `group_by_fns`, `aggregate_fns`, `merge_fns`, `join_fns`, parsers, conversion | pure operators |
| `Oracle` | `scripts/gen_input_output.py` | reference answers, in both of the script's versions |
| `Topology` | `scripts/gen_compose/` | fleets and queues of each use case |
| `Pipeline` | every controller with its function | composition of the five above |
| `MC*` | | inputs and instances for TLC |
| `RingStageProofs` | | theorems about `RingStage` and the refinement of `StageBarrier` |
| `DedupProofs`, `SpillProofs`, `MergeJoinProofs`, `SessionProofs`, `ElectionProofs`, `NodeWatchProofs` | | theorems about the module each is named after |
| `UseCaseProofs` | | theorems about `PathGraph` and `Messages` |

How they fit: `RingStage`, `Dedup` and `Spill` show that a stage takes every
message once and closes exactly when it has sent everything, whatever crashes.
`Pipeline` takes that as given (a peer's input is complete when every writer of
its queues has closed, a message is taken once) and asks whether the fleets,
routed as the generator wires them, compute the right answer. `MergeJoin` does
the same as `RingStage` for the two nodes with several clients and numbered
outputs. `Session` is the client's end of it. `NodeWatch` and `Election` are
what brings dead processes back, on which the fairness of the others rests.

### RingStage

State and code: `mem[n]` is the client's entry in `RingCompletion`, the dedup
table (`seen`), the accumulation or the sent counts (`acc`) and the tombstone;
`ckpt[n]` is the checkpoint file, `pending[n]` the held acks, `inbox` and `ring`
the two queues of a node, `acking[n]` a token's ack that is scheduled but not
sent. `pc`, `cur`, `rest`, `tell`, `closing` are the position of the consume
thread inside a handler: each send, save and ack is a step, and `Crash` may come
between any two.

| Action | Code |
|---|---|
| `IgnoreData`, `ApplyData`, `SendOutput`, `DataApplied` | `Checkpointer.handle_data` around a controller's `_on_data` and `rc.on_data` |
| `ReportSent`, `Advance` | `_emit`, `report_sent`, `_advance` |
| `Save`, `AckPending` | `_checkpoint_and_flush` |
| `TakeEOF`, `HandleEOF`, `Free`, `AckCurrent` | `dispatch`, `_on_eof` |
| `HandleToken`, `CloseShard`, `Closed`, `TokenFails`, `SendTokenAck` | `_on_ring_msg`, `on_token`, `_downstream_eof`, `ack_threadsafe` |
| `HandleAbort`, `AbortShard`, `AbortSent` | `_on_abort` |
| `Crash`, `Restart` | process death, `Checkpointer.restore`, `RingNode.start` |
| `UpstreamAbort`, `Redeliver`, `OtherClientFlush` | gateway's abort; resends and lost acks; saves that other clients force |

`Kind` selects the controller: `stateless` (filter, group-by: sends while it
processes), `inMemory` (the accumulation is in the checkpoint) or `spilled` (the
accumulation is on disk, the checkpoint refers to it, so deleting it deletes the
checkpointed part too).

Abstractions. One client: `RingCompletion` keeps independent entries per client,
and others matter only through the shared checkpoint. A message is its identity
(producer, number); an output too, so an output that is sent again is the same
output: that a replay gives it the same number is the subject of `MergeJoin`.
Upstream queues are bags, so any delivery order is covered. The unforced flush
before an EOF is always taken; a forced one follows it in the same handler. Data
acks take effect at once and `Redeliver` stands for the ones that are lost. The
throttle sleep of `_forward` is left out.

### Dedup and Spill

`Dedup` has one producer. `Record` and the turns of the loop (`CloseGap`,
`Recorded`) are separate so that a crash may cut the loop. `Checkpoint` saves
the table with the business state and sends the held acks.

`Spill` has one client's files with a process buffer and a disk each. `Reopen`
distinguishes the two classes: `PersistentSpill.restore_state` reopens the files
it truncates, `MultiShardSpill.restore_state` does not. Files are deleted by
`Free` and `Discard`. The live path frees what is emitted and saved, but
`start()` frees what its own recheck has just emitted before it saves
(`ring_node.py:71-75`, and `ring_merge.py:84-88`), and an Abort deletes before
the tombstone is saved (`ring_node.py:112-118`). The variable `starting` is that
window, and the history variable `early` records a deletion inside it: a crash
then restores a table whose lines are gone, and truncating a file that is not
there any more leaves nothing, or zero bytes (`Nul`) once it was opened again.

### Merge, Join, MergeJoin

Both nodes have the shape of the checkpointed consumers: a queue of messages that
were not acked, the prefix of it that was applied (`held`), `mem`, `ckpt`, and
`pc` and `task` for the place inside a handler and the event that led there
(`data`, `flush` before an EOF, `eof`, `abort`, `start`). Each send, save and
ack is a step.

* `Merge` keeps rows, EOF counts and phase per client, and one output counter
  `seq` for all of them, which is part of the checkpoint. `HandleEOF` includes
  the forced flush that freezes the state before an emission; an emission that a
  data message completes has none, as in the code. The ring has one controller,
  where `report_sent` announces at once: tokens are in `RingStage`.
* `Join` publishes a response chunk by chunk, then marks and saves. The lock of
  the checkpointer is the state `stuck`: a finalization inside `handle_data`
  would ask for the lock it holds.
* `MergeJoin` connects them by `link`, adds crashes of either node, messages of
  an input that come again, and a client that drops; another peer of the ring
  then sends its Abort to the join at a time of its own, so that the EOF and the
  data of this merge may follow an Abort.

The use cases differ in four points, which are constants. `MergeSpilled` and
`JoinSpilled`: the right rows of the merges of use cases 3 and 4, and the rows of
the joins of 1 and 3, are `PersistentSpill` files; `Restored` then gives a new
process what is on disk (nothing of a file that was deleted, all that was written
of one the checkpoint does not know). `ReplayInOrder`: the tiles of use case 4 are
cut from `list(set)`, and `gen_merge.py` sets no `PYTHONHASHSEED`, so a revived
merge may send them in another order. `AtLeastOne`: `uc4_prune` may have a result
of no message. `UseCase2` names the pair for which the run and the theorems hold:
rows in memory, at least one message, a deterministic replay. What the other
settings break is in the list of further configurations in section 3.

### Session

`client`, `reader` and `responder` are where the client's `_run`, the handler's
`_run` and its response thread are. `c2g` and `g2c` are the two directions of
the socket, `shard` what was forwarded, `responses` the client's queue at the
broker. The split of the file into byte ranges is `Bound`, `Offset` and `Owned`,
computed from the offsets at which the lines begin (`layout`). A worker reads its
lines in order, so what it still has to queue is a set (`left`) of which the least
comes next, its marker last. A batch is one line.

`ClientLeaves` is a crash or a signal: the kernel may still deliver a prefix of
what was sent. `Connection.recv` raises when the peer closed and returns empty
bytes when the handler closed the socket itself; `RecvRaises` and `RecvEmpty`
keep the two apart because the code handles them differently.

The joins are `Respond`, `Finalize` and `JoinCrash`, one per use case: a join
whose streams have their EOFs publishes its chunks one by one, then saves its
marker, and one that is killed in between starts over with the redelivered EOF
and publishes from the first chunk again (`join_route_handler.py:150-162`).
`emitted[u]` is everything it has published, so a message is told apart by its
place there, a repetition too. The stages between the gateway and the joins are
external to this module, and taken to be slower than the declaration of the
response queue, as the docstring of `_start_response_consumer` says.

### Election

Event worker: `HandleLeaderDown`, `HandleElection`, `HandleNewLeader`,
`HandleCut`. It writes `_leader` and changes the runtime in separate steps with a
blocking `stop()` between them, in the order of the code: `HandleNewLeader` then
`Downgrade` (`server.py:178-179`), `Promote` then `ClearLeader` (161-162); `pc` is
where it stands, and the announcer and the runtime worker run in between. Runtime
worker: `PickRuntime` under the lock and `StartRuntime` outside it,
`OldRuntimeRaises`, `ReplicaConnects`, `ReplicaLosesLeader`. `at` says where it is.
A replica runtime that is stopped between the two starts all the same, sets
`_keep_running` again while its link stays closed, and never returns
(`replica_runtime.py:24-37`): the place `stuck`. A `LeaderRuntime` that is stopped
before it starts returns at once, so for a leader the two are one step.

`Revive` is the leader's restart of supervisors, its last turn after a stop
included, and the `_docker_start` of a `ReplicaLink` that breaks, which also one
that leads no more still does: `ReplicaLink.pong_ping` serves on after a demotion,
so a demotion breaks no link. `Kill` is a container that dies with all its state,
`KillMidSend` one that dies between the connect to a peer and the send: the peers
before it in the list have the message, this one has a connection without one.
`recv` then raises in the event loop, which ends the event worker and nothing else:
the threads of `server.py:64-65` are no daemons, so the supervisor goes on to accept
messages (and so to ack elections), to announce and to serve, and handles nothing
(`pc` is `dead`). `harm` records the three things that nothing repairs.

Which workers share which fields is as in `SupervisorNode`: `_is_leader` reads
`leader` and `runtime` only. A message that is sent to a supervisor that is up is
queued in the order sent; timers fire only while queues are at most `MaxPending`
long, and a repeated claim at the end of a queue is not queued twice: both keep
the queues finite and leave out only repetitions of events that change nothing.

### NodeWatch

Time passes in ticks of one registry sweep (half a second). `Tick` is refused while
something due would become later than `Jitter`. `age`, `graceAge` and `attempt` are
the differences of clock values the code compares, capped one above the bound they
are compared with. The leading supervisor changes in two ways. It crashes
(`LeaderCrash`) and another takes over (`TakeOver`) at most `MaxGap` ticks later; or
one with a greater id takes over from it while it runs (`HandOver`), and it goes on,
with its reviver (`OldRevives`), for at most `MaxOverlap` ticks until it has handled
the claim (`OldStops`). A new leader starts with a fresh registry and reviver.

How long a node takes to notice is `AfterBeat`. The thread of a connection sees the
stop only after one more message, so a demoted leader answers one more heartbeat
(`leader_runtime.py:161-172`); and since the client never reads the answer to its
Register for itself, each heartbeat reads the answer to the message before it
(`client.py:65-74`), so a closed connection is noticed one heartbeat later still.
`RegisterBound` is what this adds up to.

### Messages, UseCases, Oracle, Topology, Pipeline

Amounts are integers (cents), a timestamp is its day and whether it is a datetime
or a text (packing makes it a text; `Transactions` reads a datetime back,
`MergedTransactions` leaves the text), an average is the pair of
sum and count, so no floating-point rounding is modelled. Dicts are functions,
Python's `hash` under the fixed `PYTHONHASHSEED` is the constant `Hash`. Bank
ids carry the number of zeros they are padded with, which differs between the
two files and which the parsers drop. Aggregates of use case 4 keep a dict and
the partial dicts they spilled. A node of the graph is the pair of bank and
account, where the code's equality compares the two strings concatenated. The
`AFFINITY_SHARDS` of the code are 10, 50 or 100 by module, so there are three
constants for them.

`Pipeline` runs one use case from the client's files: `Filter`, `GroupBy`,
`Aggregate`, `Merge` handle one message each, `AggregateEmit` and `MergeEmit`
send a peer's result, `Close` is the end of a fleet, `JoinData` and `Respond`
the join. Every message goes through `Serialize` and `DeserializeMessage`.
Peers of all fleets interleave and take messages in any order. The client parses
the lines, the gateway deals the batches out. A queue is closed when it has writers
and all of them have closed it: one that nobody writes is never closed, and its
fleet waits for ever, as in the code.

`Oracle` has both versions the script has, over the whole table and over its
chunks, and the answers are compared with it. When two accounts of a bank attain
the maximum of use case 2 either may be named: the oracle names the first of the
file, the cluster the first that arrives.

## 3. Runs

| Run | Bounds | Shows |
|---|---|---|
| `ring_stateful` | 2 peers, 2 + 1 messages, 2 shards, 1 crash, 1 redelivery, 1 failing token handler | `EofIsExact`, `OnlyWholeResults`, `EmitsWholeInput`, `AckedIsDurable` |
| `ring_liveness` | 2 stateless peers, a leader without data and a peer with 1 message, 1 crash, client abort | `StageCloses`, `RingDrains`, `NoEofAfterAbort`, `DoneMeansForwarded`, refinement of `StageBarrier` |
| `dedup_reordered` | 4 numbers, any order, 1 resend, 2 crashes | `DedupExact`, `AckedIsSaved`, `AllApplied` |
| `spill_multi_shard` | 2 files, 3 messages, 2 crashes, an abort | `NothingLost`, `StaysExact` |
| `merge_join` | use case 2: 2 clients, interleaved rows, checkpoint every 2 messages, 2 faults | `StampedOnce`, `AnswersWholeResult`, `NeverStuck`, `SilentAfterAbort`, `AnsweredAndReleased` |
| `session_round_trip` | 2 workers, 2 + 1 shards, 2 use cases of 2 chunks, socket of 2 messages, 2 faults (timeout, leave, shutdown, join killed), each join killed at most once | `ShardsAnnounced`, `EofCoversFile`, `OutputIsWhole`, `NoResponseLost`, `TornDownIsReleased`, `SessionCompletes` |
| `election_kills` | 3 supervisors, 1 fault: a kill or a stopped runtime that raises | `FollowsWhatItNames`, `SettlesUnlessHarmed`, `LeaderlessOnlyIfStoodDown` |
| `node_watch` | 2 nodes, 2 strikes of 1 victim, 1 leader change, 1 failed start, timers 1 tick (0.5 s) late, shipped timings with a cooldown of 4 s | `NoFalseDeath`, `DownIsShort`, `Recovers` |
| `pipeline` | 2 peers per fleet, 2 or 3 batches, degree and path thresholds 2, tiles of 4 pairs, 2 seeds for use cases 1, 3 and 5 | `TypeOK`, `OraclesAgree`, `KeyInOnePlace`, `HighDegreeExact`, `PathsCounted`, `AnswerIsOracle`, `Answered` |

Why the bounds are enough. Two peers already have a leader and a follower whose
states may differ arbitrarily; that more peers add nothing to the exactness of
the EOF, the tokens and the refinement is proved (section 4). Two messages
against `CheckpointEvery = 2` give held acks with and without a batch
checkpoint. One crash reaches each gap between two effects, and the second life
may meet what the first one left; `merge_join` has two faults, so a replay may
crash again. Two clients are what one shared counter needs to be given out in
different orders. A socket of two messages is full when a third response comes.
Three supervisors have one that is neither the least nor the greatest. The files
of `pipeline` have amounts and days on both sides of every bound of a filter,
ties, currencies with and without a rate, a format without an average, nodes
below, at and above the degree threshold (so that a neighbour set is capped) and
nodes large enough to be tiled, along
both their predecessors and their successors and with a last tile that is not full.
`PathsCounted` compares the counts with every pair that a shard is to have, so a pair
that all tiles leave out shows as well as one that two tiles share.

`node_watch` has the shipped timings in half-seconds: timeout 6, interval 2,
reconnection 4, reviver 1. The cooldown is 8 where the code has 30 (15 s): a node
that is struck again inside the cooldown of its first revival is what it is for, and
8 leaves room for it. With 30 and one strike the same properties hold (3 478 733
states). `election_kills` with one kill and one raise together also passes (1 763 441
states, 9 minutes), beyond what a run should take.

What these instances do not reach: one hash seed serves all processes of an
instance, as `gen_nodes.py` sets it, so `KeyInOnePlace` and `AnswerIsOracle` cannot
show what a seed that differs per process would do.

Fairness. The thread of a live process goes on, and a dead one is restarted
(`WF` on the steps of each process): the supervisors do that, which is what
`node_watch` and `election_kills` are about. `SF(Delivery(n))` in `RingStage`:
the broker serves the data queue however busy the ring queue is, because each
queue has its own prefetch window (`multi_consumer.py`). In `Session` every
thread runs, but no client has to leave, no queue to time out and no full socket
to fail, and no join to be killed. In `Election` the ping's timer is strongly fair,
because a queue that is not quiet at one moment does not stop a timer that fires
again and again; the announcer needs weak fairness only. In
`NodeWatch` time passes and what is due happens. Crashes, kills and strikes are
bounded and never forced, so the system is eventually left alone.

All of these systems stop when their work is done, so their configurations do
not check for deadlock, except `node_watch`, where time never stops; that they
do not stop earlier is what `StageCloses`, `AllApplied`, `SessionCompletes`,
`AnsweredAndReleased`, `SettlesUnlessHarmed` and `Answered` say.

`TypeOK` of `Session`, `Election`, `NodeWatch`, `Dedup` and `Spill` holds in the
same instances; it documents the variables and is in no run.

### Disagreements between the code and what it says

| Run | Statement | What happens |
|---|---|---|
| `session_drop` | `client_stream_handler.py:156`: False "if the client dropped ... (so the caller can purge the partial data)" | a dropped client makes `recv` raise, `_run` returns, no Abort is sent |
| `client_split` | `client.py:29`: a worker "owns every line whose START offset falls in the range" | a line that starts exactly at a bound is sent by no worker |
| `join_republish` | `join_route_handler.py:159`: "a redelivered EOF does not re-emit" | a crash before the marker is saved sends every chunk again, and the client appends it |

`session_round_trip` therefore uses files whose bounds fall inside lines
(`InsideLine`), and does not claim `DroppedIsAborted`; `merge_join` claims whole
answers, not single ones.

Further configurations are kept beside the runs, with `tlc -config <cfg> <module>`:

| Configuration | Module | What TLC finds |
|---|---|---|
| `RingStateless.cfg` | `MCRingStage` | holds: two filters with a resend and a failing token handler; exact EOFs, truthful tokens, refinement |
| `RingSpilledFree.cfg` | `MCRingStage` | violates `EmitsWholeInput`: start-up frees what `recheck` emitted a moment ago and has not saved (`ring_node.py:72` says "durably emitted pre-crash"); a second crash emits from deleted files |
| `RingTokenRetry.cfg` | `MCRingStage` | violates `DoneMeansForwarded` (`ring_completion.py:32`): a send that raises leaves DONE; the retried token is dropped and the EOF never sent |
| `RingForwardTwice.cfg` | `MCRingStage` | violates `ForwardedOnce` (`ring_completion.py:16`): a crash before DONE is saved forwards again, harmless downstream (same count) |
| `DedupAhead.cfg` | `MCDedup` | violates `AheadWithinWindow` (`deduplicator.py:8`): a counter shared over shards leaves gaps for ever |
| `SpillPersistentDup.cfg` | `MCSpill` | violates `SpillMatchesDedup` (`persistent_spill.py:10`): a file created after the last checkpoint is not truncated |
| `SpillFreeBeforeSave.cfg` | `MCSpill` | violates `KeptUntilSaved`: start-up and abort delete files that the checkpoint still counts on |
| `MergeJoinSpilled.cfg` | `MCMergeJoin` | violates `StampedOnce`: the right rows of a spilling merge (use cases 3 and 4) are freed before the save at start-up, so after another crash the same numbers stand for other messages |
| `MergeJoinReplay.cfg` | `MCMergeJoin` | violates `StampedOnce`: a replay that orders its tiles otherwise (`uc4_prune.py:99-105`, no `PYTHONHASHSEED` in `gen_merge.py`) |
| `MergeJoinSpilledJoin.cfg` | `MCMergeJoin` | violates `AnswersWholeResult`: a join that spills (use cases 1 and 3) answers with rows twice, by the same file that came after the last checkpoint |
| `MergeJoinNoMessages.cfg` | `MCMergeJoin` | violates `SilentAfterAbort`: an EOF of no messages that follows an Abort is complete at once, and `_maybe_finalize` does not ask for the tombstone |
| `NodeWatchGivenUp.cfg` | `MCNodeWatch` | violates `NoneGivenUp` under the shipped timings: after a leader change a node that was up all along is declared dead before it has found the new leader; harmless, because `docker start` does nothing to a running container |
| `SpillMultiShardLengths.cfg` | `MCSpill` | violates `EveryFileRecorded` (`multi_shard_spill.py:12`): after a restore no length is recorded until the file is appended to |

Limits of the code that the properties state rather than hide:

* `SettlesUnlessHarmed` and `LeaderlessOnlyIfStoodDown` except three harms: a kill
  of a supervisor that had taken an election message (the sender has stood down and
  nothing makes it try again), a kill between connect and send (the receiver's event
  worker ends), and a replica runtime that is stopped between its pick and its start.
* `NothingLost` and `StaysExact` except a deletion that start-up or an Abort makes
  before its save; and `StaysExact` speaks only of files whose length the checkpoint
  has, so it says nothing of lengths that vanished (`SpillMultiShardLengths.cfg`).
* `NoFalseDeath` lets the registry give up a node that has not found a new leader
  yet, for at most `RegisterBound`.
* `DownIsShort` counts under one leader: a new one starts from an empty registry.
* `OutputIsWhole` says what a file holds after a join was killed while it published:
  every chunk, some of them twice.
* `EofCoversFile` excepts a client whose worker queue timed out.

`scripts/repro_wedge.py` reports that under sustained chaos the small pipeline
occasionally runs for ever, with an unknown cause. The models do not claim to explain
it, but four of the behaviours above end in a stage or a cluster that waits for ever
or loses messages: a token handler that raises after DONE (`RingTokenRetry.cfg`), an
emission from deleted files (`RingSpilledFree.cfg`), numbers given to other messages,
which the next node drops as duplicates while the EOF counts them
(`MergeJoinSpilled.cfg`, `MergeJoinReplay.cfg`), and supervisors that are harmed as
above and restart no one.

## 4. Proofs

Every theorem holds for all values of the constants that satisfy the named
assumptions, so for every number of peers, files, messages, shards, nodes,
supervisors, clients, crashes, kills and resends. The inductive invariants are in
the component's module or at the head of its part of the proofs, and TLC has
checked each of them on the instances of section 3 before it was proved.

Assumptions on constants: `RingAssumption`, `InputAssumption`,
`OutputAssumption` (at least one peer, finite inputs and outputs, outputs go to
existing shards); `DedupAssumption` (finite set of positive numbers);
`SpillAssumption` (finitely many messages, the files of a message exist);
`MergeJoinAssumption` (finitely many clients and keys; each row is one message);
`SessionAssumption` (at least one worker, chunk and shard; every use case reads
at least one stream; a file has a header and its lines begin one behind another); `ElectionAssumption` (at least one
supervisor); `NodeWatchAssumption` (settings and bounds are natural numbers and
the timeout covers one late heartbeat, as the shipped settings do with room);
`ThresholdAssumption` (`MIN_DEGREE` positive and at most `MIN_PATH_COUNT`; the
code has 5 for both).

### The ring

* `TypeCorrect`: `Spec => []TypeOK`, for every kind of controller and every
  fault. The counts in `inbox` stay natural numbers only because what a thread is
  going to ack is still queued; `TInv` adds that (`QueueOK`).
* `AckedDurable`, `SilentAfterTombstone`: for every kind and every fault.
  `AckedIsDurable` relates queue and checkpoint, but what is acked is decided in
  memory, so `DurableInv` adds that memory is the checkpoint and what was applied
  since, whose acks are held (`TableDurable`); that a total from an EOF is saved
  before the EOF is acked and never forgotten (`TotalDurable`); and that a
  tombstone is saved by the handler that sets it and leaves nothing to emit or
  announce (`TombstoneDurable`). From the last part a leader with a saved
  tombstone cannot be closing, which is `NoEofAfterAbort`.
* `DoneForwarded`: while no token handler raises. `ForwardInv` says it of memory
  too: DONE is set when the closing begins, and until the last shard is told the
  leader is in the closing loop with exactly the untold shards left. A send that
  raises leaves the loop with DONE set: that is `RingTokenRetry.cfg`, and why
  `MaxFailures = 0` is assumed.
* `EofExact`, `WholeResults`, `WholeEmission`, `TruthfulTokens`: for stateless
  and in-memory controllers and handlers that do not raise. The two assumptions are needed: the spilled kind breaks
  `EmitsWholeInput` (`RingSpilledFree.cfg`). `IInv` strengthens the properties
  by: the received count is the size of the dedup table (`RecordOK`), a node that
  emitted has sent everything, in memory and in its checkpoint; a stateless node
  has sent the outputs of all it recorded (`SentAsApplied`); tokens carry only
  counts of peers that have sent everything, as long as the barrier is open
  (`TokensTruthful`); and a DONE leader has its counts, has saved DONE, or is
  about to (`LeaderOK`). The last part is what a leader needs that was revived
  without its emission and closed the barrier with a token of its former life:
  its stamp is wrong, but no token can close the barrier again.
* `RefinesBarrier`: `Spec => Barrier!Spec`, under the same assumptions. Only
  `SendOutput` and `CloseShard` touch what the next stage sees.

### Dedup table and files

* `DedupIsExact`, `DedupKeepsUnsaved`: the table represents exactly the applied
  numbers, `1..hi` and the ahead set, disjoint, in memory and in the checkpoint;
  what is applied is saved or its ack is held.
* `NoLineLost`, `SpillTyped`, `ExactStaysExact`: for both spill classes, with the
  early deletions of `start()` and of an Abort in the model; the first and the last
  speak of clients without one (`Needed`).
  `SpillInv` says that lines wait only in files that are open, so that the flush
  of a checkpoint reaches them all (`BufferedIsOpen`); that what `restore_state`
  keeps of a file is on disk and already holds the lines of the saved table; and
  that the messages applied since have their lines behind it (`CommittedFile`).
  Truncation then takes away lines and table entries together. A file the
  checkpoint does not know is kept whole, which loses nothing, though it may hold
  lines twice (`SpillPersistentDup.cfg`).
* `ReopenedIsRecorded`: with `Reopen`, that is for `PersistentSpill`, the
  invariant `OpenIfUsed` makes every checkpoint record every file its table
  needs. Without it, `SpillMultiShardLengths.cfg` is the counterexample.

### Merge and join

`MergeJoinInvariant` is `UseCase2 /\ Spec => []Inv`, with `Inv` the conjunction of
`MergeInv` and `JoinInv`; the properties follow from it, under the same hypothesis.
Each part of `UseCase2` is needed, as the configurations of section 3 show. The parts
of `Inv`:

* Of each node: what memory has seen and the checkpoint has not is among the held
  messages at the head of the queue, and what memory has not seen is still to come,
  before any EOF of its client (`Covered`). Memory and checkpoint agree where
  nothing is dirty, and a tombstone is saved by the handler that sets it (`Saved`).
  The event in a handler is the first message that is not held (`Event`). So an EOF
  that is handled finds everything it announces, which is why the join never
  finalizes from a data message: `NeverStuckHolds`.
* The accumulation of a client holds exactly the rows of the messages seen, each
  once (`Accumulated`), so that an emission starts from the whole input.
* An emission (`Emitting`): at most one client is frozen in the checkpoint,
  complete and not emitted, and while it emits, memory is that checkpoint but for
  the output counter. A crash then repeats the same rows under the same numbers.
* Numbers (`Stamps`): no number stands for two messages; those beyond the saved
  counter belong to the frozen client's emission, at the position the counter gives
  them. This is `StampedOnceHolds`. It needs the freeze: an emission that began
  from an unsaved accumulation could be different after a crash. The code has no
  flush before an emission that a data message completes; by `Covered` there is no
  such emission.
* The link (`LinkOK`): an EOF announces at least one message, comes behind all of
  the client's result, and what was stamped for the client is then final. With `Joined`, which says
  of the join what `Accumulated` says of the merge, a response is the whole result,
  each row once: `AnswersWhole`.
* `SilentAfterAbortHolds`: a dropped client has received nothing in the join's
  memory and checkpoint, and the total of an EOF that follows is at least one, so
  the client can never be complete there again.

### Session

* `EofCovers`, `EofCoversWholeFile`: `CoverInv` says that every line a worker owns
  is in one place and there once: unread, in the workers' queue, on the wire or in a
  shard (`InOnePlace`); that the markers taken, queued and still to come are as many
  as the workers, and a worker's marker is behind its lines (`MarkersOK`); and that
  an EOF on the wire or in the shards is behind every line, unless a queue timeout
  fired (`Covers`). That the ranges divide the file is arithmetic on `Bound`
  (`BoundsGrow`, `FileBounds`, `RangesSplit`). `EofCovers` makes no assumption on
  the file and says that the forwarded lines are exactly those that begin at no
  bound of a range; `EofCoversWholeFile` assumes that there are no others
  (`RangesInsideLines`). The hypothesis is needed: `ClientSplit.cfg` is a file in
  which a range begins where a line begins, and that line is lost.
* `ResponsesArrive`, `OutputWhole`: `ResponseInv` cuts what a join has published, its
  repetitions after a crash included, into three consecutive intervals: what is in the
  client's file, on the wire, queued at the broker (`ChunksOK`). After a crash of the
  client or a shutdown the third may have a hole, the first two never. `PublishedInv`
  says what a join publishes: chunks from the first on, starting over at most as often
  as it was killed, so that every prefix that ends with the last chunk holds all of
  them, and is the chunks in order when it never was. `WireOK` and `HandshakeOK` say
  that nothing but one HelloAck precedes the responses, and that no response exists
  before the client is past the handshake, because every use case needs the EOF of a
  stream.
* `ShardsAnnouncedTruly`: `ShardInv` adds that while a stream is forwarded its
  shards hold data only, as much as `counts` says, with numbers below `rr`, and
  that a stream whose turn has not come has nothing (`ShardsOK`). The EOF then
  counts the whole domain of the shard's queue, and an Abort changes no count.

### Supervisors

* `ElectionTyped`, `FollowsNamed`, `GreatestNeverFollows`: with queues of any length
  and every step of the event worker apart. The property is inductive with the type of
  the queued messages and with where the event worker stands: a claim is of a
  supervisor, `_handle_new_leader` follows only greater ones, and between its two
  writes `pc` says which field is ahead.
* `NoFalseDeaths`: `WatchInv` bounds the age of a heartbeat by the client's own
  timer (`Connected`), and for a node that has been up since the leader took over
  and is not registered yet it bounds the time until it will be (`Registers`), through
  the heartbeats that a demoted leader still serves and the one that is read late, by
  `RegisterBound` (`SteadyOK`, `GivenUpOK`). The assumption is that one late heartbeat
  is in time, which the shipped settings meet.
* `LongTimeoutGivesUpNone`: what it would take to give up no live node at all, a
  timeout of at least `RegisterBound`; the shipped timeout is shorter
  (`NodeWatchGivenUp.cfg`).
* `RevivalIsTimely`: `DownInv` follows a node that is down through its phases:
  not noticed yet (`Unnoticed`), in the cooldown of an earlier attempt
  (`InCooldown`), and next in line for the reviver (`NextInLine`), each with its
  share of the bound; a failed start pays one more bound, and a change of leaders
  starts the phases again.

### Use case 4

* `PruneLossless`: on a finite graph the pairs use case 4 finds are the same
  after the prune merge. A pair with enough intermediaries has ends of at least
  that degree (`EndsHaveDegree`, by the cardinality of subsets), so its
  intermediaries keep both of their edges (`KeepsMids`), and pruning never adds
  one (`PrunesOthers`). The assumption on the thresholds is all it needs.

### Messages

* `MessagesRoundTrip`: for each class of data message, with fields from any set,
  `_from_fields` of what `_fields` returned is the value that was packed but for the
  type of timestamps (`AsRead`): `Transactions` gives datetimes, and
  `MergedTransactions` the texts that msgpack's hook made of them, because
  `merged_transactions.py:56` does not parse them. The case with an argument is the merged transactions, where transactions and averages are
  packed in one list: the count in front of it says where the averages begin.

### Only model-checked

* Liveness (`StageCloses`, `RingDrains`, `AllApplied`, `AnsweredAndReleased`,
  `TornDownIsReleased`, `SessionCompletes`, `SettlesUnlessHarmed`,
  `LeaderlessOnlyIfStoodDown`, `Recovers`, `Answered`): outside the prover's reach.
* The properties of `Pipeline`: `OraclesAgree`, `HighDegreeExact`, `PathsCounted`
  and `AnswerIsOracle` say what folds over the input compute, which needs induction
  over data; `KeyInOnePlace` and `TypeOK` rest on the same folds, since messages
  are sent (`SendAll`) and accumulated (`Fold`, `Listed`) by them. What the
  pipeline rests on and needs no fold is proved: the prune (`PruneLossless`), the
  message formats, and the stages, queues and nodes between the functions.

## 5. Plan

1. Done: all modules; the theorems about the ring, the dedup table, the spill
   files, the merge and the join, the session, the supervisors, the prune merge and
   the message formats. Every safety invariant of the runs but those of `Pipeline`
   is stated by a theorem.
2. Left: `Pipeline`, for which the fleets' functions would have to be restated
   without folds; the merge and join pairs of use cases 3 and 4, for which a weaker
   property than `StampedOnce` would have to be found, since that one is false; and
   what section 6 lists.

## 6. Not modelled

* The dashboard (`tui.py`): it displays a snapshot of the registry.
* Benchmarks, end-to-end scripts, plots and notebooks: they drive or document
  the system from outside; the faults they cause are the crash actions.
* Process start-up from environment variables and signal handlers: a stop is the
  end of the process.
* The broker, which the code takes to be durable, and docker, which `Revive` and
  `ReviverSweep` use.
* msgpack's bytes, text of responses and logs; floating-point rounding of amounts
  and averages.
* Inside a supervisor, a stop that comes while a `LeaderRuntime` is still opening its
  listeners. Inside the heartbeat client, errors that are not `OSError`. They are
  listed here because nothing in the code handles them.
