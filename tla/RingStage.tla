------------------------------ MODULE RingStage ------------------------------
(***************************************************************************)
(* One stage of the pipeline: a ring of N controllers (filter, group-by,   *)
(* aggregate) that process the input shards of ONE client and close the    *)
(* client's stream with a barrier token.  Each controller is one process   *)
(* with one consume thread; it talks to the others only through broker     *)
(* queues, checkpoints its memory to disk, holds its acknowledgements      *)
(* until a checkpoint covers them, may crash between any two effects       *)
(* (send, save, ack) and is revived from its last checkpoint.              *)
(*                                                                         *)
(* RingCompletion, SentCounts and the deduplicator keep one entry per      *)
(* client, so other clients touch this one only through the checkpoint     *)
(* they share: their events appear as OtherClientFlush.                    *)
(***************************************************************************)
EXTENDS Integers, Sequences, FiniteSets, Functions

CONSTANTS
  N,                 \* number of controllers in the ring (their ids are 0..N-1)
  Shards,            \* downstream shards: one queue of the next stage each
  Input,             \* Input[n]: identities (producer, seq) of the data sent to n
  Kind,              \* where a controller keeps what it has accumulated
  Route(_),          \* outputs a stateless controller sends for one input
  Results(_, _),     \* outputs a stateful controller n emits for a set of inputs
  Absent,            \* a token's slot for a peer not collected yet
  CheckpointEvery,   \* held acknowledgements that force a checkpoint
  MaxAborts,         \* bound: 1 if the client may die, 0 if not
  MaxCrashes,        \* bound: process crashes
  MaxResends,        \* bound: messages that come again (resent, or ack lost)
  MaxFailures        \* bound: sends that raise while a token is handled

Kinds == {"stateless", "inMemory", "spilled"}
Peers == 0 .. N-1

\* RingCompletion.leader: the smallest id of the ring.
Leader == 0

\* Mutant of Front: a controller takes itself for its neighbour.
FrontIsSelf(n) == n

\* RingRabbitMQ sends to the next larger id, the largest one to the smallest.
Front(n) == (n + 1) % N

Out(n, A) == IF Kind = "stateless" THEN UNION {Route(m) : m \in A}
                                   ELSE Results(n, A)

\* Per-shard number of outputs in a set of outputs (SentCounts, sent in _emit).
CountByShard(O) == [s \in Shards |-> Cardinality({o \in O : o.shard = s})]

ASSUME RingAssumption ==
  /\ N \in Nat \ {0}
  /\ Kind \in Kinds
  /\ CheckpointEvery \in Nat /\ MaxCrashes \in Nat /\ MaxAborts \in {0, 1}
  /\ MaxResends \in Nat /\ MaxFailures \in Nat

ASSUME InputAssumption ==
  /\ DOMAIN Input = Peers
  /\ \A n \in Peers : IsFiniteSet(Input[n]) /\ {"eof", "abort"} \cap Input[n] = {}

ASSUME OutputAssumption ==
  \A n \in Peers : \A A \in SUBSET Input[n] :
     /\ IsFiniteSet(Out(n, A))
     /\ \A o \in Out(n, A) : o.shard \in Shards

-----------------------------------------------------------------------------
VARIABLES
  inbox,     \* inbox[n][m]: copies of upstream message m queued for n, not acked
  ring,      \* ring[n]: tokens queued for n, the one being handled included
  acking,    \* acking[n]: the ack of the first token in ring[n] waits to be sent
  down,      \* unique outputs the downstream shards were sent
  eofs,      \* eofs[s]: expected counts announced to shard s
  forwards,  \* forwards[s]: number of EOFs sent to shard s
  aborts,    \* downstream shards that were sent an Abort
  mem,       \* mem[n]: volatile state of n for this client
  ckpt,      \* ckpt[n]: the state in n's last checkpoint
  pending,   \* pending[n]: applied data whose acks n holds
  pc,        \* what n's thread does next
  cur,       \* cur[n]: the event n is handling
  rest,      \* rest[n]: outputs n has still to send in this handler
  tell,      \* tell[n]: shards still to be sent the EOF or the Abort
  closing,   \* closing[n]: the complete token whose totals n is announcing
  crashes, resends, failures

queues == <<inbox, ring, acking>>
outs == <<down, eofs, forwards, aborts>>
thread == <<pc, cur, rest, tell, closing>>
bounds == <<crashes, resends, failures>>
vars == <<inbox, ring, acking, down, eofs, forwards, aborts, mem, ckpt, pending,
          pc, cur, rest, tell, closing, crashes, resends, failures>>

Phases == {"PROCESSING", "EMITTED", "DONE"}
NoCounts == [s \in Shards |-> 0]

Counts == [Shards -> Nat]
Tokens == [Peers -> Counts \cup {Absent}]
NewToken == [p \in Peers |-> Absent]

Upstream(n) == Input[n] \cup {"eof", "abort"}

\* The client's entry in RingCompletion and the dedup table of a fresh process.
FreshState ==
  [expected |-> -1, received |-> 0, seen |-> {}, acc |-> {},
   sent |-> NoCounts, phase |-> "PROCESSING", aborted |-> FALSE]

Init ==
  /\ inbox = [n \in Peers |-> [m \in Upstream(n) |-> IF m = "abort" THEN 0 ELSE 1]]
  /\ ring = [n \in Peers |-> <<>>]
  /\ acking = [n \in Peers |-> FALSE]
  /\ down = {}
  /\ eofs = [s \in Shards |-> {}]
  /\ forwards = [s \in Shards |-> 0]
  /\ aborts = {}
  /\ mem = [n \in Peers |-> FreshState]
  /\ ckpt = [n \in Peers |-> FreshState]
  /\ pending = [n \in Peers |-> {}]
  /\ pc = [n \in Peers |-> "idle"]
  /\ cur = [n \in Peers |-> "none"]
  /\ rest = [n \in Peers |-> {}]
  /\ tell = [n \in Peers |-> {}]
  /\ closing = [n \in Peers |-> NewToken]
  /\ crashes = 0 /\ resends = 0 /\ failures = 0

-----------------------------------------------------------------------------
(* Control of one consume thread *)

Idle(n) == pc[n] = "idle"

\* n starts handling event c, or goes on with the one it is handling.
Enter(n, label, c) == pc' = [pc EXCEPT ![n] = label] /\ cur' = [cur EXCEPT ![n] = c]
Goto(n, label) == Enter(n, label, IF label = "idle" THEN "none" ELSE cur[n])

-----------------------------------------------------------------------------
(* RingCompletion *)

\* Mutant of Complete: the test that the EOF has come is dropped.
CompleteWithoutEof(r) == r.phase = "PROCESSING" /\ r.received >= r.expected

\* _maybe_local_complete: the whole input shard was received, not yet emitted.
Complete(r) ==
  r.phase = "PROCESSING" /\ r.expected >= 0 /\ r.received >= r.expected

\* drop: forget the client's counts and tombstone it (the dedup table stays).
Dropped(r) == [FreshState EXCEPT !.seen = r.seen, !.aborted = TRUE]

Collected(t) == \A p \in Peers : t[p] # Absent

\* Total announced to shard s: the sum of every peer's count for it.
TokenTotal(t, s) == SumFunction([p \in Peers |-> t[p][s]])

\* Where the thread goes when a handler has nothing more to send.
AfterRun(n) ==
  CASE cur[n] = "data"  -> IF Cardinality(pending[n]) >= CheckpointEvery
                             THEN "save" ELSE "idle"
    [] cur[n] = "start" -> "free"
    [] OTHER            -> "save"

\* _advance closes the barrier: every peer is in the token, it is back at
\* the leader, and the leader has not closed it before.
Closes(n, t, r) == Collected(t) /\ n = Leader /\ r.phase # "DONE"

\* Mutant of Advance: a token that comes too late is forwarded, not dropped.
AdvanceForever(n, t, r) ==
  IF Closes(n, t, r)
  THEN /\ mem' = [mem EXCEPT ![n] = [r EXCEPT !.phase = "DONE"]]
       /\ tell' = [tell EXCEPT ![n] = Shards]
       /\ closing' = [closing EXCEPT ![n] = t]
       /\ UNCHANGED ring
  ELSE /\ ring' = [ring EXCEPT ![Front(n)] = Append(@, t)]
       /\ mem' = [mem EXCEPT ![n] = r]
       /\ UNCHANGED <<tell, closing>>

\* _advance and the controller's reaction: n, whose state is r, forwards the
\* token t, closes the barrier, or lets a token that comes too late die.
Advance(n, t, r) ==
  \/ /\ ~(Collected(t) /\ n = Leader)
     /\ ring' = [ring EXCEPT ![Front(n)] = Append(@, t)]
     /\ mem' = [mem EXCEPT ![n] = r]
     /\ UNCHANGED <<tell, closing>>
  \/ /\ Collected(t) /\ n = Leader /\ r.phase = "DONE"
     /\ mem' = [mem EXCEPT ![n] = r]
     /\ UNCHANGED <<ring, tell, closing>>
  \/ /\ Closes(n, t, r)
     /\ mem' = [mem EXCEPT ![n] = [r EXCEPT !.phase = "DONE"]]
     /\ tell' = [tell EXCEPT ![n] = Shards]
     /\ closing' = [closing EXCEPT ![n] = t]
     /\ UNCHANGED ring

-----------------------------------------------------------------------------
(* Data: Checkpointer.handle_data around the controller's _on_data *)

\* A copy of m is queued that is not the one whose ack n holds.
Deliverable(n, m) == inbox[n][m] > (IF m \in pending[n] THEN 1 ELSE 0)

\* An aborted client's message or a duplicate is acked and not applied.
IgnoreData(n, m) ==
  /\ Idle(n) /\ Deliverable(n, m)
  /\ mem[n].aborted \/ m \in mem[n].seen
  /\ inbox' = [inbox EXCEPT ![n][m] = @ - 1]
  /\ UNCHANGED <<ring, acking, outs, mem, ckpt, pending, thread, bounds>>

\* Mutant of ApplyData: the duplicate test is dropped.
ApplyDataTwice(n, m) ==
  /\ Idle(n) /\ Deliverable(n, m) /\ ~mem[n].aborted
  /\ mem' = [mem EXCEPT ![n].received = @ + 1,
                        ![n].seen = @ \cup {m},
                        ![n].acc = @ \cup {m}]
  /\ pending' = [pending EXCEPT ![n] = @ \cup {m}]
  /\ rest' = [rest EXCEPT ![n] = IF Kind = "stateless" THEN Route(m) ELSE {}]
  /\ Enter(n, "apply", "data")
  /\ UNCHANGED <<queues, outs, ckpt, tell, closing, bounds>>

\* A new message is applied and recorded, and its ack is held.  A stateless
\* controller has its outputs to send; a stateful one accumulates.
ApplyData(n, m) ==
  /\ Idle(n) /\ Deliverable(n, m)
  /\ ~mem[n].aborted /\ m \notin mem[n].seen
  /\ mem' = [mem EXCEPT ![n].received = @ + 1,
                        ![n].seen = @ \cup {m},
                        ![n].acc = @ \cup {m}]
  /\ pending' = [pending EXCEPT ![n] = @ \cup {m}]
  /\ rest' = [rest EXCEPT ![n] = IF Kind = "stateless" THEN Route(m) ELSE {}]
  /\ Enter(n, "apply", "data")
  /\ UNCHANGED <<queues, outs, ckpt, tell, closing, bounds>>

\* One output goes to its downstream shard, while applying or emitting.
SendOutput(n, o) ==
  /\ pc[n] \in {"apply", "emit"}
  /\ o \in rest[n]
  /\ down' = down \cup {o}
  /\ rest' = [rest EXCEPT ![n] = @ \ {o}]
  /\ UNCHANGED <<queues, eofs, forwards, aborts, mem, ckpt, pending, pc, cur, tell, closing, bounds>>

\* What _emit sends: a stateless controller already sent everything.
EmitOutputs(n, r) == IF Kind = "stateless" THEN {} ELSE Out(n, r.acc)

\* rc.on_data: the message may have been the last one.
DataApplied(n) ==
  /\ pc[n] = "apply" /\ rest[n] = {}
  /\ LET full == Complete(mem[n])
     IN  /\ Goto(n, IF full THEN "emit" ELSE AfterRun(n))
         /\ rest' = [rest EXCEPT ![n] = IF full THEN EmitOutputs(n, mem[n]) ELSE {}]
  /\ UNCHANGED <<queues, outs, mem, ckpt, pending, tell, closing, bounds>>

\* report_sent, once everything is sent: EMITTED, and the leader starts the
\* token.  SentCounts.pop empties a stateless controller's counts.
ReportSent(n) ==
  /\ pc[n] = "emit" /\ rest[n] = {}
  /\ LET sent == CountByShard(Out(n, mem[n].acc))
         r == [mem[n] EXCEPT !.sent = sent, !.phase = "EMITTED",
                             !.acc = IF Kind = "stateless" THEN {} ELSE @]
         t == [NewToken EXCEPT ![n] = sent]
     IN  \/ /\ n # Leader
            /\ mem' = [mem EXCEPT ![n] = r]
            /\ Goto(n, AfterRun(n))
            /\ UNCHANGED <<ring, tell, closing>>
         \/ /\ n = Leader
            /\ Advance(n, t, r)
            /\ Goto(n, IF Closes(n, t, r) THEN "close" ELSE AfterRun(n))
  /\ UNCHANGED <<inbox, acking, outs, ckpt, pending, rest, bounds>>

-----------------------------------------------------------------------------
(* Checkpoint: _checkpoint_and_flush *)

Save(n) ==
  /\ pc[n] = "save"
  /\ ckpt' = [ckpt EXCEPT ![n] = mem[n]]
  /\ Goto(n, "ack")
  /\ UNCHANGED <<queues, outs, mem, pending, rest, tell, closing, bounds>>

\* Messages whose acks in A reach the broker leave the queue.
AckData(n, A) ==
  inbox' = [inbox EXCEPT ![n] =
              [m \in Upstream(n) |-> IF m \in A THEN @[m] - 1 ELSE @[m]]]

\* Mutant of AckPending: the list of held acks is not cleared.
AckPendingAgain(n) ==
  /\ pc[n] = "ack"
  /\ AckData(n, pending[n])
  /\ Goto(n, CASE cur[n] = "flushed" -> "handle"
               [] cur[n] = "eof"     -> "free"
               [] cur[n] = "abort"   -> "abort"
               [] cur[n] = "token"   -> "done"
               [] OTHER              -> "idle")
  /\ tell' = [tell EXCEPT ![n] = IF cur[n] = "abort" THEN Shards ELSE {}]
  /\ UNCHANGED <<ring, acking, outs, mem, ckpt, pending, rest, closing, bounds>>

\* The held acks are sent and the handler goes on.
AckPending(n) ==
  /\ pc[n] = "ack"
  /\ AckData(n, pending[n])
  /\ pending' = [pending EXCEPT ![n] = {}]
  /\ Goto(n, CASE cur[n] = "flushed" -> "handle"
               [] cur[n] = "eof"     -> "free"
               [] cur[n] = "abort"   -> "abort"
               [] cur[n] = "token"   -> "done"
               [] OTHER              -> "idle")
  /\ tell' = [tell EXCEPT ![n] = IF cur[n] = "abort" THEN Shards ELSE {}]
  /\ UNCHANGED <<ring, acking, outs, mem, ckpt, rest, closing, bounds>>

\* A flush that an event of another client forces.
OtherClientFlush(n) ==
  /\ Idle(n) /\ mem[n] # ckpt[n]
  /\ Enter(n, "save", "none")
  /\ UNCHANGED <<queues, outs, mem, ckpt, pending, rest, tell, closing, bounds>>

\* Spill files leave the disk at once, the committed part that the last
\* checkpoint refers to included; what was in memory is still in it.
FreeFiles(n) ==
  ckpt' = IF Kind = "spilled" THEN [ckpt EXCEPT ![n].acc = {}] ELSE ckpt

\* _free: the accumulation goes.
FreeAcc(n) ==
  /\ mem' = [mem EXCEPT ![n].acc = {}]
  /\ FreeFiles(n)

-----------------------------------------------------------------------------
(* EOF: dispatch and RingNode._on_eof *)

\* dispatch flushes the checkpoint before the EOF is handled.
TakeEOF(n) ==
  /\ Idle(n) /\ inbox[n]["eof"] > 0
  /\ Enter(n, "save", "flushed")
  /\ UNCHANGED <<queues, outs, mem, ckpt, pending, rest, tell, closing, bounds>>

\* Mutant of HandleEOF: the state is saved only when something is emitted.
HandleEOFUnsaved(n) ==
  /\ pc[n] = "handle"
  /\ LET r == IF mem[n].aborted THEN mem[n]
              ELSE [mem[n] EXCEPT !.expected = Cardinality(Input[n])]
         full == Complete(r)
     IN  /\ mem' = [mem EXCEPT ![n] = r]
         /\ ckpt' = IF full THEN [ckpt EXCEPT ![n] = r] ELSE ckpt
         /\ Enter(n, IF full THEN "emit" ELSE "done", "eof")
         /\ rest' = [rest EXCEPT ![n] = IF full THEN EmitOutputs(n, r) ELSE {}]
  /\ UNCHANGED <<queues, outs, pending, tell, closing, bounds>>

\* on_upstream_eof and the forced flush that follows it: the one that freezes
\* the state before an emission, or the last one when nothing is emitted.
HandleEOF(n) ==
  /\ pc[n] = "handle"
  /\ LET r == IF mem[n].aborted THEN mem[n]
              ELSE [mem[n] EXCEPT !.expected = Cardinality(Input[n])]
         full == Complete(r)
     IN  /\ mem' = [mem EXCEPT ![n] = r]
         /\ ckpt' = [ckpt EXCEPT ![n] = r]
         /\ Enter(n, IF full THEN "emit" ELSE "done", "eof")
         /\ rest' = [rest EXCEPT ![n] = IF full THEN EmitOutputs(n, r) ELSE {}]
  /\ UNCHANGED <<queues, outs, pending, tell, closing, bounds>>

\* After the emission was saved, or at start-up for resolved clients.
Free(n) ==
  /\ pc[n] = "free"
  /\ IF mem[n].phase # "PROCESSING" THEN FreeAcc(n) ELSE UNCHANGED <<mem, ckpt>>
  /\ Goto(n, IF cur[n] = "start" THEN "save" ELSE "done")
  /\ UNCHANGED <<queues, outs, pending, rest, tell, closing, bounds>>

\* The handled EOF, Abort or token is acked.  An ack is only scheduled on the
\* connection: the loss of a scheduled ack of an upstream message is one of
\* the causes of Redeliver; that of a token keeps the token in the queue.
AckCurrent(n) ==
  /\ pc[n] = "done"
  /\ inbox' = CASE cur[n] = "eof"   -> [inbox EXCEPT ![n]["eof"] = @ - 1]
                [] cur[n] = "abort" -> [inbox EXCEPT ![n]["abort"] = @ - 1]
                [] OTHER            -> inbox
  /\ acking' = [acking EXCEPT ![n] = @ \/ cur[n] = "token"]
  /\ Enter(n, "idle", "none")
  /\ UNCHANGED <<ring, outs, mem, ckpt, pending, rest, tell, closing, bounds>>

\* The connection sends the scheduled ack, whatever the thread handles now.
SendTokenAck(n) ==
  /\ acking[n]
  /\ ring' = [ring EXCEPT ![n] = Tail(@)]
  /\ acking' = [acking EXCEPT ![n] = FALSE]
  /\ UNCHANGED <<inbox, outs, mem, ckpt, pending, thread, bounds>>

-----------------------------------------------------------------------------
(* Ring: RingNode._on_ring_msg *)

\* Mutant of Stamped: a peer that has not emitted fills its slot too.
StampedEarly(n, t) == [t EXCEPT ![n] = mem[n].sent]

\* The peer's slot is set only when it has emitted (on_token).
Stamped(n, t) == IF mem[n].phase # "PROCESSING" THEN [t EXCEPT ![n] = mem[n].sent]
                                                ELSE t

\* Mutant of HandleToken: the tombstone is not looked at.
HandleTokenOfAborted(n) ==
  /\ Idle(n) /\ ring[n] # <<>> /\ ~acking[n]
  /\ LET t == Stamped(n, Head(ring[n]))
     IN  /\ Advance(n, t, mem[n])
         /\ Enter(n, IF Closes(n, t, mem[n]) THEN "close" ELSE "save", "token")
  /\ UNCHANGED <<inbox, acking, outs, ckpt, pending, rest, bounds>>

\* An aborted client's token dies here; any other one advances.
HandleToken(n) ==
  /\ Idle(n) /\ ring[n] # <<>> /\ ~acking[n]
  /\ LET t == Stamped(n, Head(ring[n]))
     IN  \/ /\ mem[n].aborted
            /\ Enter(n, "save", "token")
            /\ UNCHANGED <<ring, mem, tell, closing>>
         \/ /\ ~mem[n].aborted
            /\ Advance(n, t, mem[n])
            /\ Enter(n, IF Closes(n, t, mem[n]) THEN "close" ELSE "save", "token")
  /\ UNCHANGED <<inbox, acking, outs, ckpt, pending, rest, bounds>>

\* _downstream_eof: one EOF per downstream shard.
CloseShard(n, s) ==
  /\ pc[n] = "close" /\ s \in tell[n]
  /\ eofs' = [eofs EXCEPT ![s] = @ \cup {TokenTotal(closing[n], s)}]
  /\ forwards' = [forwards EXCEPT ![s] = @ + 1]
  /\ tell' = [tell EXCEPT ![n] = @ \ {s}]
  /\ UNCHANGED <<queues, down, aborts, mem, ckpt, pending, pc, cur, rest, closing, bounds>>

\* Mutant of Closed: the handler goes on after the first shard.
ClosedEarly(n) ==
  /\ pc[n] = "close"
  /\ Goto(n, AfterRun(n))
  /\ closing' = [closing EXCEPT ![n] = NewToken]
  /\ UNCHANGED <<queues, outs, mem, ckpt, pending, rest, tell, bounds>>

Closed(n) ==
  /\ pc[n] = "close" /\ tell[n] = {}
  /\ Goto(n, AfterRun(n))
  /\ closing' = [closing EXCEPT ![n] = NewToken]
  /\ UNCHANGED <<queues, outs, mem, ckpt, pending, rest, tell, bounds>>

\* A send or a save raises while a token is handled: nack, and the token is
\* delivered again to the same process with its memory as it was left.
TokenFails(n) ==
  /\ failures < MaxFailures
  /\ failures' = failures + 1
  /\ pc[n] \in {"close", "save"} /\ cur[n] = "token"
  /\ Enter(n, "idle", "none")
  /\ tell' = [tell EXCEPT ![n] = {}]
  /\ closing' = [closing EXCEPT ![n] = NewToken]
  /\ UNCHANGED <<queues, outs, mem, ckpt, pending, rest, crashes, resends>>

-----------------------------------------------------------------------------
(* Abort: RingNode._on_abort *)

HandleAbort(n) ==
  /\ Idle(n) /\ inbox[n]["abort"] > 0
  /\ mem' = [mem EXCEPT ![n] = Dropped(@)]
  /\ FreeFiles(n)
  /\ Enter(n, "save", "abort")
  /\ UNCHANGED <<queues, outs, pending, rest, tell, closing, bounds>>

AbortShard(n, s) ==
  /\ pc[n] = "abort" /\ s \in tell[n]
  /\ aborts' = aborts \cup {s}
  /\ tell' = [tell EXCEPT ![n] = @ \ {s}]
  /\ UNCHANGED <<queues, down, eofs, forwards, mem, ckpt, pending, pc, cur, rest, closing, bounds>>

AbortSent(n) ==
  /\ pc[n] = "abort" /\ tell[n] = {}
  /\ Goto(n, "done")
  /\ UNCHANGED <<queues, outs, mem, ckpt, pending, rest, tell, closing, bounds>>

-----------------------------------------------------------------------------
(* Faults and the environment *)

\* The process dies anywhere; in the ack loop some acks may be out already.
\* Unacked messages stay queued and memory is lost.
Crash(n) ==
  /\ crashes < MaxCrashes /\ pc[n] # "down"
  /\ crashes' = crashes + 1
  /\ \E A \in SUBSET pending[n] :
       /\ pc[n] = "ack" \/ A = {}
       /\ AckData(n, A)
  /\ mem' = [mem EXCEPT ![n] = ckpt[n]]
  /\ pending' = [pending EXCEPT ![n] = {}]
  /\ acking' = [acking EXCEPT ![n] = FALSE]
  /\ Enter(n, "down", "start")
  /\ rest' = [rest EXCEPT ![n] = {}]
  /\ tell' = [tell EXCEPT ![n] = {}]
  /\ closing' = [closing EXCEPT ![n] = NewToken]
  /\ UNCHANGED <<ring, outs, ckpt, resends, failures>>

\* RingNode.start on a restored checkpoint: recheck, then free, then flush.
Restart(n) ==
  /\ pc[n] = "down"
  /\ LET full == Complete(mem[n])
     IN  /\ Goto(n, IF full THEN "emit" ELSE "free")
         /\ rest' = [rest EXCEPT ![n] = IF full THEN EmitOutputs(n, mem[n]) ELSE {}]
  /\ UNCHANGED <<queues, outs, mem, ckpt, pending, tell, closing, bounds>>

\* The client dies: its Abort reaches every shard of the stage.
UpstreamAbort ==
  /\ MaxAborts = 1
  /\ \A n \in Peers : inbox[n]["abort"] = 0 /\ ~mem[n].aborted
  /\ inbox' = [n \in Peers |-> [inbox[n] EXCEPT !["abort"] = 1]]
  /\ UNCHANGED <<ring, acking, outs, mem, ckpt, pending, thread, bounds>>

\* A message comes again: a revived upstream controller sends what it had sent
\* before, or n died before the connection sent the ack it had scheduled.
Redeliver(n, m) ==
  /\ resends < MaxResends
  /\ m = "abort" => mem[n].aborted
  /\ resends' = resends + 1
  /\ inbox' = [inbox EXCEPT ![n][m] = @ + 1]
  /\ UNCHANGED <<ring, acking, outs, mem, ckpt, pending, thread, crashes, failures>>

-----------------------------------------------------------------------------
\* Steps of n's consume thread.
Step(n) ==
  \/ \E m \in Input[n] : IgnoreData(n, m) \/ ApplyData(n, m)
  \/ \E o \in rest[n] : SendOutput(n, o)
  \/ DataApplied(n) \/ ReportSent(n)
  \/ Save(n) \/ AckPending(n) \/ Free(n) \/ AckCurrent(n) \/ SendTokenAck(n)
  \/ TakeEOF(n) \/ HandleEOF(n)
  \/ HandleToken(n) \/ Closed(n)
  \/ \E s \in Shards : CloseShard(n, s) \/ AbortShard(n, s)
  \/ HandleAbort(n) \/ AbortSent(n)
  \/ Restart(n)

Environment ==
  \/ \E n \in Peers : Crash(n) \/ TokenFails(n) \/ OtherClientFlush(n)
  \/ UpstreamAbort
  \/ \E n \in Peers : \E m \in Upstream(n) : Redeliver(n, m)

Next == (\E n \in Peers : Step(n)) \/ Environment

Spec == Init /\ [][Next]_vars

\* The thread of a live process keeps running, a crashed one is revived by
\* the supervisor, and the broker serves a node's data queue however busy its
\* ring queue is (each queue has its own prefetch window).
Delivery(n) ==
  \/ \E m \in Input[n] : IgnoreData(n, m) \/ ApplyData(n, m)
  \/ TakeEOF(n) \/ HandleAbort(n)

Fairness == \A n \in Peers : WF_vars(Step(n)) /\ SF_vars(Delivery(n))

FairSpec == Spec /\ Fairness

-----------------------------------------------------------------------------
(* What the stage should have produced once its whole input is processed *)

StageOutput(n) == Out(n, Input[n])
FullToken == [p \in Peers |-> CountByShard(StageOutput(p))]
StageTotal(s) == TokenTotal(FullToken, s)
StageOutputs == UNION {StageOutput(p) : p \in Peers}

States(n) ==
  [expected : {-1} \cup Nat, received : Nat, seen : SUBSET Input[n],
   acc : SUBSET Input[n], sent : Counts, phase : Phases, aborted : BOOLEAN]

Labels == {"idle", "apply", "emit", "save", "ack", "handle", "free", "done",
           "close", "abort", "down"}
Events == {"none", "data", "flushed", "eof", "abort", "token", "start"}

\* Types of the broker's queues, the nodes' states and the threads.
TypeOK ==
  /\ DOMAIN inbox = Peers
  /\ \A n \in Peers : inbox[n] \in [Upstream(n) -> Nat]
  /\ ring \in [Peers -> Seq(Tokens)] /\ acking \in [Peers -> BOOLEAN]
  /\ DOMAIN eofs = Shards /\ forwards \in [Shards -> Nat]
  /\ aborts \subseteq Shards
  /\ DOMAIN mem = Peers /\ DOMAIN ckpt = Peers
  /\ DOMAIN pending = Peers /\ DOMAIN rest = Peers
  /\ \A n \in Peers : mem[n] \in States(n) /\ ckpt[n] \in States(n)
                      /\ pending[n] \subseteq Input[n]
  /\ pc \in [Peers -> Labels] /\ cur \in [Peers -> Events]
  /\ tell \in [Peers -> SUBSET Shards]
  /\ closing \in [Peers -> Tokens]
  /\ crashes \in Nat /\ resends \in Nat /\ failures \in Nat

\* A downstream EOF is sent only when every peer has sent every output of its
\* shard, and announces exactly their number (_advance, _downstream_eof).
EofIsExact ==
  \A s \in Shards : \A total \in eofs[s] :
     /\ total = StageTotal(s)
     /\ \A p \in Peers : StageOutput(p) \subseteq down

\* No output is computed from part of an input shard, or from a message
\* applied twice, whatever was redelivered (handle_data, _emit).
OnlyWholeResults == down \subseteq StageOutputs

\* An emission starts from the accumulation of the whole input shard: what
\* _free deleted is never emitted again (resolved_clients).
EmitsWholeInput ==
  \A n \in Peers : pc[n] = "emit" => mem[n].acc = Input[n]

\* A message that left the queue is in the checkpoint, so a crash loses no
\* acknowledged effect (Checkpointer).
AckedIsDurable ==
  \A n \in Peers : ~ckpt[n].aborted =>
     /\ \A m \in Input[n] : inbox[n][m] = 0 => m \in ckpt[n].seen
     /\ inbox[n]["eof"] = 0 => ckpt[n].expected = Cardinality(Input[n])

\* The stage, with its crashes, redeliveries and circulating tokens, does no
\* more than the barrier that StageBarrier promises downstream.
Barrier == INSTANCE StageBarrier
             WITH Outputs <- StageOutputs, Total <- StageTotal,
                  sent <- down, announced <- eofs
BarrierRefined == Barrier!Spec

\* A barrier checkpointed as DONE was announced to every downstream shard.
DoneMeansForwarded ==
  ckpt[Leader].phase = "DONE" => \A s \in Shards : forwards[s] > 0

\* The barrier is never forwarded twice to a shard.
ForwardedOnce == \A s \in Shards : forwards[s] <= 1

\* Once the leader's checkpoint holds a client's tombstone no token of it,
\* late or redelivered, closes its barrier (drop, on_token).
NoEofAfterAbort == [][ckpt[Leader].aborted => forwards' = forwards]_vars

\* The stage closes the client's stream in every downstream shard, unless the
\* client is aborted, however often controllers crash and are revived.
StageCloses ==
  <>(\/ \A s \in Shards : forwards[s] > 0
     \/ \E n \in Peers : mem[n].aborted)

\* No token circulates for ever, neither after the barrier is closed nor
\* after the client is aborted.
RingDrains == <>[](\A n \in Peers : ring[n] = <<>>)

-----------------------------------------------------------------------------
(* Inductive strengthening of TypeOK *)

\* What a thread is going to ack is still queued.
QueueOK(n) ==
  /\ \A m \in pending[n] : inbox[n][m] >= 1
  /\ pc[n] = "handle" \/ cur[n] \in {"flushed", "eof"} => inbox[n]["eof"] >= 1
  /\ cur[n] = "abort" => inbox[n]["abort"] >= 1
  /\ cur[n] = "token" \/ acking[n] => ring[n] # <<>>
  /\ cur[n] = "token" => ~acking[n]

TInv == TypeOK /\ \A n \in Peers : QueueOK(n)

-----------------------------------------------------------------------------
(* Inductive strengthening of EofIsExact and OnlyWholeResults *)

\* A node's record r, in memory or in its checkpoint, when D was sent
\* downstream: the counts match the dedup table, a node that emitted has
\* processed its whole shard, sent every output and reported them, and only
\* the leader is DONE.  (A leader revived before it had saved its emission may
\* be DONE with a token of its former life while its data is redelivered.)
RecordOK(n, r, D) ==
  /\ r.expected \in {-1, Cardinality(Input[n])}
  /\ ~r.aborted => r.received = Cardinality(r.seen)
  /\ ~r.aborted /\ r.phase = "PROCESSING" => r.acc = r.seen
  /\ r.phase = "EMITTED" =>
       /\ r.seen = Input[n]
       /\ r.sent = CountByShard(StageOutput(n))
       /\ StageOutput(n) \subseteq D
  /\ r.phase = "DONE" => n = Leader
  /\ r.aborted => r.phase = "PROCESSING" /\ r.expected = -1

\* A stateless node has sent the outputs of everything in its dedup table.
SentAsApplied(n, r, D) == Kind = "stateless" => Out(n, r.seen) \subseteq D

ThreadOK(n) ==
  /\ rest[n] \subseteq StageOutput(n)
  /\ pc[n] \notin {"apply", "emit"} => rest[n] = {}
  /\ pc[n] = "emit" => /\ Complete(mem[n])
                       /\ StageOutput(n) \subseteq down \cup rest[n]
  /\ pc[n] = "close" => n = Leader /\ Collected(closing[n])

NodeOK(n) ==
  /\ RecordOK(n, mem[n], down) /\ RecordOK(n, ckpt[n], down)
  /\ SentAsApplied(n, mem[n], down \cup rest[n]) /\ SentAsApplied(n, ckpt[n], down)
  /\ ThreadOK(n)

\* What a token says of a peer is what that peer has really emitted.
TruthfulToken(t, D) ==
  \A p \in Peers : t[p] # Absent =>
     t[p] = CountByShard(StageOutput(p)) /\ StageOutput(p) \subseteq D

\* The leader's checkpoint says that the client's barrier is over.
Settled == ckpt[Leader].phase = "DONE" \/ ckpt[Leader].aborted

\* Until the barrier is over, every token in the ring, duplicates and
\* redelivered ones included, only holds counts of peers whose outputs were
\* all sent (on_token, report_sent).
TokensTruthful ==
  ~Settled => \A n \in Peers : \A i \in 1 .. Len(ring[n]) :
                 TruthfulToken(ring[n][i], down)

\* A DONE leader has its counts, has saved that it is DONE, or is about to.
LeaderOK ==
  /\ mem[Leader].phase = "DONE" =>
       \/ mem[Leader].sent = CountByShard(StageOutput(Leader))
            /\ StageOutput(Leader) \subseteq down
       \/ Settled
       \/ pc[Leader] \in {"close", "save"} /\ cur[Leader] = "token"
  /\ Settled => \/ mem[Leader].phase = "DONE" \/ mem[Leader].aborted
  /\ pc[Leader] = "close" => TruthfulToken(closing[Leader], down)

IInv ==
  /\ TInv
  /\ \A n \in Peers : NodeOK(n)
  /\ TokensTruthful
  /\ LeaderOK
  /\ EofIsExact
  /\ OnlyWholeResults

-----------------------------------------------------------------------------
(* Inductive strengthening of AckedIsDurable and NoEofAfterAbort *)

\* Memory is the checkpoint and what was applied since, whose acks n holds;
\* between a save and its acks nothing is held that the save does not cover.
TableDurable(n) ==
  /\ mem[n].seen = ckpt[n].seen \cup pending[n]
  /\ pc[n] = "ack" => pending[n] \subseteq ckpt[n].seen

\* The total an EOF brought is saved before the EOF is acked, and is kept
\* until the client is aborted.
TotalDurable(n) ==
  /\ ~mem[n].aborted /\ ckpt[n].expected = Cardinality(Input[n])
       => mem[n].expected = Cardinality(Input[n])
  /\ cur[n] = "eof" => ckpt[n].aborted \/ ckpt[n].expected = Cardinality(Input[n])

\* A tombstone is never taken back, is saved by the handler that sets it,
\* and leaves nothing to emit or to announce.
TombstoneDurable(n) ==
  /\ ckpt[n].aborted => mem[n].aborted
  /\ mem[n].aborted => ckpt[n].aborted \/ (pc[n] = "save" /\ cur[n] = "abort")
  /\ mem[n].aborted => mem[n].expected = -1 /\ pc[n] \notin {"emit", "close"}
  /\ ckpt[n].aborted => ckpt[n].expected = -1
  /\ pc[n] = "close" => n = Leader

DurableInv ==
  /\ TInv
  /\ \A n \in Peers : TableDurable(n) /\ TotalDurable(n) /\ TombstoneDurable(n)
  /\ AckedIsDurable

-----------------------------------------------------------------------------
(* Inductive strengthening of DoneMeansForwarded *)

\* A leader that is DONE in memory has announced the barrier to every shard,
\* or is doing so and has the others still to tell.
ForwardInv ==
  /\ TInv
  /\ mem[Leader].phase = "DONE" =>
       \/ \A s \in Shards : forwards[s] > 0
       \/ /\ pc[Leader] = "close"
          /\ \A s \in Shards \ tell[Leader] : forwards[s] > 0
  /\ DoneMeansForwarded
=============================================================================
