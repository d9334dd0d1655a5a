-------------------------------- MODULE Join --------------------------------
(***************************************************************************)
(* JoinRouteHandler: the last node of one use case.  It applies the        *)
(* partial results of every client, and when a client's EOF finds them all *)
(* it publishes the response in chunks, marks the client finalized, saves  *)
(* that, and acknowledges the EOF.  Its rows are in the checkpoint (use    *)
(* cases 2, 4 and 5) or in a PersistentSpill (1 and 3).                    *)
(***************************************************************************)
EXTENDS Integers, Sequences, SequencesExt

CONSTANTS
  Clients,
  Spilled,          \* are the rows in files?
  CheckpointEvery,  \* held acks that force a checkpoint
  MaxCrashes        \* bound: crashes of the node

VARIABLES
  link,       \* its queue: messages that were not acked
  held,       \* length of the prefix that was applied and not acked
  mem,        \* join function, _JoinCounts, dedup table, tombstones
  ckpt,       \* the last checkpoint
  dirty,      \* was anything applied since then?
  pc, task,   \* what the thread does next, and for which event
  client,     \* client being handled
  chunks,     \* chunks of the response still to publish
  responses,  \* responses[c]: chunks published for c
  crashes

thread == <<pc, task, client, chunks>>
vars == <<link, held, mem, ckpt, dirty, thread, responses, crashes>>

Unknown == -1
FreshClient ==
  [rows |-> <<>>, received |-> 0, expected |-> Unknown, finalized |-> FALSE, aborted |-> FALSE]
FreshMemory == [of |-> [c \in Clients |-> FreshClient], seen |-> {}]

Init ==
  /\ held = 0
  /\ mem = FreshMemory /\ ckpt = FreshMemory /\ dirty = FALSE
  /\ pc = "idle" /\ task = "none" /\ chunks = <<>>
  /\ client = CHOOSE c \in Clients : TRUE
  /\ responses = [c \in Clients |-> <<>>] /\ crashes = 0

-----------------------------------------------------------------------------
Waiting == link[held + 1]
CanTake(kind) == pc = "idle" /\ held < Len(link) /\ Waiting.kind = kind
AckNow == link' = RemoveAt(link, held + 1)

\* is_complete, and _maybe_finalize's early returns
Finalizes(r) == ~r.finalized /\ r.expected # Unknown /\ r.received >= r.expected

\* get_responses: chunks in the order of the rows, the last one marked; one chunk
\* with the header alone when there are no rows.
Chunks(r) ==
  IF r.rows = <<>> THEN <<[row |-> "header", last |-> TRUE]>>
  ELSE [i \in DOMAIN r.rows |-> [row |-> r.rows[i], last |-> i = Len(r.rows)]]

\* handle_data: an aborted client's message or a duplicate.
IgnoreData ==
  /\ CanTake("data")
  /\ mem.of[Waiting.client].aborted \/ Waiting.id \in mem.seen
  /\ AckNow
  /\ UNCHANGED <<held, mem, ckpt, dirty, thread, responses, crashes>>

\* A plausible mistake: the dedup table is not consulted.
ApplyDataTwice ==
  /\ CanTake("data")
  /\ LET m == Waiting
         r == [mem.of[m.client] EXCEPT !.rows = Append(@, m.row), !.received = @ + 1]
     IN  /\ ~r.aborted
         /\ mem' = [mem EXCEPT !.of[m.client] = r, !.seen = @ \cup {m.id}]
         /\ client' = m.client
         /\ pc' = IF Finalizes(r) THEN "respond"
                  ELSE IF held + 1 >= CheckpointEvery THEN "save" ELSE "idle"
         /\ chunks' = IF Finalizes(r) THEN Chunks(r) ELSE <<>>
  /\ held' = held + 1 /\ dirty' = TRUE /\ task' = "data"
  /\ UNCHANGED <<link, ckpt, responses, crashes>>

\* _on_data inside handle_data: join, inc_received, _maybe_finalize.
ApplyData ==
  /\ CanTake("data")
  /\ LET m == Waiting
         r == [mem.of[m.client] EXCEPT !.rows = Append(@, m.row), !.received = @ + 1]
     IN  /\ ~r.aborted /\ m.id \notin mem.seen
         /\ mem' = [mem EXCEPT !.of[m.client] = r, !.seen = @ \cup {m.id}]
         /\ client' = m.client
         /\ pc' = IF Finalizes(r) THEN "respond"
                  ELSE IF held + 1 >= CheckpointEvery THEN "save" ELSE "idle"
         /\ chunks' = IF Finalizes(r) THEN Chunks(r) ELSE <<>>
  /\ held' = held + 1 /\ dirty' = TRUE /\ task' = "data"
  /\ UNCHANGED <<link, ckpt, responses, crashes>>

\* _checkpoint_and_flush: forced, or because something was applied.
Save ==
  /\ pc = "save"
  /\ ckpt' = IF dirty \/ task \in {"eof", "abort", "start"} THEN mem ELSE ckpt
  /\ dirty' = FALSE /\ pc' = "ack"
  /\ UNCHANGED <<link, held, mem, task, client, chunks, responses, crashes>>

Ack ==
  /\ pc = "ack"
  /\ link' = SubSeq(link, held + 1, Len(link)) /\ held' = 0
  /\ pc' = CASE task = "flush" -> "handle" [] task = "eof" -> "free"
             [] task = "abort" -> "done"   [] OTHER -> "idle"
  /\ UNCHANGED <<mem, ckpt, dirty, task, client, chunks, responses, crashes>>

\* dispatch flushes before an EOF is handled.
TakeEOF ==
  /\ CanTake("eof")
  /\ pc' = "save" /\ task' = "flush" /\ client' = Waiting.client
  /\ UNCHANGED <<link, held, mem, ckpt, dirty, chunks, responses, crashes>>

\* A plausible mistake: any EOF closes the client.
HandleEOFAtOnce ==
  /\ pc = "handle"
  /\ LET r == [mem.of[client] EXCEPT !.expected = link[1].count] IN
     /\ mem' = [mem EXCEPT !.of[client] = r]
     /\ pc' = IF ~r.finalized THEN "respond" ELSE "done"
     /\ chunks' = IF ~r.finalized THEN Chunks(r) ELSE <<>>
  /\ task' = "eof"
  /\ UNCHANGED <<link, held, ckpt, dirty, client, responses, crashes>>

\* _on_eof: set_expected, which nothing saves when the client is not complete.
HandleEOF ==
  /\ pc = "handle"
  /\ LET r == [mem.of[client] EXCEPT !.expected = link[1].count] IN
     /\ mem' = [mem EXCEPT !.of[client] = r]
     /\ pc' = IF Finalizes(r) THEN "respond" ELSE "done"
     /\ chunks' = IF Finalizes(r) THEN Chunks(r) ELSE <<>>
  /\ task' = "eof"
  /\ UNCHANGED <<link, held, ckpt, dirty, client, responses, crashes>>

\* One chunk goes to the client's response queue.
SendChunk ==
  /\ pc = "respond" /\ chunks # <<>>
  /\ responses' = [responses EXCEPT ![client] = Append(@, Head(chunks))]
  /\ chunks' = Tail(chunks)
  /\ UNCHANGED <<link, held, mem, ckpt, dirty, pc, task, client, crashes>>

\* mark_finalized and the flush that follows: from _on_data it waits for the
\* checkpointer's lock, which handle_data holds.
Finalize ==
  /\ pc = "respond" /\ chunks = <<>>
  /\ mem' = [mem EXCEPT !.of[client].finalized = TRUE,
                        !.of[client].expected = Unknown, !.of[client].received = 0]
  /\ pc' = IF task = "data" THEN "stuck" ELSE "save"
  /\ UNCHANGED <<link, held, ckpt, dirty, task, client, chunks, responses, crashes>>

\* discard of the finalized client, or at start-up of all of them.
Free ==
  /\ pc = "free"
  /\ mem' = [mem EXCEPT !.of = [c \in Clients |->
       IF @[c].finalized /\ (task = "start" \/ c = client) THEN [@[c] EXCEPT !.rows = <<>>] ELSE @[c]]]
  /\ pc' = IF task = "start" THEN "save" ELSE "done"
  /\ UNCHANGED <<link, held, ckpt, dirty, task, client, chunks, responses, crashes>>

\* The EOF or the Abort that was handled is acked.
Done ==
  /\ pc = "done"
  /\ link' = Tail(link)
  /\ pc' = "idle" /\ task' = "none"
  /\ UNCHANGED <<held, mem, ckpt, dirty, client, chunks, responses, crashes>>

\* A plausible mistake: the counts of an aborted client are kept.
DroppedKeepingCounts(r) == [r EXCEPT !.rows = <<>>, !.finalized = FALSE, !.aborted = TRUE]

\* discard, counts.drop and mark_aborted
Dropped(r) == [FreshClient EXCEPT !.aborted = TRUE]

\* _on_abort up to its flush.
HandleAbort ==
  /\ CanTake("abort")
  /\ mem' = [mem EXCEPT !.of[Waiting.client] = Dropped(@)]
  /\ dirty' = TRUE
  /\ pc' = "save" /\ task' = "abort" /\ client' = Waiting.client
  /\ UNCHANGED <<link, held, ckpt, chunks, responses, crashes>>

\* The rows a new process finds of a client: a file is gone once it was discarded, is cut back to
\* what the checkpoint records of it, and keeps what was written out if the checkpoint has none.
OnDisk(c) ==
  LET now == mem.of[c].rows
      saved == ckpt.of[c].rows
  IN  IF now = <<>> THEN {<<>>} ELSE IF saved # <<>> THEN {saved}
      ELSE {SubSeq(now, 1, n) : n \in 0 .. Len(now)}
Restored ==
  IF ~Spilled THEN {ckpt}
  ELSE {[ckpt EXCEPT !.of = [c \in Clients |-> [@[c] EXCEPT !.rows = found[c]]]] :
          found \in {f \in [Clients -> UNION {OnDisk(c) : c \in Clients}] :
                       \A c \in Clients : f[c] \in OnDisk(c)}}

\* The process dies; in the ack loop some acks may be out.
Crash ==
  /\ pc # "down" /\ crashes < MaxCrashes
  /\ crashes' = crashes + 1
  /\ \E k \in 0 .. held :
       /\ pc = "ack" \/ k = 0
       /\ link' = SubSeq(link, k + 1, Len(link))
  /\ held' = 0 /\ mem' \in Restored /\ dirty' = FALSE
  /\ pc' = "down" /\ task' = "start" /\ chunks' = <<>>
  /\ UNCHANGED <<ckpt, client, responses>>

\* start on a restored checkpoint.
Restart ==
  /\ pc = "down"
  /\ pc' = "free"
  /\ UNCHANGED <<link, held, mem, ckpt, dirty, task, client, chunks, responses, crashes>>

Step ==
  \/ IgnoreData \/ ApplyData \/ TakeEOF \/ HandleAbort \/ Save \/ Ack
  \/ HandleEOF \/ SendChunk \/ Finalize \/ Free \/ Done \/ Restart
=============================================================================
