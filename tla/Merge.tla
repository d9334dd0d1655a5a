-------------------------------- MODULE Merge --------------------------------
(***************************************************************************)
(* RingMerge in a ring of one controller: two inputs of several clients,   *)
(* one consume thread, one output counter that stamps what is emitted for  *)
(* every client.  The controller checkpoints its accumulations, both EOF   *)
(* counts, the dedup table and the counter together, holds acks until a    *)
(* checkpoint covers them, and may crash between any two effects.  Its     *)
(* rows are in the checkpoint, or the right ones in a PersistentSpill.     *)
(***************************************************************************)
EXTENDS Integers, Sequences, SequencesExt

CONSTANTS
  Clients,
  Result(_, _),     \* messages merged from the left and the right rows, in order
  Spilled,          \* are the right rows in files (use cases 3 and 4)?
  ReplayInOrder,    \* does a new process list a set as the old one did?
  CheckpointEvery,  \* held acks that force a checkpoint
  MaxCrashes        \* bound: crashes of the controller

Sides == {"left", "right"}
Unknown == -1

NoId == <<"", 0>>

\* Messages of both inputs and of the link; id is the pair of producer and number.
Data(c, id, row) == [kind |-> "data", client |-> c, id |-> id, row |-> row, count |-> 0]
Eof(c, n) == [kind |-> "eof", client |-> c, id |-> NoId, row |-> "", count |-> n]
Abort(c) == [kind |-> "abort", client |-> c, id |-> NoId, row |-> "", count |-> 0]

VARIABLES
  qin,     \* qin[side]: messages of an input queue that were not acked
  held,    \* held[side]: length of its prefix that was applied and not acked
  mem,     \* the process's memory
  ckpt,    \* its last checkpoint
  dirty,   \* was data applied since then?
  pc, task,\* what the thread does next, and for which event
  at,      \* side of the EOF or Abort being handled
  client,  \* client being handled
  todo,    \* merged messages still to send
  link,    \* the downstream queue
  crashes

thread == <<pc, task, at, client, todo>>
vars == <<qin, held, mem, ckpt, dirty, thread, link, crashes>>

NoCounts == [s \in Sides |-> Unknown]
FreshClient ==
  [rows |-> [s \in Sides |-> <<>>], counts |-> NoCounts, expected |-> Unknown,
   received |-> 0, phase |-> "PROCESSING", aborted |-> FALSE]
FreshMemory == [of |-> [c \in Clients |-> FreshClient], seen |-> {}, seq |-> 0]

Init ==
  /\ held = [s \in Sides |-> 0]
  /\ mem = FreshMemory /\ ckpt = FreshMemory /\ dirty = FALSE
  /\ pc = "idle" /\ task = "none" /\ at = "left" /\ todo = <<>>
  /\ client = CHOOSE c \in Clients : TRUE
  /\ link = <<>> /\ crashes = 0

-----------------------------------------------------------------------------
\* The first message of a side that the thread has not taken.
Waiting(s) == qin[s][held[s] + 1]
CanTake(s, kind) ==
  pc = "idle" /\ held[s] < Len(qin[s]) /\ Waiting(s).kind = kind

\* A message is acked at once: it leaves the queue past the held ones.
AckNow(s) == qin' = [qin EXCEPT ![s] = RemoveAt(@, held[s] + 1)]

\* _maybe_local_complete
Complete(r) == r.phase = "PROCESSING" /\ r.expected >= 0 /\ r.received >= r.expected

\* get_result of the client's merge function.
Merged(r) == Result(r.rows["left"], r.rows["right"])

HeldAcks == held["left"] + held["right"]
AfterData(n) == IF n >= CheckpointEvery THEN "save" ELSE "idle"

\* handle_data: an aborted client's message or a duplicate.
IgnoreData(s) ==
  /\ CanTake(s, "data")
  /\ mem.of[Waiting(s).client].aborted \/ Waiting(s).id \in mem.seen
  /\ AckNow(s)
  /\ UNCHANGED <<held, mem, ckpt, dirty, thread, link, crashes>>

\* _on_left_data and _on_right_data inside handle_data; the last message may
\* complete the client.
ApplyData(s) ==
  /\ CanTake(s, "data")
  /\ LET m == Waiting(s)
         r == [mem.of[m.client] EXCEPT !.rows[s] = Append(@, m.row), !.received = @ + 1]
     IN  /\ ~r.aborted /\ m.id \notin mem.seen
         /\ mem' = [mem EXCEPT !.of[m.client] = r, !.seen = @ \cup {m.id}]
         /\ client' = m.client
         /\ todo' = IF Complete(r) THEN Merged(r) ELSE <<>>
         /\ pc' = IF Complete(r) THEN "emit" ELSE AfterData(HeldAcks + 1)
  /\ held' = [held EXCEPT ![s] = @ + 1]
  /\ dirty' = TRUE /\ task' = "data"
  /\ UNCHANGED <<qin, ckpt, at, link, crashes>>

\* _checkpoint_and_flush: forced, or because data was applied.
Save ==
  /\ pc = "save"
  /\ ckpt' = IF dirty \/ task \in {"eof", "abort", "start"} THEN mem ELSE ckpt
  /\ dirty' = FALSE /\ pc' = "ack"
  /\ UNCHANGED <<qin, held, mem, task, at, client, todo, link, crashes>>

\* The first k[s] held acks of each side reach the broker.
AckHeld(k) == qin' = [s \in Sides |-> SubSeq(qin[s], k[s] + 1, Len(qin[s]))]

Ack ==
  /\ pc = "ack"
  /\ AckHeld(held) /\ held' = [s \in Sides |-> 0]
  /\ pc' = CASE task = "flush" -> "handle" [] task = "eof" -> "free"
             [] task = "abort" -> "abort"  [] OTHER -> "idle"
  /\ UNCHANGED <<mem, ckpt, dirty, task, at, client, todo, link, crashes>>

\* dispatch flushes before an EOF is handled.
TakeEOF(s) ==
  /\ CanTake(s, "eof")
  /\ pc' = "save" /\ task' = "flush" /\ at' = s /\ client' = Waiting(s).client
  /\ UNCHANGED <<qin, held, mem, ckpt, dirty, todo, link, crashes>>

\* A plausible mistake: an EOF forgets the count of the other side.
WithCountAlone(r, s, n) ==
  LET counts == [NoCounts EXCEPT ![s] = n] IN
  [r EXCEPT !.counts = counts,
            !.expected = IF r.aborted \/ \E t \in Sides : counts[t] = Unknown
                         THEN @ ELSE counts["left"] + counts["right"]]

\* The side's count is known; the client's expected count is their sum.
WithCount(r, s, n) ==
  LET counts == [r.counts EXCEPT ![s] = n] IN
  [r EXCEPT !.counts = counts,
            !.expected = IF r.aborted \/ \E t \in Sides : counts[t] = Unknown
                         THEN @ ELSE counts["left"] + counts["right"]]

\* A plausible mistake: nothing is saved before the emission.
HandleEOFUnfrozen ==
  /\ pc = "handle"
  /\ LET r == WithCount(mem.of[client], at, qin[at][1].count) IN
     /\ mem' = [mem EXCEPT !.of[client] = r]
     /\ todo' = IF Complete(r) THEN Merged(r) ELSE <<>>
     /\ pc' = IF Complete(r) THEN "emit" ELSE "done"
     /\ ckpt' = IF Complete(r) THEN ckpt ELSE mem'
  /\ task' = "eof"
  /\ UNCHANGED <<qin, held, dirty, at, client, link, crashes>>

\* _on_left_eof, _on_right_eof and _maybe_complete, with the forced flush that
\* freezes the state before an emission or ends a handler that emits nothing.
HandleEOF ==
  /\ pc = "handle"
  /\ LET r == WithCount(mem.of[client], at, qin[at][1].count) IN
     /\ mem' = [mem EXCEPT !.of[client] = r]
     /\ todo' = IF Complete(r) THEN Merged(r) ELSE <<>>
     /\ pc' = IF Complete(r) THEN "emit" ELSE "done"
  /\ ckpt' = mem' /\ dirty' = FALSE
  /\ task' = "eof"
  /\ UNCHANGED <<qin, held, at, client, link, crashes>>

\* _emit: StampingMOM.send gives the next number of the shared counter.
SendMerged ==
  /\ pc = "emit" /\ todo # <<>>
  /\ mem' = [mem EXCEPT !.seq = @ + 1]
  /\ link' = Append(link, Data(client, <<"merge", mem'.seq>>, Head(todo)))
  /\ todo' = Tail(todo)
  /\ UNCHANGED <<qin, held, ckpt, dirty, pc, task, at, client, crashes>>

\* A plausible mistake: the EOF is sent before the last message that it counts.
AnnounceBeforeLast ==
  /\ pc = "emit" /\ Len(todo) <= 1
  /\ mem' = [mem EXCEPT !.of[client].phase = "DONE", !.seq = @ + Len(todo)]
  /\ link' = Append(link, Eof(client, Len(Merged(mem.of[client]))))
              \o [i \in DOMAIN todo |-> Data(client, <<"merge", mem'.seq>>, todo[i])]
  /\ todo' = <<>>
  /\ pc' = CASE task = "data" -> AfterData(HeldAcks) [] task = "start" -> "recheck"
             [] OTHER -> "save"
  /\ UNCHANGED <<qin, held, ckpt, dirty, task, at, client, crashes>>

\* report_sent: the only peer closes the barrier and announces what it sent.
Announce ==
  /\ pc = "emit" /\ todo = <<>>
  /\ mem' = [mem EXCEPT !.of[client].phase = "DONE"]
  /\ link' = Append(link, Eof(client, Len(Merged(mem.of[client]))))
  /\ pc' = CASE task = "data" -> AfterData(HeldAcks) [] task = "start" -> "recheck"
             [] OTHER -> "save"
  /\ UNCHANGED <<qin, held, ckpt, dirty, task, at, client, todo, crashes>>

\* discard and counts.drop
Freed(r) == [r EXCEPT !.rows = FreshClient.rows, !.counts = NoCounts]

\* _free: of the emitted client, or at start-up of every resolved one.
Free ==
  /\ pc = "free"
  /\ mem' = [mem EXCEPT !.of = [c \in Clients |->
       IF @[c].phase = "DONE" /\ (task = "start" \/ c = client) THEN Freed(@[c]) ELSE @[c]]]
  /\ pc' = IF task = "start" THEN "save" ELSE "done"
  /\ UNCHANGED <<qin, held, ckpt, dirty, task, at, client, todo, link, crashes>>

\* The EOF or the Abort that was handled is acked.
Done ==
  /\ pc = "done"
  /\ qin' = [qin EXCEPT ![at] = Tail(@)]
  /\ pc' = "idle" /\ task' = "none"
  /\ UNCHANGED <<held, mem, ckpt, dirty, at, client, todo, link, crashes>>

\* _on_abort up to its flush; then the Abort goes downstream.
HandleAbort(s) ==
  /\ CanTake(s, "abort")
  /\ client' = Waiting(s).client
  /\ mem' = [mem EXCEPT !.of[Waiting(s).client] = [FreshClient EXCEPT !.aborted = TRUE]]
  /\ dirty' = TRUE
  /\ pc' = "save" /\ task' = "abort" /\ at' = s
  /\ UNCHANGED <<qin, held, ckpt, todo, link, crashes>>

SendAbort ==
  /\ pc = "abort"
  /\ link' = Append(link, Abort(client))
  /\ pc' = "done"
  /\ UNCHANGED <<qin, held, mem, ckpt, dirty, task, at, client, todo, crashes>>

\* The right rows a new process finds of a client.  A file is deleted when it is freed, saved or
\* not; one that the checkpoint records is cut back to its length there; one that came later
\* keeps what was written out of it.
OnDisk(c) ==
  LET now == mem.of[c].rows["right"]
      saved == ckpt.of[c].rows["right"]
  IN  IF now = <<>> THEN {<<>>} ELSE IF saved # <<>> THEN {saved}
      ELSE {SubSeq(now, 1, n) : n \in 0 .. Len(now)}
Restored ==
  IF ~Spilled THEN {ckpt}
  ELSE {[ckpt EXCEPT !.of = [c \in Clients |-> [@[c] EXCEPT !.rows["right"] = found[c]]]] :
          found \in {f \in [Clients -> UNION {OnDisk(c) : c \in Clients}] :
                       \A c \in Clients : f[c] \in OnDisk(c)}}

\* The process dies; in the ack loop some acks may be out.
Crash ==
  /\ pc # "down" /\ crashes < MaxCrashes
  /\ crashes' = crashes + 1
  /\ \E k \in [Sides -> 0 .. HeldAcks] :
       /\ \A s \in Sides : k[s] <= held[s]
       /\ pc = "ack" \/ \A s \in Sides : k[s] = 0
       /\ AckHeld(k)
  /\ held' = [s \in Sides |-> 0]
  /\ mem' \in Restored /\ dirty' = FALSE
  /\ pc' = "down" /\ task' = "start" /\ todo' = <<>>
  /\ UNCHANGED <<ckpt, at, client, link>>

\* The messages of a result once more; the tiles of uc4_prune are cut from list(set), in the order
\* that the hash seed of the new process gives.
Replays(messages) ==
  IF ReplayInOrder THEN {messages}
  ELSE {t \in [DOMAIN messages -> ToSet(messages)] : ToSet(t) = ToSet(messages)}

\* start: a restored controller emits again what was frozen and not finished.
Recheck ==
  /\ pc \in {"down", "recheck"}
  /\ \/ \E c \in Clients :
          /\ Complete(mem.of[c])
          /\ client' = c /\ todo' \in Replays(Merged(mem.of[c])) /\ pc' = "emit"
     \/ /\ \A c \in Clients : ~Complete(mem.of[c])
        /\ pc' = "free" /\ UNCHANGED <<client, todo>>
  /\ UNCHANGED <<qin, held, mem, ckpt, dirty, task, at, link, crashes>>

Step ==
  \/ \E s \in Sides : IgnoreData(s) \/ ApplyData(s) \/ TakeEOF(s) \/ HandleAbort(s)
  \/ Save \/ Ack \/ HandleEOF \/ SendMerged \/ Announce \/ Free \/ Done \/ SendAbort \/ Recheck
=============================================================================
