-------------------------------- MODULE Dedup --------------------------------
(***************************************************************************)
(* Deduplicator: the table by which a controller recognises, for one       *)
(* producer, the sequence numbers it has already processed.  It keeps the  *)
(* highest contiguous number hi and the set ahead of numbers beyond a gap. *)
(* The table lives in memory, is saved with the business state, and is     *)
(* restored after a crash, when unacked messages come again.               *)
(***************************************************************************)
EXTENDS Integers, FiniteSets

CONSTANTS
  Seqs,        \* numbers the producer stamps on messages routed to this consumer
  Window,      \* held acks that force a checkpoint (CHECKPOINT_EVERY)
  InOrder,     \* does the broker deliver the lowest queued number first?
  MaxResends,  \* bound: messages a revived producer sends again
  MaxCrashes   \* bound: crashes of the consumer

ASSUME DedupAssumption ==
  /\ Seqs \subseteq Nat \ {0} /\ IsFiniteSet(Seqs)
  /\ Window \in Nat \ {0} /\ InOrder \in BOOLEAN
  /\ MaxResends \in Nat /\ MaxCrashes \in Nat

VARIABLES
  queue,    \* queue[s]: unacked copies of message s at the broker
  hi,       \* _hi: every number up to hi was processed
  ahead,    \* _ahead: numbers processed beyond a gap
  applied,  \* numbers whose effect is in the business state
  held,     \* numbers applied whose acks are held
  saved,    \* checkpoint: hi, ahead and applied together
  busy,     \* is record's loop running?
  resends, crashes

vars == <<queue, hi, ahead, applied, held, saved, busy, resends, crashes>>
bounds == <<resends, crashes>>

Init ==
  /\ queue = [s \in Seqs |-> 1]
  /\ hi = 0 /\ ahead = {} /\ applied = {} /\ held = {}
  /\ saved = [hi |-> 0, ahead |-> {}, applied |-> {}]
  /\ busy = FALSE
  /\ resends = 0 /\ crashes = 0

\* Mutant of IsDuplicate: every number below the highest one is a duplicate.
IsBelowHighest(s) == \E q \in applied : s <= q

\* is_duplicate
IsDuplicate(s) == s <= hi \/ s \in ahead

\* A copy of s is queued that is not the one whose ack is held.
Queued(s) == queue[s] > (IF s \in held THEN 1 ELSE 0)

\* What the broker may deliver next: held acks never exceed the window.
Deliverable(s) ==
  /\ ~busy /\ Queued(s) /\ Cardinality(held) < Window
  /\ InOrder => \A q \in Seqs : Queued(q) => s <= q

\* A duplicate is acked and not applied.
Skip(s) ==
  /\ Deliverable(s) /\ IsDuplicate(s)
  /\ queue' = [queue EXCEPT ![s] = @ - 1]
  /\ UNCHANGED <<hi, ahead, applied, held, saved, busy, bounds>>

\* A new message is applied and recorded; record then closes gaps.
Record(s) ==
  /\ Deliverable(s) /\ ~IsDuplicate(s)
  /\ applied' = applied \cup {s}
  /\ held' = held \cup {s}
  /\ ahead' = ahead \cup {s}
  /\ busy' = TRUE
  /\ UNCHANGED <<queue, hi, saved, bounds>>

\* Mutant of CloseGap: hi advances past a number that was not seen.
CloseGapTwice ==
  /\ busy /\ hi + 1 \in ahead
  /\ hi' = hi + 2
  /\ ahead' = ahead \ {hi + 1}
  /\ UNCHANGED <<queue, applied, held, saved, busy, bounds>>

\* One turn of the loop: hi advances while its successor was seen.
CloseGap ==
  /\ busy /\ hi + 1 \in ahead
  /\ hi' = hi + 1
  /\ ahead' = ahead \ {hi + 1}
  /\ UNCHANGED <<queue, applied, held, saved, busy, bounds>>

Recorded ==
  /\ busy /\ hi + 1 \notin ahead
  /\ busy' = FALSE
  /\ UNCHANGED <<queue, hi, ahead, applied, held, saved, bounds>>

\* Mutant of Checkpoint: the held acks go out and nothing is saved.
CheckpointUnsaved ==
  /\ ~busy
  /\ queue' = [s \in Seqs |-> IF s \in held THEN queue[s] - 1 ELSE queue[s]]
  /\ held' = {}
  /\ UNCHANGED <<hi, ahead, applied, saved, busy, bounds>>

\* snapshot, saved with the business state; then the held acks go out.
Checkpoint ==
  /\ ~busy
  /\ saved' = [hi |-> hi, ahead |-> ahead, applied |-> applied]
  /\ queue' = [s \in Seqs |-> IF s \in held THEN queue[s] - 1 ELSE queue[s]]
  /\ held' = {}
  /\ UNCHANGED <<hi, ahead, applied, busy, bounds>>

\* A crash and restore: memory is what the checkpoint held.
Crash ==
  /\ crashes < MaxCrashes
  /\ crashes' = crashes + 1
  /\ hi' = saved.hi /\ ahead' = saved.ahead /\ applied' = saved.applied
  /\ held' = {} /\ busy' = FALSE
  /\ UNCHANGED <<queue, saved, resends>>

\* The producer crashed after sending s and sends it again.
Resend(s) ==
  /\ resends < MaxResends
  /\ resends' = resends + 1
  /\ queue' = [queue EXCEPT ![s] = @ + 1]
  /\ UNCHANGED <<hi, ahead, applied, held, saved, busy, crashes>>

Next ==
  \/ \E s \in Seqs : Skip(s) \/ Record(s) \/ Resend(s)
  \/ CloseGap \/ Recorded \/ Checkpoint \/ Crash

Spec == Init /\ [][Next]_vars

\* The consume thread runs, the EOF at the end of the stream forces the last
\* checkpoint, and the broker serves every queued message.
Fairness ==
  /\ WF_vars(CloseGap \/ Recorded \/ Checkpoint)
  /\ \A s \in Seqs : SF_vars(Record(s)) /\ SF_vars(Skip(s))

FairSpec == Spec /\ Fairness

-----------------------------------------------------------------------------
\* Types of the table, its checkpoint and the broker's queue (deduplicator.py).
TypeOK ==
  /\ queue \in [Seqs -> Nat]
  /\ hi \in Nat /\ ahead \subseteq Seqs /\ applied \subseteq Seqs /\ held \subseteq applied
  /\ saved \in [hi : Nat, ahead : SUBSET Seqs, applied : SUBSET Seqs]
  /\ busy \in BOOLEAN
  /\ resends \in Nat /\ crashes \in Nat

\* A message is dropped as a duplicate if and only if its effect is in the
\* business state: a number below a processed one that was itself never
\* processed is still applied (is_duplicate), in whatever order redelivered
\* messages come and wherever a crash cuts record's loop.
DedupExact == \A s \in Seqs : IsDuplicate(s) <=> s \in applied

\* A message that left the broker is in the checkpoint: dropping a duplicate
\* of a message that is applied but not yet saved does not lose it.
AckedIsSaved == \A s \in Seqs : queue[s] = 0 => s \in saved.applied

\* Every number is applied in the end.
AllApplied == <>(applied = Seqs)

\* The numbers kept beyond a gap are no more than the unacked messages.
AheadWithinWindow == Cardinality(ahead) <= Window

-----------------------------------------------------------------------------
(* Inductive strengthening of DedupExact and AckedIsSaved *)

\* hi and ahead represent exactly the numbers in A.
Represents(h, D, A) ==
  /\ A = (1 .. h) \cup D
  /\ \A s \in D : s > h

IInv ==
  /\ TypeOK
  /\ Represents(hi, ahead, applied)
  /\ Represents(saved.hi, saved.ahead, saved.applied)
  /\ applied \subseteq saved.applied \cup held /\ saved.applied \subseteq applied
  /\ \A s \in held : queue[s] >= 1
  /\ AckedIsSaved
=============================================================================
