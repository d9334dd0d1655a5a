---------------------------- MODULE DedupProofs ----------------------------
(* The deduplicator is exact, for every set of numbers and every window. *)
EXTENDS Dedup, TLAPS

(* Before the first message the table, its checkpoint and the held acks agree. *)
LEMMA InitOK == Init => IInv
<1> SUFFICES ASSUME Init PROVE IInv
  OBVIOUS
<1>1. Represents(0, {}, {})
  BY DEF Represents
<1>2. TypeOK
  BY DEF Init, TypeOK
<1> QED
  BY <1>1, <1>2 DEF Init, IInv, AckedIsSaved

(* A dropped duplicate is acked at once; the copy whose ack is held stays queued. *)
LEMMA SkipOK ==
  ASSUME IInv, NEW s \in Seqs, Skip(s)
  PROVE  IInv'
<1>1. queue[s] \in Nat /\ queue[s] >= 1 /\ (s \in held => queue[s] >= 2)
  BY DEF Skip, Deliverable, Queued, IInv, TypeOK
<1>2. s \in applied
  BY DedupAssumption DEF Skip, IsDuplicate, IInv, TypeOK, Represents
<1>3. queue' = [queue EXCEPT ![s] = queue[s] - 1] /\ queue[s] - 1 \in Nat
      /\ UNCHANGED <<hi, ahead, applied, held, saved, busy, resends, crashes>>
  BY <1>1 DEF Skip, bounds
<1>4. TypeOK'
  BY <1>3 DEF IInv, TypeOK
<1>5. \A q \in held : queue'[q] >= 1
  BY <1>1, <1>3 DEF IInv, TypeOK
<1>6. AckedIsSaved'
  BY <1>1, <1>2, <1>3 DEF IInv, TypeOK, AckedIsSaved
<1> QED
  BY <1>3, <1>4, <1>5, <1>6 DEF IInv

(* record enters the number that handle_data has just applied, and no other. *)
LEMMA RecordOK ==
  ASSUME IInv, NEW s \in Seqs, Record(s)
  PROVE  IInv'
<1>1. queue[s] \in Nat /\ queue[s] >= 1
  BY DEF Record, Deliverable, Queued, IInv, TypeOK
<1>2. s \in Nat /\ s > hi /\ hi \in Nat
  BY DedupAssumption DEF Record, IsDuplicate, IInv, TypeOK
<1>3. TypeOK'
  BY DEF Record, bounds, IInv, TypeOK
<1>4. Represents(hi, ahead, applied)'
  BY <1>2 DEF Record, IInv, Represents
<1> QED
  BY <1>1, <1>3, <1>4 DEF Record, bounds, IInv, AckedIsSaved

(* A turn of the loop moves hi + 1 from ahead to the contiguous part. *)
LEMMA CloseGapOK ==
  ASSUME IInv, CloseGap
  PROVE  IInv'
<1>1. /\ hi \in Nat /\ hi + 1 \in ahead /\ hi' = hi + 1 /\ ahead' = ahead \ {hi + 1}
      /\ UNCHANGED <<queue, applied, held, saved, busy, resends, crashes>>
  BY DEF CloseGap, bounds, IInv, TypeOK
<1>2. 1 .. (hi + 1) = (1 .. hi) \cup {hi + 1}
  BY <1>1
<1>3. \A s \in ahead : s \in Nat
  BY DedupAssumption DEF IInv, TypeOK
<1>4. Represents(hi, ahead, applied)'
  BY <1>1, <1>2, <1>3 DEF IInv, Represents
<1>5. TypeOK'
  BY <1>1 DEF IInv, TypeOK
<1> QED
  BY <1>1, <1>4, <1>5 DEF IInv, AckedIsSaved

(* A checkpoint saves table and business state together, then acks. *)
LEMMA CheckpointOK ==
  ASSUME IInv, Checkpoint
  PROVE  IInv'
<1>1. /\ saved' = [hi |-> hi, ahead |-> ahead, applied |-> applied]
      /\ held' = {} /\ UNCHANGED <<hi, ahead, applied, busy, resends, crashes>>
      /\ queue' = [s \in Seqs |-> IF s \in held THEN queue[s] - 1 ELSE queue[s]]
  BY DEF Checkpoint, bounds
<1>2. \A s \in Seqs : queue[s] \in Nat /\ (s \in held => queue[s] >= 1)
  BY DEF IInv, TypeOK
<1>3. queue' \in [Seqs -> Nat]
  BY <1>1, <1>2
<1>4. TypeOK'
  BY <1>1, <1>3 DEF IInv, TypeOK
<1>5. AckedIsSaved'
  BY <1>1, <1>2 DEF IInv, TypeOK, AckedIsSaved
<1> QED
  BY <1>1, <1>4, <1>5 DEF IInv

(* restore brings back a table that agrees with the restored business state. *)
LEMMA CrashOK ==
  ASSUME IInv, Crash
  PROVE  IInv'
<1>1. /\ hi' = saved.hi /\ ahead' = saved.ahead /\ applied' = saved.applied
      /\ held' = {} /\ busy' = FALSE /\ UNCHANGED <<queue, saved, resends>>
      /\ crashes' = crashes + 1
  BY DEF Crash
<1>2. TypeOK'
  <2>1. hi' \in Nat /\ ahead' \subseteq Seqs /\ applied' \subseteq Seqs
    BY <1>1 DEF IInv, TypeOK
  <2>2. held' \subseteq applied' /\ busy' \in BOOLEAN
    BY <1>1
  <2>3. queue' \in [Seqs -> Nat] /\ resends' \in Nat /\ crashes' \in Nat
    BY <1>1 DEF IInv, TypeOK
  <2>4. saved' \in [hi : Nat, ahead : SUBSET Seqs, applied : SUBSET Seqs]
    BY <1>1 DEF IInv, TypeOK
  <2> QED
    BY <2>1, <2>2, <2>3, <2>4 DEF TypeOK
<1> QED
  BY <1>1, <1>2 DEF IInv, AckedIsSaved

(* A copy that is sent again changes only the queue. *)
LEMMA ResendOK ==
  ASSUME IInv, NEW s \in Seqs, Resend(s)
  PROVE  IInv'
<1>1. /\ queue' = [queue EXCEPT ![s] = queue[s] + 1] /\ queue[s] \in Nat
      /\ UNCHANGED <<hi, ahead, applied, held, saved, busy, crashes>>
      /\ resends' = resends + 1
  BY DEF Resend, IInv, TypeOK
<1>2. TypeOK'
  BY <1>1 DEF IInv, TypeOK
<1>3. \A q \in held : queue'[q] >= 1
  BY <1>1 DEF IInv, TypeOK
<1>4. AckedIsSaved'
  BY <1>1 DEF IInv, TypeOK, AckedIsSaved
<1> QED
  BY <1>1, <1>2, <1>3, <1>4 DEF IInv

(* The invariant is inductive. *)
LEMMA NextOK ==
  ASSUME IInv, [Next]_vars
  PROVE  IInv'
<1>1. CASE Recorded
  BY <1>1 DEF Recorded, bounds, IInv, TypeOK, AckedIsSaved
<1>2. CASE UNCHANGED vars
  BY <1>2 DEF vars, IInv, TypeOK, AckedIsSaved
<1> QED
  BY <1>1, <1>2, SkipOK, RecordOK, CloseGapOK, CheckpointOK, CrashOK, ResendOK DEF Next

(***************************************************************************)
(* is_duplicate answers for exactly the processed numbers, after any       *)
(* sequence of reordered, repeated and lost deliveries and crashes.        *)
(***************************************************************************)
THEOREM DedupIsExact == Spec => []DedupExact
<1>1. IInv => DedupExact
  BY DedupAssumption DEF IInv, TypeOK, Represents, DedupExact, IsDuplicate
<1> QED
  BY InitOK, NextOK, <1>1, PTL DEF Spec

(***************************************************************************)
(* Acking a duplicate never removes the last copy of a message whose       *)
(* effect is not yet in the checkpoint (handle_data).                      *)
(***************************************************************************)
THEOREM DedupKeepsUnsaved == Spec => []AckedIsSaved
<1>1. IInv => AckedIsSaved
  BY DEF IInv
<1> QED
  BY InitOK, NextOK, <1>1, PTL DEF Spec
=============================================================================
