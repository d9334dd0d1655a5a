-------------------------- MODULE RingStageProofs --------------------------
(***************************************************************************)
(* Proofs about RingStage, for every kind of controller, ring size, input  *)
(* and output, and any number of crashes, resends and aborts: types, what  *)
(* acks and tombstones promise across a crash, and that a barrier saved as *)
(* DONE was forwarded.                                                     *)
(***************************************************************************)
EXTENDS RingStage, FiniteSetTheorems, TLAPS

(* The leader is a peer and so is the next controller of the ring. *)
LEMMA RingFacts ==
  /\ Leader \in Peers
  /\ \A n \in Peers : Front(n) \in Peers
BY RingAssumption DEF Leader, Peers, Front

(* The per-shard counts of the outputs of any part of a node's input. *)
LEMMA CountsType ==
  ASSUME NEW n \in Peers, NEW A \in SUBSET Input[n]
  PROVE  CountByShard(Out(n, A)) \in Counts
<1>1. IsFiniteSet(Out(n, A))
  BY OutputAssumption
<1>2. \A s \in Shards : Cardinality({o \in Out(n, A) : o.shard = s}) \in Nat
  BY <1>1, FS_Subset, FS_CardinalityType
<1> QED
  BY <1>2 DEF CountByShard, Counts

(* The entry of a client that was not seen yet is well typed. *)
LEMMA FreshType == \A n \in Peers : FreshState \in States(n)
BY DEF FreshState, States, NoCounts, Counts, Phases

(* So is a token that the leader starts. *)
LEMMA NewTokenType == NewToken \in Tokens
BY DEF NewToken, Tokens

(* Appending to a queue and taking its head, as the ring queues do. *)
LEMMA QueueFacts ==
  ASSUME NEW S, NEW q \in Seq(S), NEW e \in S
  PROVE  /\ Append(q, e) \in Seq(S)
         /\ Append(q, e) # <<>>
         /\ Len(Append(q, e)) = Len(q) + 1
         /\ \A i \in 1 .. Len(q) : Append(q, e)[i] = q[i]
         /\ Append(q, e)[Len(q) + 1] = e
         /\ q # <<>> => /\ Head(q) \in S /\ Head(q) = q[1]
                        /\ Tail(q) \in Seq(S)
                        /\ 1 \in 1 .. Len(q)
                        /\ Len(Tail(q)) = Len(q) - 1
                        /\ \A i \in 1 .. Len(Tail(q)) : Tail(q)[i] = q[i+1]
<1>1. Append(q, e) \in Seq(S) /\ Len(Append(q, e)) = Len(q) + 1
  OBVIOUS
<1>2. Append(q, e) # <<>>
  <2> SUFFICES ASSUME Append(q, e) = <<>> PROVE FALSE
    OBVIOUS
  <2>1. Len(Append(q, e)) = 0
    OBVIOUS
  <2>2. Len(q) \in Nat
    OBVIOUS
  <2> QED
    BY <1>1, <2>1, <2>2
<1>3. /\ \A i \in 1 .. Len(q) : Append(q, e)[i] = q[i]
      /\ Append(q, e)[Len(q) + 1] = e
  OBVIOUS
<1>4. q # <<>> => /\ Head(q) \in S /\ Head(q) = q[1]
                  /\ Tail(q) \in Seq(S)
                  /\ 1 \in 1 .. Len(q)
                  /\ Len(Tail(q)) = Len(q) - 1
                  /\ \A i \in 1 .. Len(Tail(q)) : Tail(q)[i] = q[i+1]
  OBVIOUS
<1> QED
  BY <1>1, <1>2, <1>3, <1>4

(* _advance keeps the types of the queues and records it touches. *)
LEMMA AdvanceType ==
  ASSUME TInv, NEW n \in Peers, NEW t \in Tokens, NEW r \in States(n), Advance(n, t, r)
  PROVE  /\ ring' \in [Peers -> Seq(Tokens)]
         /\ \A p \in Peers : ring[p] # <<>> => ring'[p] # <<>>
         /\ DOMAIN mem' = Peers
         /\ \A p \in Peers : mem'[p] \in States(p)
         /\ tell' \in [Peers -> SUBSET Shards]
         /\ closing' \in [Peers -> Tokens]
<1> USE DEF TInv, TypeOK
<1>1. [r EXCEPT !.phase = "DONE"] \in States(n)
  BY DEF States, Phases
<1>2. CASE ~(Collected(t) /\ n = Leader)
  <2>1. /\ ring' = [ring EXCEPT ![Front(n)] = Append(@, t)]
        /\ mem' = [mem EXCEPT ![n] = r]
        /\ UNCHANGED <<tell, closing>>
    BY <1>2 DEF Advance, Closes
  <2>2. Front(n) \in Peers /\ ring[Front(n)] \in Seq(Tokens)
    BY RingFacts
  <2>3. Append(ring[Front(n)], t) \in Seq(Tokens) /\ Append(ring[Front(n)], t) # <<>>
    <3> HIDE DEF TInv, TypeOK
    <3> QED
      BY <2>2, QueueFacts
  <2> QED
    BY <2>1, <2>2, <2>3
<1>3. CASE Collected(t) /\ n = Leader /\ r.phase = "DONE"
  BY <1>3 DEF Advance, Closes
<1>4. CASE Closes(n, t, r)
  <2>1. /\ ring' = ring
        /\ mem' = [mem EXCEPT ![n] = [r EXCEPT !.phase = "DONE"]]
        /\ tell' = [tell EXCEPT ![n] = Shards]
        /\ closing' = [closing EXCEPT ![n] = t]
    BY <1>4 DEF Advance, Closes
  <2> QED
    BY <2>1, <1>1
<1> QED
  BY <1>2, <1>3, <1>4 DEF Closes

(* Applying a data message keeps the type of the node's record. *)
LEMMA AppliedType ==
  ASSUME NEW n \in Peers, NEW r \in States(n), NEW m \in Input[n]
  PROVE  [r EXCEPT !.received = @ + 1, !.seen = @ \cup {m}, !.acc = @ \cup {m}]
           \in States(n)
<1>1. r.received + 1 \in Nat /\ r.seen \cup {m} \in SUBSET Input[n]
      /\ r.acc \cup {m} \in SUBSET Input[n]
  BY DEF States
<1> QED
  BY <1>1 DEF States

(* on_upstream_eof keeps a record well typed. *)
LEMMA EofType ==
  ASSUME NEW n \in Peers, NEW r \in States(n)
  PROVE  [r EXCEPT !.expected = Cardinality(Input[n])] \in States(n)
<1>1. Cardinality(Input[n]) \in Nat
  BY InputAssumption, FS_CardinalityType
<1> QED
  BY <1>1 DEF States

(* Freeing the accumulation keeps a record well typed. *)
LEMMA FreedType ==
  ASSUME NEW n \in Peers, NEW r \in States(n)
  PROVE  [r EXCEPT !.acc = {}] \in States(n) /\ Dropped(r) \in States(n)
BY DEF States, Dropped, FreshState, NoCounts, Counts, Phases

(* What a thread takes from its queue is there, besides the copy it holds. *)
LEMMA DeliverableFacts ==
  ASSUME TInv, NEW n \in Peers, NEW m \in Input[n], Deliverable(n, m)
  PROVE  /\ m \in Upstream(n) /\ inbox[n] \in [Upstream(n) -> Nat]
         /\ inbox[n][m] \in Nat /\ inbox[n][m] >= 1 /\ inbox[n][m] - 1 \in Nat
         /\ m \in pending[n] => inbox[n][m] - 1 >= 1
<1>1. m \in Upstream(n)
  BY DEF Upstream
<1>2. inbox[n] \in [Upstream(n) -> Nat]
  BY DEF TInv, TypeOK
<1>3. inbox[n][m] \in Nat
  BY <1>1, <1>2
<1> QED
  BY <1>1, <1>2, <1>3 DEF Deliverable

(* Deleting the spill files keeps memory and checkpoint well typed. *)
LEMMA FreeFilesType ==
  ASSUME TInv, NEW n \in Peers, FreeFiles(n)
  PROVE  DOMAIN ckpt' = Peers /\ \A p \in Peers : ckpt'[p] \in States(p)
<1>1. \/ ckpt' = [ckpt EXCEPT ![n] = [ckpt[n] EXCEPT !.acc = {}]]
      \/ ckpt' = ckpt
  BY DEF FreeFiles
<1>2. [ckpt[n] EXCEPT !.acc = {}] \in States(n)
  BY FreedType DEF TInv, TypeOK
<1> QED
  BY <1>1, <1>2 DEF TInv, TypeOK

(* EOFs and aborts in a node's queue are counted by natural numbers. *)
LEMMA ControlCounts ==
  ASSUME TInv, NEW n \in Peers
  PROVE  inbox[n]["eof"] \in Nat /\ inbox[n]["abort"] \in Nat
<1>1. "eof" \in Upstream(n) /\ "abort" \in Upstream(n)
  BY DEF Upstream
<1> QED
  BY <1>1 DEF TInv, TypeOK

(* The initial state is well typed. *)
LEMMA InitTyped == Init => TInv
<1> SUFFICES ASSUME Init PROVE TInv
  OBVIOUS
<1>1. TypeOK
  BY FreshType, NewTokenType, RingAssumption
     DEF Init, TypeOK, Labels, Events, Upstream
<1>2. \A n \in Peers : QueueOK(n)
  BY DEF Init, QueueOK
<1> QED
  BY <1>1, <1>2 DEF TInv

(* Sending acks takes copies out of the queue, never more than there are. *)
LEMMA AckTypes ==
  ASSUME TInv, NEW n \in Peers, NEW A \in SUBSET pending[n], AckData(n, A)
  PROVE  /\ DOMAIN inbox' = Peers
         /\ \A p \in Peers : inbox'[p] \in [Upstream(p) -> Nat]
         /\ \A p \in Peers : p # n => inbox'[p] = inbox[p]
         /\ inbox'[n]["eof"] = inbox[n]["eof"]
         /\ inbox'[n]["abort"] = inbox[n]["abort"]
<1> DEFINE new == [m \in Upstream(n) |-> IF m \in A THEN inbox[n][m] - 1 ELSE inbox[n][m]]
<1>1. inbox' = [inbox EXCEPT ![n] = new]
  BY DEF AckData
<1>2. ASSUME NEW m \in Upstream(n) PROVE new[m] \in Nat
  <2>1. inbox[n][m] \in Nat
    BY DEF TInv, TypeOK
  <2>2. m \in A => inbox[n][m] >= 1
    BY DEF TInv, QueueOK
  <2> QED
    BY <2>1, <2>2
<1>3. new \in [Upstream(n) -> Nat]
  BY <1>2
<1>4. new["eof"] = inbox[n]["eof"] /\ new["abort"] = inbox[n]["abort"]
  BY InputAssumption DEF TInv, TypeOK, Upstream
<1> HIDE DEF new
<1> QED
  BY <1>1, <1>3, <1>4 DEF TInv, TypeOK

(* Moving a thread on: it keeps its event, or ends it and is idle. *)
LEMMA GotoFacts ==
  ASSUME TInv, NEW n \in Peers, NEW l \in Labels, Goto(n, l)
  PROVE  /\ pc' = [pc EXCEPT ![n] = l] /\ pc' \in [Peers -> Labels]
         /\ cur' \in [Peers -> Events]
         /\ \A p \in Peers : cur'[p] = cur[p] \/ cur'[p] = "none"
         /\ \A p \in Peers : p # n => cur'[p] = cur[p]
         /\ cur'[n] = IF l = "idle" THEN "none" ELSE cur[n]
<1>1. CASE l = "idle"
  <2>1. pc' = [pc EXCEPT ![n] = l] /\ cur' = [cur EXCEPT ![n] = "none"]
    BY <1>1 DEF Goto, Enter
  <2> QED
    BY <2>1, <1>1 DEF TInv, TypeOK, Events
<1>2. CASE l # "idle"
  <2>1. pc' = [pc EXCEPT ![n] = l] /\ cur' = [cur EXCEPT ![n] = cur[n]]
    BY <1>2 DEF Goto, Enter
  <2> QED
    BY <2>1, <1>2 DEF TInv, TypeOK
<1> QED
  BY <1>1, <1>2

(* Each step of a consume thread, and of its environment, keeps the types. *)
LEMMA StepTyped ==
  ASSUME TInv, NEW n \in Peers, Step(n)
  PROVE  TInv'
<1> USE DEF TInv, TypeOK
<1>0. /\ n \in Peers /\ pc[n] \in Labels /\ cur[n] \in Events
      /\ mem[n] \in States(n) /\ ckpt[n] \in States(n) /\ QueueOK(n)
      /\ {"eof", "abort"} \cap Input[n] = {}
  BY InputAssumption
<1>1. CASE \E m \in Input[n] : IgnoreData(n, m)
  <2>1. PICK m \in Input[n] : IgnoreData(n, m)
    BY <1>1
  <2>2. /\ m \in Upstream(n) /\ inbox[n] \in [Upstream(n) -> Nat]
        /\ inbox[n][m] \in Nat /\ inbox[n][m] - 1 \in Nat
        /\ m \in pending[n] => inbox[n][m] - 1 >= 1
        /\ inbox' = [inbox EXCEPT ![n] = [inbox[n] EXCEPT ![m] = inbox[n][m] - 1]]
    BY <2>1, DeliverableFacts DEF IgnoreData
  <2>3. ASSUME NEW p \in Peers PROVE QueueOK(p)'
    <3>1. CASE p = n
      BY <2>1, <2>2, <1>0, <3>1 DEF IgnoreData, QueueOK, thread, Upstream
    <3>2. CASE p # n
      BY <2>1, <2>2, <3>2 DEF IgnoreData, QueueOK, thread
    <3> QED
      BY <3>1, <3>2
  <2> QED
    BY <2>1, <2>2, <2>3 DEF IgnoreData, outs, thread, bounds
<1>2. CASE \E m \in Input[n] : ApplyData(n, m)
  <2>1. PICK m \in Input[n] : ApplyData(n, m)
    BY <1>2
  <2>2. m \in Upstream(n) /\ inbox[n] \in [Upstream(n) -> Nat] /\ inbox[n][m] >= 1
    BY <2>1, DeliverableFacts DEF ApplyData
  <2>3. \A p \in Peers : QueueOK(p)'
    BY <2>1, <2>2 DEF ApplyData, QueueOK, queues, Enter
  <2>4. /\ DOMAIN mem' = Peers /\ \A p \in Peers : mem'[p] \in States(p)
    <3>1. mem' = [mem EXCEPT ![n] =
                    [mem[n] EXCEPT !.received = @ + 1, !.seen = @ \cup {m},
                                   !.acc = @ \cup {m}]]
      BY <2>1, <1>0 DEF ApplyData, States
    <3> QED
      BY <3>1, AppliedType
  <2> QED
    BY <2>1, <2>3, <2>4 DEF ApplyData, queues, outs, bounds, Enter, Labels, Events
<1>3. CASE \E o \in rest[n] : SendOutput(n, o)
  BY <1>3 DEF SendOutput, queues, bounds, QueueOK
<1>4. CASE DataApplied(n)
  BY <1>4, <1>0 DEF DataApplied, queues, outs, bounds, QueueOK, Goto, Enter, AfterRun, Labels, Events
<1>5. CASE ReportSent(n)
  <2> DEFINE c == CountByShard(Out(n, mem[n].acc))
             r == [mem[n] EXCEPT !.sent = c, !.phase = "EMITTED",
                                 !.acc = IF Kind = "stateless" THEN {} ELSE @]
             t == [NewToken EXCEPT ![n] = c]
  <2>1. c \in Counts
    BY <1>0, CountsType DEF States
  <2>2. r \in States(n)
    BY <1>0, <2>1 DEF States, Phases
  <2>3. t \in Tokens
    BY <2>1 DEF Tokens, NewToken
  <2>4. \/ n # Leader /\ mem' = [mem EXCEPT ![n] = r] /\ UNCHANGED <<ring, tell, closing>>
        \/ Advance(n, t, r)
    BY <1>5 DEF ReportSent
  <2>5. /\ \E l \in Labels \ {"handle"} : Goto(n, l)
        /\ UNCHANGED <<inbox, acking, outs, ckpt, pending, rest, bounds>>
    BY <1>5 DEF ReportSent, AfterRun, Labels
  <2> HIDE DEF c, r, t
  <2>6. /\ ring' \in [Peers -> Seq(Tokens)]
        /\ \A p \in Peers : ring[p] # <<>> => ring'[p] # <<>>
        /\ DOMAIN mem' = Peers /\ \A p \in Peers : mem'[p] \in States(p)
        /\ tell' \in [Peers -> SUBSET Shards] /\ closing' \in [Peers -> Tokens]
    <3>1. CASE n # Leader /\ mem' = [mem EXCEPT ![n] = r] /\ UNCHANGED <<ring, tell, closing>>
      BY <3>1, <2>2
    <3>2. CASE Advance(n, t, r)
      BY <3>2, <2>2, <2>3, AdvanceType
    <3> QED
      BY <2>4, <3>1, <3>2
  <2>7. /\ pc' \in [Peers -> Labels] /\ cur' \in [Peers -> Events]
        /\ \A p \in Peers : cur'[p] = cur[p] \/ cur'[p] = "none"
        /\ \A p \in Peers : pc'[p] = "handle" => pc[p] = "handle"
    BY <2>5, GotoFacts
  <2>8. \A p \in Peers : QueueOK(p)'
    BY <2>5, <2>6, <2>7 DEF QueueOK
  <2> QED
    BY <2>5, <2>6, <2>7, <2>8 DEF outs, bounds
<1>6. CASE Save(n)
  BY <1>6, <1>0 DEF Save, queues, outs, bounds, QueueOK, Goto, Enter, Labels, Events
<1>7. CASE AckPending(n)
  <2>1. /\ AckData(n, pending[n]) /\ pending' = [pending EXCEPT ![n] = {}]
        /\ \E l \in Labels : Goto(n, l) /\ (l = "handle" => cur[n] = "flushed")
        /\ tell' \in [Peers -> SUBSET Shards]
        /\ UNCHANGED <<ring, acking, outs, mem, ckpt, rest, closing, bounds>>
    BY <1>7 DEF AckPending, Labels
  <2>2. /\ pc' \in [Peers -> Labels] /\ cur' \in [Peers -> Events]
        /\ \A p \in Peers : cur'[p] = cur[p] \/ cur'[p] = "none"
        /\ \A p \in Peers : pc'[p] = "handle" => pc[p] = "handle" \/ cur[p] = "flushed"
    BY <2>1, GotoFacts
  <2>3. /\ DOMAIN inbox' = Peers /\ \A p \in Peers : inbox'[p] \in [Upstream(p) -> Nat]
        /\ \A p \in Peers : p # n => inbox'[p] = inbox[p]
        /\ inbox'[n]["eof"] = inbox[n]["eof"] /\ inbox'[n]["abort"] = inbox[n]["abort"]
    BY <2>1, AckTypes
  <2>4. \A p \in Peers : QueueOK(p)'
    BY <2>1, <2>2, <2>3 DEF QueueOK
  <2> QED
    BY <2>1, <2>2, <2>3, <2>4 DEF outs, bounds
<1>8. CASE Free(n)
  <2>1. /\ DOMAIN mem' = Peers /\ \A p \in Peers : mem'[p] \in States(p)
        /\ DOMAIN ckpt' = Peers /\ \A p \in Peers : ckpt'[p] \in States(p)
    <3>1. CASE mem[n].phase # "PROCESSING"
      <4>1. mem' = [mem EXCEPT ![n] = [mem[n] EXCEPT !.acc = {}]]
        BY <1>8, <3>1 DEF Free, FreeAcc
      <4>2. FreeFiles(n)
        BY <1>8, <3>1 DEF Free, FreeAcc
      <4> QED
        BY <4>1, <4>2, <1>0, FreedType, FreeFilesType
    <3>2. CASE mem[n].phase = "PROCESSING"
      BY <1>8, <3>2 DEF Free
    <3> QED
      BY <3>1, <3>2
  <2>2. /\ pc' \in [Peers -> Labels] /\ cur' = cur
        /\ \A p \in Peers : pc'[p] = "handle" => pc[p] = "handle"
        /\ UNCHANGED <<queues, outs, pending, rest, tell, closing, bounds>>
    BY <1>8 DEF Free, Goto, Enter, Labels
  <2>3. \A p \in Peers : QueueOK(p)'
    BY <2>2 DEF QueueOK, queues
  <2> QED
    BY <2>1, <2>2, <2>3 DEF queues, outs, bounds
<1>9. CASE AckCurrent(n)
  <2>1. /\ cur' = [cur EXCEPT ![n] = "none"] /\ pc' = [pc EXCEPT ![n] = "idle"]
        /\ UNCHANGED <<ring, outs, mem, ckpt, pending, rest, tell, closing, bounds>>
    BY <1>9 DEF AckCurrent, Enter
  <2>2. /\ DOMAIN inbox' = Peers /\ \A p \in Peers : inbox'[p] \in [Upstream(p) -> Nat]
        /\ \A p \in Peers : p # n => inbox'[p] = inbox[p]
        /\ \A m \in Input[n] : inbox'[n][m] = inbox[n][m]
    <3>1. ASSUME NEW m \in {"eof", "abort"}, cur[n] = m,
                 inbox' = [inbox EXCEPT ![n] = [inbox[n] EXCEPT ![m] = inbox[n][m] - 1]]
          PROVE  <2>2
      <4>1. m \in Upstream(n) /\ inbox[n] \in [Upstream(n) -> Nat] /\ inbox[n][m] >= 1
        BY <3>1, <1>0 DEF Upstream, QueueOK
      <4>2. inbox[n][m] - 1 \in Nat
        BY <4>1
      <4> QED
        BY <3>1, <4>1, <4>2, <1>0
    <3>2. CASE inbox' = inbox
      BY <3>2
    <3> QED
      BY <1>9, <3>1, <3>2 DEF AckCurrent
  <2>3. /\ acking' \in [Peers -> BOOLEAN]
        /\ \A p \in Peers : acking'[p] => ring[p] # <<>>
    BY <1>9, <1>0 DEF AckCurrent, QueueOK
  <2>4. \A p \in Peers : p # n => cur'[p] = cur[p] /\ pc'[p] = pc[p] /\ acking'[p] = acking[p]
    BY <1>9, <2>1 DEF AckCurrent
  <2>5. \A p \in Peers : QueueOK(p)'
    BY <2>1, <2>2, <2>3, <2>4, <1>0 DEF QueueOK
  <2> QED
    BY <2>1, <2>2, <2>3, <2>5 DEF outs, bounds, Labels, Events
<1>10. CASE TakeEOF(n)
  <2>1. inbox[n]["eof"] \in Nat /\ inbox[n]["eof"] >= 1
    BY <1>10, ControlCounts DEF TakeEOF
  <2> QED
    BY <1>10, <2>1 DEF TakeEOF, QueueOK, queues, outs, bounds, Enter, Labels, Events
<1>11. CASE HandleEOF(n)
  <2>1. \E r \in States(n) : mem' = [mem EXCEPT ![n] = r] /\ ckpt' = [ckpt EXCEPT ![n] = r]
    BY <1>11, <1>0, EofType DEF HandleEOF
  <2>2. /\ pc' \in [Peers -> Labels] /\ cur' = [cur EXCEPT ![n] = "eof"]
        /\ DOMAIN rest' = Peers
        /\ pc[n] = "handle" /\ \A p \in Peers : pc'[p] = "handle" => pc[p] = "handle"
        /\ UNCHANGED <<queues, outs, pending, tell, closing, bounds>>
    BY <1>11 DEF HandleEOF, Enter, Labels
  <2>3. \A p \in Peers : QueueOK(p)'
    BY <2>2 DEF QueueOK, queues
  <2> QED
    BY <2>1, <2>2, <2>3 DEF queues, outs, bounds, Events
<1>12. CASE HandleToken(n)
  <2>1. /\ ring[n] # <<>> /\ ring[n] \in Seq(Tokens) /\ ~acking[n]
        /\ pc' \in [Peers -> Labels] /\ cur' = [cur EXCEPT ![n] = "token"]
        /\ \A p \in Peers : pc'[p] = "handle" => pc[p] = "handle"
        /\ UNCHANGED <<inbox, acking, outs, ckpt, pending, rest, bounds>>
    BY <1>12 DEF HandleToken, Enter, Labels
  <2>2. Stamped(n, Head(ring[n])) \in Tokens
    <3>1. Head(ring[n]) \in Tokens
      BY <2>1
    <3>2. mem[n].sent \in Counts
      BY <1>0 DEF States
    <3> QED
      BY <3>1, <3>2 DEF Stamped, Tokens
  <2>3. /\ ring' \in [Peers -> Seq(Tokens)]
        /\ \A p \in Peers : ring[p] # <<>> => ring'[p] # <<>>
        /\ DOMAIN mem' = Peers /\ \A p \in Peers : mem'[p] \in States(p)
        /\ tell' \in [Peers -> SUBSET Shards] /\ closing' \in [Peers -> Tokens]
    <3>1. CASE UNCHANGED <<ring, mem, tell, closing>>
      BY <3>1
    <3>2. CASE Advance(n, Stamped(n, Head(ring[n])), mem[n])
      BY <3>2, <2>2, <1>0, AdvanceType
    <3> QED
      BY <1>12, <3>1, <3>2 DEF HandleToken
  <2>4. \A p \in Peers : QueueOK(p)'
    BY <2>1, <2>3 DEF QueueOK
  <2> QED
    BY <2>1, <2>3, <2>4 DEF outs, bounds, Events
<1>13. CASE Closed(n)
  <2>1. /\ \E l \in Labels \ {"handle"} : Goto(n, l)
        /\ closing' = [closing EXCEPT ![n] = NewToken]
        /\ UNCHANGED <<queues, outs, mem, ckpt, pending, rest, tell, bounds>>
    BY <1>13 DEF Closed, AfterRun, Labels
  <2>2. /\ pc' \in [Peers -> Labels] /\ cur' \in [Peers -> Events]
        /\ \A p \in Peers : cur'[p] = cur[p] \/ cur'[p] = "none"
        /\ \A p \in Peers : pc'[p] = "handle" => pc[p] = "handle"
    BY <2>1, GotoFacts
  <2>3. \A p \in Peers : QueueOK(p)'
    BY <2>1, <2>2 DEF QueueOK, queues
  <2> QED
    BY <2>1, <2>2, <2>3, NewTokenType DEF queues, outs, bounds
<1>14. CASE \E s \in Shards : CloseShard(n, s)
  BY <1>14 DEF CloseShard, queues, bounds, QueueOK
<1>15. CASE \E s \in Shards : AbortShard(n, s)
  BY <1>15 DEF AbortShard, queues, bounds, QueueOK
<1>16. CASE HandleAbort(n)
  <2>1. inbox[n]["abort"] \in Nat /\ inbox[n]["abort"] >= 1
    BY <1>16, ControlCounts DEF HandleAbort
  <2>2. DOMAIN mem' = Peers /\ \A p \in Peers : mem'[p] \in States(p)
    BY <1>16, FreedType DEF HandleAbort
  <2>3. DOMAIN ckpt' = Peers /\ \A p \in Peers : ckpt'[p] \in States(p)
    BY <1>16, FreeFilesType DEF HandleAbort
  <2> QED
    BY <1>16, <2>1, <2>2, <2>3
       DEF HandleAbort, QueueOK, queues, outs, bounds, Enter, Labels, Events
<1>17. CASE AbortSent(n)
  BY <1>17, <1>0 DEF AbortSent, queues, outs, bounds, QueueOK, Goto, Enter, Labels, Events
<1>18. CASE Restart(n)
  BY <1>18, <1>0 DEF Restart, queues, outs, bounds, QueueOK, Goto, Enter, Labels, Events
<1>19. CASE SendTokenAck(n)
  <2>1. /\ acking[n] /\ ring' = [ring EXCEPT ![n] = Tail(ring[n])]
        /\ acking' = [acking EXCEPT ![n] = FALSE]
        /\ UNCHANGED <<inbox, outs, mem, ckpt, pending, thread, bounds>>
    BY <1>19 DEF SendTokenAck
  <2>2. cur[n] # "token" /\ ring[n] # <<>> /\ ring[n] \in Seq(Tokens)
    BY <2>1, <1>0 DEF QueueOK
  <2>3. Tail(ring[n]) \in Seq(Tokens)
    BY <2>2
  <2>4. \A p \in Peers : QueueOK(p)'
    BY <2>1, <2>2 DEF QueueOK, thread
  <2> QED
    BY <2>1, <2>3, <2>4 DEF outs, thread, bounds
<1> QED
  BY <1>1, <1>2, <1>3, <1>4, <1>5, <1>6, <1>7, <1>8, <1>9, <1>10, <1>11, <1>12,
     <1>13, <1>14, <1>15, <1>16, <1>17, <1>18, <1>19 DEF Step

(* Steps of upstream and of other clients keep the types. *)
LEMMA EnvironmentTyped ==
  ASSUME TInv, Environment
  PROVE  TInv'
<1> USE DEF TInv, TypeOK
<1>1. CASE \E n \in Peers : Crash(n)
  <2>1. PICK n \in Peers : Crash(n)
    BY <1>1
  <2>2. PICK A \in SUBSET pending[n] : AckData(n, A)
    BY <2>1 DEF Crash
  <2>3. /\ DOMAIN inbox' = Peers /\ \A p \in Peers : inbox'[p] \in [Upstream(p) -> Nat]
        /\ \A p \in Peers : p # n => inbox'[p] = inbox[p]
    BY <2>2, AckTypes
  <2>4. /\ cur' = [cur EXCEPT ![n] = "start"] /\ pc' = [pc EXCEPT ![n] = "down"]
        /\ mem' = [mem EXCEPT ![n] = ckpt[n]] /\ pending' = [pending EXCEPT ![n] = {}]
        /\ rest' = [rest EXCEPT ![n] = {}] /\ tell' = [tell EXCEPT ![n] = {}]
        /\ closing' = [closing EXCEPT ![n] = NewToken] /\ crashes' = crashes + 1
        /\ acking' = [acking EXCEPT ![n] = FALSE]
        /\ UNCHANGED <<ring, outs, ckpt, resends, failures>>
    BY <2>1 DEF Crash, Enter
  <2>5. \A p \in Peers : QueueOK(p)'
    BY <2>3, <2>4 DEF QueueOK
  <2> QED
    BY <2>3, <2>4, <2>5, NewTokenType DEF outs, Labels, Events
<1>2. CASE \E n \in Peers : TokenFails(n)
  BY <1>2, NewTokenType DEF TokenFails, Enter, queues, outs, QueueOK, Labels, Events
<1>3. CASE \E n \in Peers : OtherClientFlush(n)
  BY <1>3 DEF OtherClientFlush, Enter, queues, outs, bounds, QueueOK, Labels, Events
<1>4. CASE UpstreamAbort
  <2>1. ASSUME NEW p \in Peers
        PROVE  /\ inbox'[p] = [inbox[p] EXCEPT !["abort"] = 1]
               /\ inbox'[p] \in [Upstream(p) -> Nat]
               /\ inbox[p] \in [Upstream(p) -> Nat]
               /\ {"eof", "abort"} \cap Input[p] = {}
               /\ {"eof", "abort"} \subseteq Upstream(p)
    BY <1>4, InputAssumption DEF UpstreamAbort, Upstream
  <2>2. \A p \in Peers : QueueOK(p)'
    BY <1>4, <2>1 DEF UpstreamAbort, QueueOK, thread
  <2> QED
    BY <1>4, <2>1, <2>2 DEF UpstreamAbort, outs, thread, bounds
<1>5. CASE \E n \in Peers : \E m \in Upstream(n) : Redeliver(n, m)
  <2>0. PICK n \in Peers : \E m \in Upstream(n) : Redeliver(n, m)
    BY <1>5
  <2>1. PICK m \in Upstream(n) : Redeliver(n, m)
    BY <2>0
  <2>2. /\ inbox[n] \in [Upstream(n) -> Nat] /\ inbox[n][m] + 1 \in Nat
        /\ inbox' = [inbox EXCEPT ![n] = [inbox[n] EXCEPT ![m] = inbox[n][m] + 1]]
    BY <2>1 DEF Redeliver
  <2>3. ASSUME NEW p \in Peers, NEW k \in Upstream(p)
        PROVE  inbox[p][k] \in Nat /\ inbox'[p][k] \in Nat /\ inbox'[p][k] >= inbox[p][k]
    BY <2>2
  <2>4. \A p \in Peers : QueueOK(p)'
    BY <2>1, <2>3 DEF Redeliver, QueueOK, thread, Upstream
  <2> QED
    BY <2>1, <2>2, <2>4 DEF Redeliver, outs, thread, bounds
<1> QED
  BY <1>1, <1>2, <1>3, <1>4, <1>5 DEF Environment

(* A stuttering step keeps the types. *)
LEMMA StutterTyped ==
  ASSUME TInv, UNCHANGED vars
  PROVE  TInv'
BY DEF TInv, TypeOK, QueueOK, vars

(***************************************************************************)
(* Every reachable state is typed: in particular no queue count goes below *)
(* zero, so no delivery is acknowledged twice (AckData, AckCurrent), and   *)
(* no token is taken from an empty ring queue.                             *)
(***************************************************************************)
THEOREM TypeCorrect == Spec => []TypeOK
<1>1. TInv /\ [Next]_vars => TInv'
  BY StepTyped, EnvironmentTyped, StutterTyped DEF Next
<1>2. TInv => TypeOK
  BY DEF TInv
<1> QED
  BY InitTyped, <1>1, <1>2, PTL DEF Spec

-----------------------------------------------------------------------------
(* Acknowledged is durable: the proofs of AckedIsDurable and NoEofAfterAbort *)

(* The part of DurableInv that is about one node. *)
NodeDurable(n) ==
  /\ TableDurable(n) /\ TotalDurable(n) /\ TombstoneDurable(n)
  /\ ~ckpt[n].aborted =>
       /\ \A m \in Input[n] : inbox[n][m] = 0 => m \in ckpt[n].seen
       /\ inbox[n]["eof"] = 0 => ckpt[n].expected = Cardinality(Input[n])

(* DurableInv speaks of one node at a time. *)
LEMMA DurableByNode == DurableInv <=> TInv /\ \A n \in Peers : NodeDurable(n)
BY DEF DurableInv, NodeDurable, AckedIsDurable

(* The queue, the records and the place of p stay as they are. *)
Untouched(p) ==
  /\ mem'[p] = mem[p] /\ ckpt'[p] = ckpt[p] /\ pending'[p] = pending[p]
  /\ inbox'[p] = inbox[p] /\ pc'[p] = pc[p] /\ cur'[p] = cur[p] /\ tell'[p] = tell[p]

(* A node that is not touched keeps its part of the invariant. *)
LEMMA UntouchedDurable ==
  ASSUME NEW p \in Peers, NodeDurable(p), Untouched(p)
  PROVE  NodeDurable(p)'
BY DEF NodeDurable, TableDurable, TotalDurable, TombstoneDurable, Untouched

(* A step of n's thread, a crash included, touches no other node. *)
LEMMA StepIsLocal ==
  ASSUME TInv, NEW n \in Peers, Step(n) \/ Crash(n) \/ TokenFails(n) \/ OtherClientFlush(n),
         NEW p \in Peers, p # n
  PROVE  Untouched(p)
<1> USE DEF TInv, TypeOK, queues, thread, Enter, Goto, Untouched
<1>1. \A m : IgnoreData(n, m) \/ ApplyData(n, m) => Untouched(p)
  BY DEF IgnoreData, ApplyData
<1>2. \A o : SendOutput(n, o) => Untouched(p)
  BY DEF SendOutput
<1>3. DataApplied(n) \/ Save(n) \/ Restart(n) \/ Closed(n) \/ AbortSent(n) => Untouched(p)
  BY DEF DataApplied, Save, Restart, Closed, AbortSent
<1>4. ReportSent(n) => Untouched(p)
  BY DEF ReportSent, Advance
<1>5. HandleToken(n) => Untouched(p)
  BY DEF HandleToken, Advance
<1>6. AckPending(n) \/ Crash(n) => Untouched(p)
  BY DEF AckPending, AckData, Crash
<1>7. Free(n) \/ HandleAbort(n) => Untouched(p)
  BY DEF Free, FreeAcc, FreeFiles, HandleAbort
<1>8. AckCurrent(n) \/ SendTokenAck(n) \/ TakeEOF(n) \/ HandleEOF(n) => Untouched(p)
  BY DEF AckCurrent, SendTokenAck, TakeEOF, HandleEOF
<1>9. \A s : CloseShard(n, s) \/ AbortShard(n, s) => Untouched(p)
  BY DEF CloseShard, AbortShard
<1>10. TokenFails(n) \/ OtherClientFlush(n) => Untouched(p)
  BY DEF TokenFails, OtherClientFlush
<1> QED
  BY <1>1, <1>2, <1>3, <1>4, <1>5, <1>6, <1>7, <1>8, <1>9, <1>10 DEF Step

(* Two records that agree on everything that has to be durable. *)
SameDurable(r, q) == r.seen = q.seen /\ r.expected = q.expected /\ r.aborted = q.aborted

(* A step that moves n's thread, sends, or frees an accumulation. *)
LEMMA ControlDurable ==
  ASSUME NEW n \in Peers, NodeDurable(n),
         SameDurable(mem'[n], mem[n]), SameDurable(ckpt'[n], ckpt[n]),
         pending'[n] = pending[n], inbox'[n] = inbox[n],
         pc[n] # "save" \/ cur[n] # "abort",
         pc'[n] = "ack" => pc[n] = "ack",
         cur'[n] = "eof" => cur[n] = "eof",
         pc'[n] \in {"emit", "close"} => ~mem[n].aborted,
         pc'[n] = "close" => n = Leader
  PROVE  NodeDurable(n)'
<1>1. TableDurable(n)'
  BY DEF NodeDurable, TableDurable, SameDurable
<1>2. TotalDurable(n)'
  BY DEF NodeDurable, TotalDurable, SameDurable
<1>3. TombstoneDurable(n)'
  BY DEF NodeDurable, TombstoneDurable, SameDurable
<1> QED
  BY <1>1, <1>2, <1>3 DEF NodeDurable, SameDurable

(* A duplicate is acked only when the checkpoint covers the first copy, or *)
(* while that copy is still queued behind the ack n holds.                 *)
LEMMA IgnoreDurable ==
  ASSUME TInv, NEW n \in Peers, NodeDurable(n), NEW m \in Input[n], IgnoreData(n, m)
  PROVE  NodeDurable(n)'
<1>1. /\ m \in Upstream(n) /\ inbox[n] \in [Upstream(n) -> Nat]
      /\ inbox[n][m] \in Nat
      /\ m \in pending[n] => inbox[n][m] - 1 >= 1
  BY DeliverableFacts DEF IgnoreData
<1>2. /\ inbox'[n] = [inbox[n] EXCEPT ![m] = inbox[n][m] - 1]
      /\ UNCHANGED <<mem, ckpt, pending, pc, cur>> /\ pc[n] = "idle"
      /\ mem[n].aborted \/ m \in mem[n].seen
  BY DEF IgnoreData, thread, Idle, TInv, TypeOK
<1>3. TableDurable(n)' /\ TotalDurable(n)' /\ TombstoneDurable(n)'
  BY <1>2 DEF NodeDurable, TableDurable, TotalDurable, TombstoneDurable
<1>4. ASSUME ~ckpt[n].aborted, NEW k \in Input[n], inbox'[n][k] = 0
      PROVE  k \in ckpt[n].seen
  <2>1. CASE k # m
    BY <1>1, <1>2, <1>4, <2>1 DEF NodeDurable, Upstream
  <2>2. CASE k = m
    BY <1>1, <1>2, <1>4, <2>2 DEF NodeDurable, TombstoneDurable, TableDurable
  <2> QED
    BY <2>1, <2>2
<1>5. inbox'[n]["eof"] = inbox[n]["eof"]
  BY <1>1, <1>2, InputAssumption DEF Upstream
<1> QED
  BY <1>2, <1>3, <1>4, <1>5 DEF NodeDurable

(* A message that is applied joins the table, and its ack is held. *)
LEMMA ApplyDurable ==
  ASSUME TInv, NEW n \in Peers, NodeDurable(n), NEW m \in Input[n], ApplyData(n, m)
  PROVE  NodeDurable(n)'
<1>1. /\ mem[n] \in States(n) /\ ckpt'[n] = ckpt[n] /\ inbox'[n] = inbox[n]
      /\ mem'[n] = [mem[n] EXCEPT !.received = @ + 1, !.seen = @ \cup {m}, !.acc = @ \cup {m}]
      /\ pending'[n] = pending[n] \cup {m} /\ pc'[n] = "apply" /\ cur'[n] = "data"
      /\ pc[n] = "idle"
  BY DEF ApplyData, Enter, queues, TInv, TypeOK, States, Idle
<1>2. /\ mem'[n].seen = mem[n].seen \cup {m} /\ mem'[n].expected = mem[n].expected
      /\ mem'[n].aborted = mem[n].aborted
  BY <1>1 DEF States
<1> QED
  BY <1>1, <1>2 DEF NodeDurable, TableDurable, TotalDurable, TombstoneDurable

(* A save makes everything in memory durable. *)
LEMMA SaveDurable ==
  ASSUME TInv, NEW n \in Peers, NodeDurable(n), Save(n) \/ HandleEOF(n)
  PROVE  NodeDurable(n)'
<1>1. mem[n] \in States(n) /\ DOMAIN mem = Peers /\ DOMAIN ckpt = Peers /\ DOMAIN pc = Peers
      /\ DOMAIN cur = Peers
  BY DEF TInv, TypeOK
<1>2. CASE Save(n)
  <2>1. /\ ckpt'[n] = mem[n] /\ mem' = mem /\ pending' = pending /\ inbox' = inbox
        /\ pc[n] = "save" /\ pc'[n] = "ack" /\ cur'[n] = cur[n]
    BY <1>1, <1>2 DEF Save, Goto, Enter, queues
  <2> QED
    BY <2>1 DEF NodeDurable, TableDurable, TotalDurable, TombstoneDurable
<1>3. CASE HandleEOF(n)
  <2> DEFINE r == IF mem[n].aborted THEN mem[n]
                  ELSE [mem[n] EXCEPT !.expected = Cardinality(Input[n])]
  <2>1. /\ ckpt'[n] = r /\ mem'[n] = r /\ pending' = pending /\ inbox' = inbox
        /\ pc'[n] = (IF Complete(r) THEN "emit" ELSE "done") /\ cur'[n] = "eof"
        /\ pc[n] = "handle"
    BY <1>1, <1>3 DEF HandleEOF, Enter, queues
  <2>2. /\ r.seen = mem[n].seen /\ r.aborted = mem[n].aborted
        /\ ~r.aborted => r.expected = Cardinality(Input[n])
        /\ r.aborted => r.expected = mem[n].expected
    BY <1>1 DEF States
  <2>3. Complete(r) /\ r.aborted => r.expected # -1
    BY DEF Complete
  <2> HIDE DEF r
  <2> QED
    BY <2>1, <2>2, <2>3 DEF NodeDurable, TableDurable, TotalDurable, TombstoneDurable
<1> QED
  BY <1>2, <1>3

(* The acks that leave, those a crash cuts short included, are of messages *)
(* that the checkpoint covers.                                             *)
LEMMA AckDurable ==
  ASSUME TInv, NEW n \in Peers, NodeDurable(n), NEW A \in SUBSET pending[n],
         pc[n] = "ack" \/ A = {}, AckData(n, A), ckpt'[n] = ckpt[n]
  PROVE  ~ckpt'[n].aborted =>
           /\ \A m \in Input[n] : inbox'[n][m] = 0 => m \in ckpt'[n].seen
           /\ inbox'[n]["eof"] = 0 => ckpt'[n].expected = Cardinality(Input[n])
<1>1. inbox'[n] = [m \in Upstream(n) |-> IF m \in A THEN inbox[n][m] - 1 ELSE inbox[n][m]]
  BY DEF AckData, TInv, TypeOK
<1>2. inbox'[n]["eof"] = inbox[n]["eof"]
  BY AckTypes
<1>3. \A m \in A : m \in ckpt[n].seen
  BY DEF NodeDurable, TableDurable
<1> QED
  BY <1>1, <1>2, <1>3 DEF NodeDurable, Upstream

(* The held acks are sent after the save. *)
LEMMA AckPendingDurable ==
  ASSUME TInv, NEW n \in Peers, NodeDurable(n), AckPending(n)
  PROVE  NodeDurable(n)'
<1>1. /\ mem' = mem /\ ckpt' = ckpt /\ pending'[n] = {} /\ pc[n] = "ack"
      /\ pc'[n] \in {"handle", "free", "abort", "done", "idle"}
      /\ cur'[n] \in {cur[n], "none"}
  BY DEF AckPending, Goto, Enter, TInv, TypeOK
<1>2. ~ckpt'[n].aborted =>
           /\ \A m \in Input[n] : inbox'[n][m] = 0 => m \in ckpt'[n].seen
           /\ inbox'[n]["eof"] = 0 => ckpt'[n].expected = Cardinality(Input[n])
  BY <1>1, AckDurable DEF AckPending
<1>3. TableDurable(n)' /\ TotalDurable(n)' /\ TombstoneDurable(n)'
  BY <1>1 DEF NodeDurable, TableDurable, TotalDurable, TombstoneDurable
<1> QED
  BY <1>2, <1>3 DEF NodeDurable

(* A crash falls back to what is durable. *)
LEMMA CrashDurable ==
  ASSUME TInv, NEW n \in Peers, NodeDurable(n), Crash(n)
  PROVE  NodeDurable(n)'
<1>1. /\ mem'[n] = ckpt[n] /\ ckpt' = ckpt /\ pending'[n] = {}
      /\ pc'[n] = "down" /\ cur'[n] = "start"
  BY DEF Crash, Enter, TInv, TypeOK
<1>2. ~ckpt'[n].aborted =>
           /\ \A m \in Input[n] : inbox'[n][m] = 0 => m \in ckpt'[n].seen
           /\ inbox'[n]["eof"] = 0 => ckpt'[n].expected = Cardinality(Input[n])
  BY <1>1, AckDurable DEF Crash
<1>3. TableDurable(n)' /\ TotalDurable(n)' /\ TombstoneDurable(n)'
  BY <1>1 DEF NodeDurable, TableDurable, TotalDurable, TombstoneDurable
<1> QED
  BY <1>2, <1>3 DEF NodeDurable

(* The EOF or the Abort that is acked was recorded before. *)
LEMMA AckCurrentDurable ==
  ASSUME TInv, NEW n \in Peers, NodeDurable(n), AckCurrent(n)
  PROVE  NodeDurable(n)'
<1>1. /\ UNCHANGED <<mem, ckpt, pending>> /\ pc[n] = "done"
      /\ pc'[n] = "idle" /\ cur'[n] = "none"
      /\ \A m \in Input[n] : inbox'[n][m] = inbox[n][m]
      /\ inbox'[n]["eof"] = inbox[n]["eof"] \/ cur[n] = "eof"
  BY InputAssumption DEF AckCurrent, Enter, TInv, TypeOK, Upstream
<1> QED
  BY <1>1 DEF NodeDurable, TableDurable, TotalDurable, TombstoneDurable

(* The tombstone keeps the dedup table. *)
LEMMA HandleAbortDurable ==
  ASSUME TInv, NEW n \in Peers, NodeDurable(n), HandleAbort(n)
  PROVE  NodeDurable(n)'
<1>1. /\ mem'[n].seen = mem[n].seen /\ mem'[n].aborted /\ mem'[n].expected = -1
      /\ pending' = pending /\ inbox' = inbox /\ pc'[n] = "save" /\ cur'[n] = "abort"
  BY DEF HandleAbort, Enter, queues, TInv, TypeOK, Dropped, FreshState
<1>2. SameDurable(ckpt'[n], ckpt[n])
  BY DEF HandleAbort, FreeFiles, SameDurable, TInv, TypeOK, States
<1> QED
  BY <1>1, <1>2 DEF NodeDurable, TableDurable, TotalDurable, TombstoneDurable, SameDurable

(* Steps that move a thread, send, or free what was emitted. *)
LEMMA MovesDurable ==
  ASSUME TInv, NEW n \in Peers, NodeDurable(n),
         \/ \E o \in rest[n] : SendOutput(n, o)
         \/ DataApplied(n) \/ ReportSent(n) \/ Free(n) \/ SendTokenAck(n)
         \/ TakeEOF(n) \/ HandleToken(n) \/ Closed(n)
         \/ \E s \in Shards : CloseShard(n, s) \/ AbortShard(n, s)
         \/ AbortSent(n) \/ Restart(n) \/ TokenFails(n) \/ OtherClientFlush(n)
  PROVE  NodeDurable(n)'
<1>0. /\ mem[n] \in States(n) /\ ckpt[n] \in States(n) /\ DOMAIN mem = Peers
      /\ DOMAIN ckpt = Peers /\ pc \in [Peers -> Labels] /\ cur \in [Peers -> Events]
  BY DEF TInv, TypeOK
<1>1. ASSUME mem' = mem /\ ckpt' = ckpt /\ pending' = pending /\ inbox' = inbox /\ pc' = pc /\ cur' = cur
      PROVE  NodeDurable(n)'
  BY <1>1 DEF NodeDurable, TableDurable, TotalDurable, TombstoneDurable
<1>2. CASE \/ SendTokenAck(n) \/ \E o \in rest[n] : SendOutput(n, o)
           \/ \E s \in Shards : CloseShard(n, s) \/ AbortShard(n, s)
  BY <1>1, <1>2 DEF SendTokenAck, SendOutput, CloseShard, AbortShard, thread, queues
<1>3. CASE DataApplied(n) \/ Restart(n)
  <2>1. /\ UNCHANGED <<mem, ckpt, pending, inbox>> /\ pc[n] # "save"
        /\ pc'[n] \in {"emit", "save", "idle", "free"} /\ cur'[n] \in {cur[n], "none"}
        /\ pc'[n] = "emit" => mem[n].expected # -1
    BY <1>0, <1>3 DEF DataApplied, Restart, Goto, Enter, AfterRun, Complete, queues
  <2> QED
    BY <2>1, ControlDurable DEF NodeDurable, TombstoneDurable, SameDurable
<1>4. CASE ReportSent(n)
  <2>1. /\ UNCHANGED <<ckpt, pending, inbox>> /\ pc[n] = "emit"
        /\ pc'[n] \in {"close", "save", "idle", "free"} /\ cur'[n] \in {cur[n], "none"}
        /\ pc'[n] = "close" => n = Leader
    BY <1>0, <1>4 DEF ReportSent, Goto, Enter, AfterRun, Closes
  <2>2. SameDurable(mem'[n], mem[n])
    <3> DEFINE c == CountByShard(Out(n, mem[n].acc))
               r == [mem[n] EXCEPT !.sent = c, !.phase = "EMITTED",
                                   !.acc = IF Kind = "stateless" THEN {} ELSE @]
    <3>1. \/ mem' = [mem EXCEPT ![n] = r]
          \/ mem' = [mem EXCEPT ![n] = [r EXCEPT !.phase = "DONE"]]
      BY <1>4 DEF ReportSent, Advance
    <3>2. SameDurable(r, mem[n]) /\ SameDurable([r EXCEPT !.phase = "DONE"], mem[n])
      BY <1>0 DEF SameDurable, States
    <3> QED
      BY <1>0, <3>1, <3>2
  <2> QED
    BY <2>1, <2>2, ControlDurable DEF NodeDurable, TombstoneDurable, SameDurable
<1>5. CASE HandleToken(n)
  <2>1. /\ UNCHANGED <<ckpt, pending, inbox>> /\ pc[n] = "idle"
        /\ pc'[n] \in {"close", "save"} /\ cur'[n] = "token"
        /\ pc'[n] = "close" => n = Leader /\ ~mem[n].aborted
    BY <1>0, <1>5 DEF HandleToken, Enter, Closes, Idle
  <2>2. SameDurable(mem'[n], mem[n])
    BY <1>0, <1>5 DEF HandleToken, Advance, SameDurable, States
  <2> QED
    BY <2>1, <2>2, ControlDurable DEF NodeDurable, TombstoneDurable, SameDurable
<1>6. CASE Free(n)
  <2>1. /\ UNCHANGED <<pending, inbox>> /\ pc[n] = "free"
        /\ pc'[n] \in {"save", "done"} /\ cur'[n] = cur[n]
    BY <1>0, <1>6 DEF Free, Goto, Enter, queues
  <2>2. SameDurable(mem'[n], mem[n]) /\ SameDurable(ckpt'[n], ckpt[n])
    BY <1>0, <1>6 DEF Free, FreeAcc, FreeFiles, SameDurable, States
  <2> QED
    BY <2>1, <2>2, ControlDurable
<1>7. CASE TakeEOF(n) \/ OtherClientFlush(n) \/ AbortSent(n) \/ Closed(n) \/ TokenFails(n)
  <2>1. /\ UNCHANGED <<mem, ckpt, pending, inbox>> /\ (pc[n] # "save" \/ cur[n] # "abort")
        /\ pc'[n] \in {"save", "done", "idle", "free"}
        /\ cur'[n] \in {cur[n], "none", "flushed"}
    BY <1>0, <1>7 DEF TakeEOF, OtherClientFlush, AbortSent, Closed, TokenFails, Goto, Enter,
                      AfterRun, Idle, queues
  <2> QED
    BY <2>1, ControlDurable DEF SameDurable
<1> QED
  BY <1>2, <1>3, <1>4, <1>5, <1>6, <1>7

(* The invariant holds at the start: nothing was acked. *)
LEMMA InitDurable == Init => DurableInv
<1> SUFFICES ASSUME Init PROVE DurableInv
  OBVIOUS
<1>1. TInv
  BY InitTyped
<1>2. ASSUME NEW n \in Peers PROVE NodeDurable(n)
  <2>1. /\ mem[n] = FreshState /\ ckpt[n] = FreshState /\ pending[n] = {}
        /\ pc[n] = "idle" /\ cur[n] = "none"
        /\ inbox[n] = [m \in Upstream(n) |-> IF m = "abort" THEN 0 ELSE 1]
    BY DEF Init
  <2>2. /\ FreshState.seen = {} /\ FreshState.expected = -1 /\ ~FreshState.aborted
    BY DEF FreshState
  <2>3. Cardinality(Input[n]) # -1
    BY InputAssumption, FS_CardinalityType
  <2>4. inbox[n]["eof"] = 1 /\ \A m \in Input[n] : inbox[n][m] = 1
    BY <2>1, InputAssumption DEF Upstream
  <2> QED
    BY <2>1, <2>2, <2>3, <2>4 DEF NodeDurable, TableDurable, TotalDurable, TombstoneDurable
<1> QED
  BY <1>1, <1>2, DurableByNode

(* Every step of the stage keeps the invariant. *)
LEMMA NextDurable ==
  ASSUME DurableInv, [Next]_vars
  PROVE  DurableInv'
<1>1. TInv /\ TInv' /\ \A p \in Peers : NodeDurable(p)
  BY DurableByNode, StepTyped, EnvironmentTyped, StutterTyped DEF Next
<1>2. ASSUME NEW n \in Peers, Step(n) \/ Crash(n) \/ TokenFails(n) \/ OtherClientFlush(n)
      PROVE  \A p \in Peers : NodeDurable(p)'
  <2>1. NodeDurable(n)'
    BY <1>1, <1>2, MovesDurable, IgnoreDurable, ApplyDurable, SaveDurable, AckPendingDurable,
       AckCurrentDurable, HandleAbortDurable, CrashDurable DEF Step
  <2> QED
    BY <1>1, <1>2, <2>1, StepIsLocal, UntouchedDurable
<1>3. ASSUME UpstreamAbort \/ \E n \in Peers : \E m \in Upstream(n) : Redeliver(n, m)
      PROVE  \A p \in Peers : NodeDurable(p)'
  <2> SUFFICES ASSUME NEW p \in Peers PROVE NodeDurable(p)'
    OBVIOUS
  <2>1. UNCHANGED <<mem, ckpt, pending, pc, cur>>
    BY <1>3 DEF UpstreamAbort, Redeliver, thread
  <2>2. ASSUME NEW m \in Upstream(p), m # "abort", inbox'[p][m] = 0
        PROVE  inbox[p][m] = 0
    <3>1. inbox[p] \in [Upstream(p) -> Nat] /\ DOMAIN inbox = Peers /\ inbox[p][m] \in Nat
      BY <1>1 DEF TInv, TypeOK
    <3>2. CASE UpstreamAbort
      BY <2>2, <3>1, <3>2 DEF UpstreamAbort
    <3>3. CASE \E n \in Peers : \E k \in Upstream(n) : Redeliver(n, k)
      BY <2>2, <3>1, <3>3 DEF Redeliver
    <3> QED
      BY <1>3, <3>2, <3>3
  <2>3. "eof" \in Upstream(p) /\ \A m \in Input[p] : m \in Upstream(p) /\ m # "abort"
    BY InputAssumption DEF Upstream
  <2> QED
    BY <1>1, <2>1, <2>2, <2>3 DEF NodeDurable, TableDurable, TotalDurable, TombstoneDurable
<1>4. ASSUME UNCHANGED vars
      PROVE  \A p \in Peers : NodeDurable(p)'
  BY <1>1, <1>4, UntouchedDurable DEF vars, Untouched
<1>5. (\A p \in Peers : NodeDurable(p)') => DurableInv'
  BY <1>1 DEF DurableInv, NodeDurable, AckedIsDurable
<1> QED
  BY <1>2, <1>3, <1>4, <1>5 DEF Next, Environment

(* Only a controller that closes a barrier announces EOFs. *)
LEMMA ForwardsOnlyByClose ==
  ASSUME NEW n \in Peers, Step(n), \A s \in Shards : ~CloseShard(n, s)
  PROVE  forwards' = forwards
<1> USE DEF outs
<1>1. (\E m : IgnoreData(n, m) \/ ApplyData(n, m)) \/ (\E o : SendOutput(n, o))
        \/ (\E s : AbortShard(n, s)) => forwards' = forwards
  BY DEF IgnoreData, ApplyData, SendOutput, AbortShard
<1>2. DataApplied(n) \/ ReportSent(n) \/ Closed(n) \/ Save(n) \/ AckPending(n) \/ Free(n)
        \/ AckCurrent(n) \/ SendTokenAck(n) => forwards' = forwards
  BY DEF DataApplied, ReportSent, Closed, Save, AckPending, Free, AckCurrent, SendTokenAck
<1>3. TakeEOF(n) \/ HandleEOF(n) \/ HandleToken(n) \/ HandleAbort(n) \/ AbortSent(n)
        \/ Restart(n) => forwards' = forwards
  BY DEF TakeEOF, HandleEOF, HandleToken, HandleAbort, AbortSent, Restart
<1> QED
  BY <1>1, <1>2, <1>3 DEF Step

(* The environment announces nothing. *)
LEMMA EnvironmentSilent ==
  ASSUME Environment \/ UNCHANGED vars
  PROVE  forwards' = forwards
BY DEF Environment, Crash, TokenFails, OtherClientFlush, UpstreamAbort, Redeliver,
       queues, outs, thread, bounds, vars

(***************************************************************************)
(* A message or an EOF that left a controller's queue is in its            *)
(* checkpoint: whenever a controller dies, in the ack loop included,       *)
(* nothing it acknowledged is lost (Checkpointer.handle_data,              *)
(* _checkpoint_and_flush, RingNode._on_eof).                               *)
(***************************************************************************)
THEOREM AckedDurable == Spec => []AckedIsDurable
<1>1. DurableInv => AckedIsDurable
  BY DEF DurableInv
<1> QED
  BY InitDurable, NextDurable, <1>1, PTL DEF Spec

(***************************************************************************)
(* Once the leader's checkpoint holds a client's tombstone, no token of    *)
(* the client, late, redelivered or replayed after a crash, announces an   *)
(* EOF downstream (drop, on_token, _advance).                              *)
(***************************************************************************)
THEOREM SilentAfterTombstone == Spec => NoEofAfterAbort
<1>1. ASSUME DurableInv, [Next]_vars, ckpt[Leader].aborted
      PROVE  forwards' = forwards
  <2>1. \A n \in Peers : pc[n] # "close"
    BY <1>1, RingFacts DEF DurableInv, TombstoneDurable
  <2> QED
    BY <1>1, <2>1, ForwardsOnlyByClose, EnvironmentSilent DEF CloseShard, Next
<1> QED
  BY InitDurable, NextDurable, <1>1, PTL DEF Spec, NoEofAfterAbort

-----------------------------------------------------------------------------
(* DONE means forwarded *)

(* A node that stays out of the barrier's closing keeps the invariant: its   *)
(* record becomes DONE in no other way, and no EOF is taken back.            *)
LEMMA PhaseKept ==
  ASSUME ForwardInv, TInv', forwards' = forwards,
         mem'[Leader].phase = "DONE" =>
           mem[Leader].phase = "DONE" \/ ckpt[Leader].phase = "DONE",
         ckpt'[Leader].phase = "DONE" =>
           \/ ckpt[Leader].phase = "DONE"
           \/ mem[Leader].phase = "DONE" /\ pc[Leader] # "close",
         pc[Leader] = "close" => \/ pc'[Leader] = "close" /\ tell'[Leader] = tell[Leader]
                                 \/ tell[Leader] = {}
                                 \/ mem'[Leader] = ckpt[Leader]
  PROVE  ForwardInv'
BY DEF ForwardInv, DoneMeansForwarded

(* The leader closes a barrier: DONE, with every shard still to be told. *)
LEMMA ClosesForward ==
  ASSUME ForwardInv, TInv', NEW t, NEW r, Advance(Leader, t, r), r.phase # "DONE" \/ r = mem[Leader],
         pc[Leader] # "close", Closes(Leader, t, r) => pc'[Leader] = "close",
         UNCHANGED <<forwards, ckpt>>
  PROVE  ForwardInv'
<1>1. DOMAIN mem = Peers /\ DOMAIN tell = Peers /\ Leader \in Peers
  BY RingFacts DEF ForwardInv, TInv, TypeOK
<1>2. CASE Closes(Leader, t, r)
  <2>1. pc'[Leader] = "close" /\ tell'[Leader] = Shards
    BY <1>1, <1>2 DEF Advance, Closes
  <2> QED
    BY <2>1 DEF ForwardInv, DoneMeansForwarded
<1>3. CASE ~Closes(Leader, t, r)
  <2>1. mem'[Leader] = r
    BY <1>1, <1>3 DEF Advance, Closes
  <2> QED
    BY <2>1, PhaseKept
<1> QED
  BY <1>2, <1>3

(* One shard more has been told. *)
LEMMA CloseShardForward ==
  ASSUME ForwardInv, TInv', NEW n \in Peers, NEW s \in Shards, CloseShard(n, s),
         n = Leader
  PROVE  ForwardInv'
<1>1. /\ forwards \in [Shards -> Nat] /\ DOMAIN tell = Peers
      /\ forwards' = [forwards EXCEPT ![s] = @ + 1] /\ tell'[n] = tell[n] \ {s}
      /\ UNCHANGED <<mem, ckpt, pc>> /\ pc[n] = "close"
  BY DEF CloseShard, ForwardInv, TInv, TypeOK
<1>2. forwards'[s] > 0 /\ \A k \in Shards : forwards[k] > 0 => forwards'[k] > 0
  BY <1>1
<1> QED
  BY <1>1, <1>2 DEF ForwardInv, DoneMeansForwarded

(* A step of the leader that closes nothing: its record is DONE only if it  *)
(* was, in memory or in the checkpoint.                                    *)
LEMMA LeaderForward ==
  ASSUME ForwardInv, TInv', NEW n \in Peers, n = Leader, Step(n) \/ Crash(n) \/ OtherClientFlush(n),
         ~ReportSent(n), ~HandleToken(n), \A s \in Shards : ~CloseShard(n, s)
  PROVE  ForwardInv'
<1>0. /\ mem[n] \in States(n) /\ ckpt[n] \in States(n)
      /\ DOMAIN mem = Peers /\ DOMAIN ckpt = Peers /\ DOMAIN tell = Peers
      /\ pc \in [Peers -> Labels] /\ cur \in [Peers -> Events]
  BY DEF ForwardInv, TInv, TypeOK
<1>1. forwards' = forwards
  <2>1. Crash(n) \/ OtherClientFlush(n) => forwards' = forwards
    BY DEF Crash, OtherClientFlush, outs
  <2> QED
    BY <2>1, ForwardsOnlyByClose
<1>2. CASE \/ \E m \in Input[n] : IgnoreData(n, m) \/ ApplyData(n, m)
  <2>1. pc[n] = "idle" /\ ckpt' = ckpt
    BY <1>2 DEF IgnoreData, ApplyData, Idle
  <2>2. ASSUME NEW m \in Input[n], ApplyData(n, m)
        PROVE  mem'[n].phase = mem[n].phase
    <3>1. mem'[n] = [mem[n] EXCEPT !.received = @ + 1, !.seen = @ \cup {m}, !.acc = @ \cup {m}]
      BY <1>0, <2>2 DEF ApplyData
    <3> QED
      BY <1>0, <3>1 DEF States
  <2>3. mem'[n].phase = mem[n].phase
    BY <1>2, <2>2 DEF IgnoreData
  <2> QED
    BY <1>1, <2>1, <2>3, PhaseKept
<1>3. CASE \/ \E o \in rest[n] : SendOutput(n, o)
           \/ \E s \in Shards : AbortShard(n, s)
           \/ DataApplied(n) \/ AckPending(n) \/ AckCurrent(n) \/ TakeEOF(n)
           \/ AbortSent(n) \/ Restart(n) \/ OtherClientFlush(n)
  <2>1. pc[n] # "close" /\ UNCHANGED <<mem, ckpt>>
    BY <1>3 DEF SendOutput, AbortShard, DataApplied, AckPending, AckCurrent, TakeEOF,
                AbortSent, Restart, OtherClientFlush, Idle
  <2> QED
    BY <1>1, <2>1, PhaseKept
<1>4. CASE SendTokenAck(n) \/ Closed(n)
  <2>1. UNCHANGED <<mem, ckpt>> /\ (UNCHANGED <<pc, tell>> \/ tell[n] = {})
    BY <1>4 DEF SendTokenAck, Closed, thread
  <2> QED
    BY <1>1, <2>1, PhaseKept
<1>5. CASE Save(n)
  <2>1. pc[n] = "save" /\ mem' = mem /\ ckpt'[n] = mem[n]
    BY <1>0, <1>5 DEF Save
  <2> QED
    BY <1>1, <2>1, PhaseKept
<1>6. CASE HandleEOF(n)
  <2>1. pc[n] = "handle" /\ mem'[n].phase = mem[n].phase /\ ckpt'[n].phase = mem[n].phase
    BY <1>0, <1>6 DEF HandleEOF, States
  <2> QED
    BY <1>1, <2>1, PhaseKept
<1>7. CASE Free(n)
  <2>1. pc[n] = "free" /\ mem'[n].phase = mem[n].phase /\ ckpt'[n].phase = ckpt[n].phase
    BY <1>0, <1>7 DEF Free, FreeAcc, FreeFiles, States
  <2> QED
    BY <1>1, <2>1, PhaseKept
<1>8. CASE HandleAbort(n)
  <2>1. pc[n] = "idle" /\ mem'[n].phase = "PROCESSING" /\ ckpt'[n].phase = ckpt[n].phase
    BY <1>0, <1>8 DEF HandleAbort, Idle, FreeFiles, Dropped, FreshState, States
  <2> QED
    BY <1>1, <2>1, PhaseKept
<1>9. CASE Crash(n)
  <2>1. mem'[n] = ckpt[n] /\ ckpt' = ckpt
    BY <1>0, <1>9 DEF Crash
  <2> QED
    BY <1>1, <2>1, PhaseKept
<1> QED
  BY <1>2, <1>3, <1>4, <1>5, <1>6, <1>7, <1>8, <1>9 DEF Step

(* Every step keeps the invariant when no send fails half-way. *)
LEMMA NextForward ==
  ASSUME MaxFailures = 0, ForwardInv, DurableInv, [Next]_vars
  PROVE  ForwardInv'
<1>0. /\ TInv /\ TInv' /\ Leader \in Peers /\ mem[Leader] \in States(Leader)
      /\ pc \in [Peers -> Labels] /\ cur \in [Peers -> Events]
  BY StepTyped, EnvironmentTyped, StutterTyped, RingFacts DEF Next, ForwardInv, TInv, TypeOK
<1>1. ASSUME NEW n \in Peers, Step(n) \/ Crash(n) \/ OtherClientFlush(n), n # Leader
      PROVE  ForwardInv'
  <2>1. /\ mem'[Leader] = mem[Leader] /\ ckpt'[Leader] = ckpt[Leader]
        /\ pc'[Leader] = pc[Leader] /\ tell'[Leader] = tell[Leader]
    BY <1>0, <1>1, StepIsLocal DEF Untouched
  <2>2. forwards' = forwards
    <3>1. \A s \in Shards : ~CloseShard(n, s)
      BY <1>1 DEF CloseShard, DurableInv, TombstoneDurable
    <3>2. Crash(n) \/ OtherClientFlush(n) => forwards' = forwards
      BY DEF Crash, OtherClientFlush, outs
    <3> QED
      BY <1>1, <3>1, <3>2, ForwardsOnlyByClose
  <2> QED
    BY <1>0, <2>1, <2>2, PhaseKept
<1>2. ASSUME ReportSent(Leader)
      PROVE  ForwardInv'
  <2> DEFINE c == CountByShard(Out(Leader, mem[Leader].acc))
             r == [mem[Leader] EXCEPT !.sent = c, !.phase = "EMITTED",
                                      !.acc = IF Kind = "stateless" THEN {} ELSE @]
             t == [NewToken EXCEPT ![Leader] = c]
  <2>1. /\ Advance(Leader, t, r) /\ pc[Leader] = "emit" /\ UNCHANGED <<forwards, ckpt>>
        /\ Closes(Leader, t, r) => pc'[Leader] = "close"
    BY <1>0, <1>2 DEF ReportSent, Goto, Enter, outs
  <2>2. r.phase = "EMITTED"
    BY <1>0 DEF States
  <2> HIDE DEF r, t
  <2> QED
    BY <1>0, <2>1, <2>2, ClosesForward
<1>3. ASSUME HandleToken(Leader)
      PROVE  ForwardInv'
  <2> DEFINE t == Stamped(Leader, Head(ring[Leader]))
  <2>1. pc[Leader] = "idle" /\ UNCHANGED <<forwards, ckpt>>
    BY <1>3 DEF HandleToken, Idle, outs
  <2>2. \/ mem' = mem
        \/ /\ Advance(Leader, t, mem[Leader])
           /\ Closes(Leader, t, mem[Leader]) => pc'[Leader] = "close"
    BY <1>0, <1>3 DEF HandleToken, Enter
  <2> HIDE DEF t
  <2> QED
    BY <1>0, <2>1, <2>2, ClosesForward, PhaseKept
<1>4. ASSUME UpstreamAbort \/ (\E n \in Peers : \E m \in Upstream(n) : Redeliver(n, m))
             \/ UNCHANGED vars
      PROVE  ForwardInv'
  <2>1. UNCHANGED <<mem, ckpt, pc, tell, forwards>>
    BY <1>4 DEF UpstreamAbort, Redeliver, outs, thread, vars
  <2> QED
    BY <1>0, <2>1, PhaseKept
<1>5. ~ \E n \in Peers : TokenFails(n)
  BY <1>0 DEF TokenFails, TInv, TypeOK
<1> QED
  BY <1>0, <1>1, <1>2, <1>3, <1>4, <1>5, LeaderForward, CloseShardForward DEF Next, Environment

(***************************************************************************)
(* A leader whose checkpoint says DONE has announced the barrier to every  *)
(* downstream shard: the crash that follows cannot leave a shard of the    *)
(* next stage waiting (_downstream_eof before _checkpoint_and_flush).  It  *)
(* needs MaxFailures = 0: RingTokenRetry.cfg shows the send that raises    *)
(* after DONE was set.                                                     *)
(***************************************************************************)
THEOREM DoneForwarded ==
  ASSUME MaxFailures = 0
  PROVE  Spec => []DoneMeansForwarded
<1>1. Init => ForwardInv
  BY InitTyped, RingFacts DEF Init, ForwardInv, DoneMeansForwarded, FreshState
<1>2. ForwardInv => DoneMeansForwarded
  BY DEF ForwardInv
<1> QED
  BY InitDurable, NextDurable, NextForward, <1>1, <1>2, PTL DEF Spec

-----------------------------------------------------------------------------
(***************************************************************************)
(* The barrier is exact, for every ring size, input and output and any     *)
(* number of crashes, resends and aborts: an EOF is announced downstream   *)
(* only once every output of every peer was sent, and carries their        *)
(* number.  Two assumptions are needed: the accumulation is in the         *)
(* checkpoint (Kind # "spilled"; RingSpilledFree.cfg shows why), and no    *)
(* send fails while a token is handled (MaxFailures = 0).                  *)
(***************************************************************************)


(* A larger set of sent outputs spoils neither a record nor a token. *)
LEMMA Monotone ==
  ASSUME NEW D, NEW E, D \subseteq E
  PROVE  /\ \A n, r : RecordOK(n, r, D) => RecordOK(n, r, E)
         /\ \A n, r : SentAsApplied(n, r, D) => SentAsApplied(n, r, E)
         /\ \A t : TruthfulToken(t, D) => TruthfulToken(t, E)
BY DEF RecordOK, SentAsApplied, TruthfulToken

(* A node whose state does not change stays correct while others send. *)
LEMMA OtherNode ==
  ASSUME NEW p \in Peers, NodeOK(p), down \subseteq down',
         mem'[p] = mem[p], ckpt'[p] = ckpt[p], pc'[p] = pc[p],
         rest'[p] = rest[p], closing'[p] = closing[p]
  PROVE  NodeOK(p)'
<1>1. /\ RecordOK(p, mem[p], down') /\ RecordOK(p, ckpt[p], down')
      /\ SentAsApplied(p, mem[p], down' \cup rest[p]) /\ SentAsApplied(p, ckpt[p], down')
  <2>1. down \cup rest[p] \subseteq down' \cup rest[p]
    OBVIOUS
  <2> QED
    BY <2>1, Monotone DEF NodeOK
<1>2. ThreadOK(p)'
  BY DEF NodeOK, ThreadOK
<1> QED
  BY <1>1, <1>2 DEF NodeOK

(* The counters reach the announced total only when the whole input shard *)
(* was applied, so a complete node has accumulated all of it.             *)
LEMMA CompleteMeansWhole ==
  ASSUME NEW n \in Peers, NEW D, NEW r \in States(n), RecordOK(n, r, D), Complete(r)
  PROVE  r.seen = Input[n] /\ r.acc = Input[n] /\ ~r.aborted /\ r.phase = "PROCESSING"
<1>1. IsFiniteSet(Input[n]) /\ Cardinality(Input[n]) \in Nat
  BY InputAssumption, FS_CardinalityType
<1>2. /\ r.seen \in SUBSET Input[n]
      /\ IsFiniteSet(r.seen) /\ Cardinality(r.seen) \in Nat
      /\ Cardinality(r.seen) <= Cardinality(Input[n])
      /\ Cardinality(r.seen) = Cardinality(Input[n]) => r.seen = Input[n]
  <2>1. r.seen \in SUBSET Input[n]
    BY DEF States
  <2> QED
    BY <1>1, <2>1, FS_Subset, FS_CardinalityType
<1>3. ~r.aborted /\ r.phase = "PROCESSING"
  BY DEF RecordOK, Complete
<1>4. r.expected = Cardinality(Input[n]) /\ r.received = Cardinality(r.seen)
      /\ r.acc = r.seen
  BY <1>3 DEF RecordOK, Complete
<1>5. Cardinality(r.seen) >= Cardinality(Input[n])
  BY <1>4 DEF Complete
<1> QED
  BY <1>1, <1>2, <1>3, <1>4, <1>5

(* What a stateless controller sends for a part of its input. *)
LEMMA StatelessOut ==
  ASSUME Kind = "stateless", NEW n \in Peers, NEW A \in SUBSET Input[n], NEW m \in Input[n]
  PROVE  /\ Out(n, A \cup {m}) = Out(n, A) \cup Route(m)
         /\ Route(m) \subseteq StageOutput(n)
BY DEF Out, StageOutput

(* When an emission starts, what is still to be sent and what was sent make *)
(* up the whole output of the node.                                        *)
LEMMA EmissionStart ==
  ASSUME NEW n \in Peers, NEW D, NEW r \in States(n), Complete(r),
         RecordOK(n, r, D), SentAsApplied(n, r, D)
  PROVE  /\ EmitOutputs(n, r) \subseteq StageOutput(n)
         /\ StageOutput(n) \subseteq D \cup EmitOutputs(n, r)
         /\ SentAsApplied(n, r, D \cup EmitOutputs(n, r))
<1>1. r.seen = Input[n] /\ r.acc = Input[n]
  BY CompleteMeansWhole
<1> QED
  BY <1>1 DEF EmitOutputs, StageOutput, SentAsApplied

(* Parts of the invariant that a step of n keeps when it leaves their       *)
(* variables alone.                                                        *)
LEMMA EofsKept ==
  ASSUME EofIsExact, down \subseteq down', eofs' = eofs
  PROVE  EofIsExact'
BY DEF EofIsExact

(* Tokens stay truthful while the ring is not touched and outputs only grow. *)
LEMMA TokensKept ==
  ASSUME TokensTruthful, down \subseteq down', ring' = ring, Settled => Settled'
  PROVE  TokensTruthful'
<1> SUFFICES ASSUME ~Settled', NEW p \in Peers, NEW i \in 1 .. Len(ring[p])
             PROVE  TruthfulToken(ring[p][i], down')
  BY DEF TokensTruthful
<1>1. TruthfulToken(ring[p][i], down)
  BY DEF TokensTruthful
<1> QED
  BY <1>1, Monotone

(* The leader's part holds on while its record, checkpoint and place do. *)
LEMMA LeaderKept ==
  ASSUME LeaderOK, down \subseteq down',
         mem'[Leader] = mem[Leader], ckpt'[Leader] = ckpt[Leader],
         pc'[Leader] = pc[Leader], cur'[Leader] = cur[Leader],
         closing'[Leader] = closing[Leader]
  PROVE  LeaderOK'
<1>1. Settled' <=> Settled
  BY DEF Settled
<1>2. TruthfulToken(closing[Leader], down) => TruthfulToken(closing[Leader], down')
  BY Monotone
<1> QED
  BY <1>1, <1>2 DEF LeaderOK

(* The state of every node but n is as it was. *)
OthersSame(n) ==
  \A p \in Peers : p # n =>
    /\ mem'[p] = mem[p] /\ ckpt'[p] = ckpt[p] /\ pc'[p] = pc[p] /\ cur'[p] = cur[p]
    /\ rest'[p] = rest[p] /\ closing'[p] = closing[p]

(* A step of n keeps the invariant if it keeps what n can disturb. *)
LEMMA StepOfNode ==
  ASSUME IInv, TInv', NEW n \in Peers, OthersSame(n), down \subseteq down',
         NodeOK(n)', TokensTruthful', n = Leader => LeaderOK',
         EofIsExact', OnlyWholeResults'
  PROVE  IInv'
<1>1. \A p \in Peers : NodeOK(p)'
  BY OtherNode DEF IInv, OthersSame
<1>2. LeaderOK'
  <2>1. CASE n = Leader
    BY <2>1
  <2>2. CASE n # Leader
    BY <2>2, RingFacts, LeaderKept DEF IInv, OthersSame
  <2> QED
    BY <2>1, <2>2
<1> QED
  BY <1>1, <1>2 DEF IInv

(* A step that only moves n's thread: to a place where nothing is sent, and *)
(* not away from a barrier that is closed but not yet saved.               *)
LEMMA ControlStep ==
  ASSUME IInv, TInv', NEW n \in Peers, OthersSame(n),
         UNCHANGED <<ring, down, eofs, mem, ckpt>>,
         rest[n] = {}, rest'[n] = {},
         pc'[n] \notin {"apply", "emit", "close"},
         pc[n] \in {"close", "save"} /\ cur[n] = "token"
           => pc'[n] = "save" /\ cur'[n] = "token"
  PROVE  IInv'
<1>1. NodeOK(n)'
  <2>1. ThreadOK(n)'
    BY DEF ThreadOK
  <2> QED
    BY <2>1 DEF IInv, NodeOK
<1>2. Settled' <=> Settled
  BY DEF Settled
<1>3. TokensTruthful' /\ EofIsExact' /\ OnlyWholeResults'
  BY <1>2, TokensKept, EofsKept DEF IInv, OnlyWholeResults
<1>4. n = Leader => LeaderOK'
  BY <1>2 DEF IInv, LeaderOK
<1> QED
  BY <1>1, <1>3, <1>4, StepOfNode

(* A node with nothing left to send has sent all that it applied. *)
LEMMA NothingToSend ==
  ASSUME IInv, NEW n \in Peers, rest[n] = {}
  PROVE  /\ mem[n] \in States(n) /\ ckpt[n] \in States(n)
         /\ RecordOK(n, mem[n], down) /\ RecordOK(n, ckpt[n], down)
         /\ SentAsApplied(n, mem[n], down) /\ SentAsApplied(n, ckpt[n], down)
<1>1. down \cup rest[n] = down
  OBVIOUS
<1> QED
  BY <1>1 DEF IInv, TInv, TypeOK, NodeOK

(* A step that changes nothing the invariant is about but queue counts. *)
LEMMA QueueStep ==
  ASSUME IInv, TInv', UNCHANGED <<ring, down, eofs, mem, ckpt, pc, cur, rest, closing>>
  PROVE  IInv'
<1>1. \A p \in Peers : NodeOK(p)'
  BY OtherNode DEF IInv
<1>2. TokensTruthful' /\ EofIsExact' /\ OnlyWholeResults' /\ LeaderOK'
  BY TokensKept, EofsKept, LeaderKept DEF IInv, Settled, OnlyWholeResults
<1> QED
  BY <1>1, <1>2 DEF IInv

-----------------------------------------------------------------------------
(* Data *)

(* Applying a message adds it to the table and to the accumulation together. *)
LEMMA ApplyDataExact ==
  ASSUME IInv, TInv', NEW n \in Peers, NEW m \in Input[n], ApplyData(n, m)
  PROVE  IInv'
<1> DEFINE r == mem[n]
<1>1. /\ r \in States(n) /\ rest[n] = {} /\ ~r.aborted /\ m \notin r.seen
      /\ DOMAIN mem = Peers /\ DOMAIN rest = Peers /\ DOMAIN pc = Peers /\ DOMAIN cur = Peers
      /\ RecordOK(n, r, down) /\ SentAsApplied(n, r, down \cup rest[n])
  BY DEF IInv, TInv, TypeOK, NodeOK, ThreadOK, ApplyData, Idle
<1>2. /\ OthersSame(n) /\ UNCHANGED <<ring, down, eofs, ckpt, closing>>
      /\ pc'[n] = "apply" /\ cur'[n] = "data" /\ pc[n] = "idle"
      /\ rest'[n] = IF Kind = "stateless" THEN Route(m) ELSE {}
      /\ mem'[n] = [r EXCEPT !.received = r.received + 1, !.seen = r.seen \cup {m},
                             !.acc = r.acc \cup {m}]
  BY <1>1 DEF ApplyData, Enter, OthersSame, queues, outs, Idle, States
<1>3. IsFiniteSet(Input[n]) /\ r.seen \in SUBSET Input[n]
  BY <1>1, InputAssumption DEF States
<1>4. Cardinality(r.seen \cup {m}) = Cardinality(r.seen) + 1
  BY <1>1, <1>3, FS_Subset, FS_AddElement
<1>5. RecordOK(n, mem'[n], down)
  BY <1>1, <1>2, <1>3, <1>4 DEF RecordOK, States
<1>6. SentAsApplied(n, mem'[n], down \cup rest'[n])
  BY <1>1, <1>2, <1>3, StatelessOut DEF SentAsApplied, States
<1>7. ThreadOK(n)'
  BY <1>2, StatelessOut DEF ThreadOK
<1>8. NodeOK(n)'
  BY <1>2, <1>5, <1>6, <1>7 DEF IInv, NodeOK
<1>9. n = Leader => LeaderOK'
  BY <1>1, <1>2 DEF IInv, LeaderOK, Settled, States
<1> QED
  BY <1>2, <1>8, <1>9, StepOfNode, TokensKept, EofsKept DEF IInv, Settled, OnlyWholeResults

(* An output sent is one of the node's whole result. *)
LEMMA SendOutputExact ==
  ASSUME IInv, TInv', NEW n \in Peers, NEW o \in rest[n], SendOutput(n, o)
  PROVE  IInv'
<1>1. /\ OthersSame(n) /\ UNCHANGED <<ring, eofs, mem, ckpt, closing, pc, cur>>
      /\ down' = down \cup {o} /\ rest'[n] = rest[n] \ {o} /\ pc[n] \in {"apply", "emit"}
      /\ down \subseteq down' /\ down' \cup rest'[n] = down \cup rest[n]
  BY DEF IInv, TInv, TypeOK, SendOutput, OthersSame, queues
<1>2. o \in StageOutput(n)
  BY DEF IInv, NodeOK, ThreadOK
<1>3. NodeOK(n)'
  <2>1. ThreadOK(n)'
    BY <1>1 DEF IInv, NodeOK, ThreadOK
  <2>2. RecordOK(n, mem[n], down') /\ RecordOK(n, ckpt[n], down')
        /\ SentAsApplied(n, mem[n], down' \cup rest'[n]) /\ SentAsApplied(n, ckpt[n], down')
    BY <1>1, Monotone DEF IInv, NodeOK
  <2> QED
    BY <1>1, <2>1, <2>2 DEF NodeOK
<1>4. OnlyWholeResults'
  BY <1>1, <1>2 DEF IInv, OnlyWholeResults, StageOutputs
<1>5. n = Leader => LeaderOK'
  BY <1>1, LeaderKept DEF IInv
<1> QED
  BY <1>1, <1>3, <1>4, <1>5, StepOfNode, TokensKept, EofsKept DEF IInv, Settled

(* The received count follows the table, and may complete the shard. *)
LEMMA DataAppliedExact ==
  ASSUME IInv, TInv', NEW n \in Peers, DataApplied(n)
  PROVE  IInv'
<1>1. /\ OthersSame(n) /\ UNCHANGED <<ring, down, eofs, mem, ckpt, closing>>
      /\ rest[n] = {} /\ pc[n] = "apply"
  BY DEF IInv, TInv, TypeOK, DataApplied, Goto, Enter, OthersSame, queues, outs
<1>2. CASE Complete(mem[n])
  <2>1. pc'[n] = "emit" /\ rest'[n] = EmitOutputs(n, mem[n])
    BY <1>2 DEF IInv, TInv, TypeOK, DataApplied, Goto, Enter
  <2>2. NodeOK(n)'
    BY <1>1, <1>2, <2>1, NothingToSend, EmissionStart DEF NodeOK, ThreadOK
  <2>3. n = Leader => LeaderOK'
    BY <1>1, <1>2, <2>1 DEF IInv, LeaderOK, Settled, Complete
  <2> QED
    BY <1>1, <2>2, <2>3, StepOfNode, TokensKept, EofsKept DEF IInv, Settled, OnlyWholeResults
<1>3. CASE ~Complete(mem[n])
  <2>1. pc'[n] \in {"save", "idle", "free"} /\ rest'[n] = {}
    BY <1>3 DEF IInv, TInv, TypeOK, DataApplied, Goto, Enter, AfterRun
  <2> QED
    BY <1>1, <2>1, ControlStep
<1> QED
  BY <1>2, <1>3

-----------------------------------------------------------------------------
(* The token *)

(* Forwarding a truthful token keeps every token truthful. *)
LEMMA ForwardTruthful ==
  ASSUME IInv, NEW n \in Peers, NEW t \in Tokens, ~Settled => TruthfulToken(t, down),
         ring' = [ring EXCEPT ![Front(n)] = Append(@, t)],
         down' = down, ckpt' = ckpt
  PROVE  TokensTruthful'
<1> DEFINE f == Front(n)
<1>1. f \in Peers /\ ring[f] \in Seq(Tokens) /\ DOMAIN ring = Peers
  BY RingFacts DEF IInv, TInv, TypeOK
<1>2. /\ Len(Append(ring[f], t)) = Len(ring[f]) + 1 /\ Len(ring[f]) \in Nat
      /\ \A i \in 1 .. Len(ring[f]) : Append(ring[f], t)[i] = ring[f][i]
      /\ Append(ring[f], t)[Len(ring[f]) + 1] = t
  BY <1>1, QueueFacts
<1> SUFFICES ASSUME ~Settled, NEW p \in Peers, NEW i \in 1 .. Len(ring'[p])
             PROVE  TruthfulToken(ring'[p][i], down)
  BY DEF TokensTruthful, Settled
<1>3. CASE p # f
  BY <1>1, <1>3 DEF IInv, TokensTruthful
<1>4. CASE p = f
  <2>1. ring'[p] = Append(ring[f], t)
    BY <1>1, <1>4
  <2>2. i \in 1 .. Len(ring[f]) \/ i = Len(ring[f]) + 1
    BY <2>1, <1>2
  <2> QED
    BY <1>1, <1>2, <2>1, <2>2 DEF IInv, TokensTruthful
<1> QED
  BY <1>3, <1>4

(* _advance on a truthful token, by a node with a correct record r. *)
LEMMA AdvanceExact ==
  ASSUME IInv, TInv', NEW n \in Peers, NEW t \in Tokens, NEW r \in States(n),
         Advance(n, t, r), ~r.aborted,
         ~Settled => TruthfulToken(t, down),
         RecordOK(n, r, down), SentAsApplied(n, r, down),
         UNCHANGED <<down, eofs, ckpt, rest>>, rest[n] = {},
         \A p \in Peers : p # n => pc'[p] = pc[p] /\ cur'[p] = cur[p],
         Closes(n, t, r) => pc'[n] = "close",
         ~Closes(n, t, r) => pc'[n] \in {"save", "idle", "free"},
         \/ cur'[n] = "token" /\ pc'[n] \in {"close", "save"}
         \/ r.sent = CountByShard(StageOutput(n)) /\ StageOutput(n) \subseteq down,
         n = Leader /\ Settled => r.phase = "DONE"
  PROVE  IInv'
<1>0. /\ DOMAIN mem = Peers /\ DOMAIN closing = Peers /\ (Settled' <=> Settled)
  BY DEF IInv, TInv, TypeOK, Settled
<1>1. CASE ~Closes(n, t, r)
  <2>1. /\ mem' = [mem EXCEPT ![n] = r] /\ UNCHANGED closing
        /\ \/ ring' = ring
           \/ ring' = [ring EXCEPT ![Front(n)] = Append(@, t)]
    BY <1>1 DEF Advance, Closes
  <2>2. OthersSame(n) /\ mem'[n] = r /\ pc'[n] \in {"save", "idle", "free"}
    BY <1>0, <1>1, <2>1 DEF OthersSame
  <2>3. NodeOK(n)'
    <3>1. down \cup rest[n] = down
      OBVIOUS
    <3> QED
      BY <2>2, <3>1, NothingToSend DEF NodeOK, ThreadOK
  <2>4. TokensTruthful'
    BY <2>1, <1>0, ForwardTruthful, TokensKept DEF IInv
  <2>5. n = Leader => LeaderOK'
    BY <2>2, <1>0 DEF LeaderOK
  <2> QED
    BY <2>2, <2>3, <2>4, <2>5, StepOfNode, EofsKept DEF IInv, OnlyWholeResults
<1>2. CASE Closes(n, t, r)
  <2>1. /\ mem' = [mem EXCEPT ![n] = [r EXCEPT !.phase = "DONE"]]
        /\ closing' = [closing EXCEPT ![n] = t] /\ UNCHANGED ring
        /\ n = Leader /\ Collected(t) /\ r.phase # "DONE" /\ pc'[n] = "close"
    BY <1>2 DEF Advance, Closes
  <2>2. OthersSame(n) /\ mem'[n] = [r EXCEPT !.phase = "DONE"] /\ closing'[n] = t
    BY <1>0, <2>1 DEF OthersSame
  <2>3. ~Settled /\ TruthfulToken(t, down)
    BY <2>1
  <2>4. RecordOK(n, mem'[n], down) /\ SentAsApplied(n, mem'[n], down)
    BY <2>1, <2>2 DEF RecordOK, SentAsApplied, States
  <2>5. NodeOK(n)'
    <3>1. down \cup rest[n] = down
      OBVIOUS
    <3> QED
      BY <2>1, <2>2, <2>4, <3>1, NothingToSend DEF NodeOK, ThreadOK
  <2>6. LeaderOK'
    BY <2>1, <2>2, <2>3, <1>0 DEF LeaderOK, States
  <2> QED
    BY <2>1, <2>2, <2>5, <2>6, <1>0, StepOfNode, TokensKept, EofsKept
       DEF IInv, OnlyWholeResults
<1> QED
  BY <1>1, <1>2

(* A node that has sent everything reports it, and the leader starts a token. *)
LEMMA ReportSentExact ==
  ASSUME IInv, TInv', NEW n \in Peers, ReportSent(n)
  PROVE  IInv'
<1> DEFINE c == CountByShard(Out(n, mem[n].acc))
           r == [mem[n] EXCEPT !.sent = c, !.phase = "EMITTED",
                               !.acc = IF Kind = "stateless" THEN {} ELSE @]
           t == [NewToken EXCEPT ![n] = c]
<1>1. /\ pc[n] = "emit" /\ rest[n] = {} /\ Complete(mem[n]) /\ StageOutput(n) \subseteq down
      /\ UNCHANGED <<down, eofs, ckpt, rest>>
  BY DEF IInv, NodeOK, ThreadOK, ReportSent, outs
<1>2. /\ mem[n] \in States(n) /\ mem[n].seen = Input[n] /\ mem[n].acc = Input[n]
      /\ ~mem[n].aborted /\ mem[n].phase = "PROCESSING"
      /\ RecordOK(n, mem[n], down) /\ SentAsApplied(n, mem[n], down)
  BY <1>1, NothingToSend, CompleteMeansWhole
<1>3. c = CountByShard(StageOutput(n)) /\ c \in Counts
  BY <1>2, CountsType DEF StageOutput, States
<1>4. r \in States(n) /\ t \in Tokens /\ ~r.aborted /\ r.phase = "EMITTED" /\ r.sent = c
  BY <1>2, <1>3 DEF States, Phases, Tokens, NewToken
<1>5. RecordOK(n, r, down) /\ SentAsApplied(n, r, down)
  BY <1>1, <1>2, <1>3 DEF RecordOK, SentAsApplied, States
<1>6. TruthfulToken(t, down)
  BY <1>1, <1>3 DEF TruthfulToken, NewToken
<1>7. \A p \in Peers : p # n => pc'[p] = pc[p] /\ cur'[p] = cur[p]
  BY DEF ReportSent, Goto, Enter, IInv, TInv, TypeOK
<1>8. CASE n # Leader
  <2>1. mem' = [mem EXCEPT ![n] = r] /\ UNCHANGED <<ring, closing>> /\ Goto(n, AfterRun(n))
    BY <1>8 DEF ReportSent
  <2>2. OthersSame(n) /\ mem'[n] = r /\ pc'[n] \in {"save", "idle", "free"}
    BY <1>1, <1>7, <2>1 DEF OthersSame, Goto, Enter, AfterRun, IInv, TInv, TypeOK
  <2>3. NodeOK(n)'
    <3>1. down \cup rest[n] = down
      BY <1>1
    <3> QED
      BY <2>2, <3>1, <1>1, <1>5, NothingToSend DEF NodeOK, ThreadOK
  <2> QED
    BY <1>1, <1>8, <2>1, <2>2, <2>3, StepOfNode, TokensKept, EofsKept
       DEF IInv, Settled, OnlyWholeResults
<1>9. CASE n = Leader
  <2>1. Advance(n, t, r) /\ Goto(n, IF Closes(n, t, r) THEN "close" ELSE AfterRun(n))
    BY <1>9 DEF ReportSent
  <2>2. ~Settled
    BY <1>2, <1>9 DEF IInv, LeaderOK
  <2>3. /\ Closes(n, t, r) => pc'[n] = "close"
        /\ ~Closes(n, t, r) => pc'[n] \in {"save", "idle", "free"}
    BY <2>1 DEF Goto, Enter, AfterRun, IInv, TInv, TypeOK
  <2> HIDE DEF c, r, t
  <2> QED
    BY <1>1, <1>3, <1>4, <1>5, <1>6, <1>7, <2>1, <2>2, <2>3, AdvanceExact
<1> QED
  BY <1>8, <1>9

(* A token is stamped with what the node has really emitted. *)
LEMMA HandleTokenExact ==
  ASSUME IInv, TInv', NEW n \in Peers, HandleToken(n)
  PROVE  IInv'
<1> DEFINE h == Head(ring[n])
           t == Stamped(n, h)
<1>1. /\ pc[n] = "idle" /\ rest[n] = {} /\ ring[n] # <<>> /\ ring[n] \in Seq(Tokens)
      /\ UNCHANGED <<down, eofs, ckpt, rest>>
      /\ pc'[n] \in {"close", "save"} /\ cur'[n] = "token"
      /\ \A p \in Peers : p # n => pc'[p] = pc[p] /\ cur'[p] = cur[p]
  <2>1. /\ pc[n] = "idle" /\ ring[n] # <<>> /\ UNCHANGED <<down, eofs, ckpt, rest>>
        /\ \E l \in {"close", "save"} : Enter(n, l, "token")
    BY DEF HandleToken, Idle, outs
  <2>2. rest[n] = {} /\ ring[n] \in Seq(Tokens)
    BY <2>1 DEF IInv, NodeOK, ThreadOK, TInv, TypeOK
  <2> QED
    BY <2>1, <2>2 DEF Enter, IInv, TInv, TypeOK
<1>2. CASE mem[n].aborted
  <2>1. UNCHANGED <<ring, mem, closing>> /\ pc'[n] = "save"
    BY <1>2 DEF HandleToken, Enter, IInv, TInv, TypeOK
  <2> QED
    BY <1>1, <2>1, ControlStep DEF OthersSame
<1>3. CASE ~mem[n].aborted
  <2>1. /\ Advance(n, t, mem[n])
        /\ Closes(n, t, mem[n]) => pc'[n] = "close"
        /\ ~Closes(n, t, mem[n]) => pc'[n] = "save"
    BY <1>3 DEF HandleToken, Enter, IInv, TInv, TypeOK
  <2>2. h \in Tokens /\ h = ring[n][1] /\ 1 \in 1 .. Len(ring[n])
    BY <1>1
  <2>3. mem[n].sent \in Counts /\ mem[n].phase \in Phases
    BY <1>1, NothingToSend DEF States
  <2>4. t \in Tokens
    BY <2>2, <2>3 DEF Stamped, Tokens
  <2>5. ASSUME ~Settled PROVE TruthfulToken(t, down)
    <3>1. TruthfulToken(h, down)
      BY <2>2, <2>5 DEF IInv, TokensTruthful
    <3>2. mem[n].phase # "PROCESSING" =>
            mem[n].sent = CountByShard(StageOutput(n)) /\ StageOutput(n) \subseteq down
      BY <1>1, <2>3, <2>5, NothingToSend DEF RecordOK, IInv, LeaderOK, Phases
    <3>3. CASE mem[n].phase = "PROCESSING"
      BY <3>1, <3>3 DEF Stamped
    <3>4. CASE mem[n].phase # "PROCESSING"
      BY <2>2, <3>1, <3>2, <3>4 DEF Stamped, TruthfulToken, Tokens
    <3> QED
      BY <3>3, <3>4
  <2>6. n = Leader /\ Settled => mem[n].phase = "DONE"
    BY <1>3 DEF IInv, LeaderOK
  <2> HIDE DEF t
  <2> QED
    BY <1>1, <1>3, <2>1, <2>4, <2>5, <2>6, NothingToSend, AdvanceExact
<1> QED
  BY <1>2, <1>3

(* A collected token announces the number of outputs that were sent. *)
LEMMA CloseShardExact ==
  ASSUME IInv, TInv', NEW n \in Peers, NEW s \in Shards, CloseShard(n, s)
  PROVE  IInv'
<1>1. /\ UNCHANGED <<ring, down, mem, ckpt, pc, cur, rest, closing>> /\ pc[n] = "close"
      /\ eofs' = [eofs EXCEPT ![s] = @ \cup {TokenTotal(closing[n], s)}]
  BY DEF CloseShard, queues
<1>2. n = Leader /\ Collected(closing[n]) /\ TruthfulToken(closing[n], down)
      /\ closing[n] \in Tokens
  BY <1>1 DEF IInv, NodeOK, ThreadOK, LeaderOK, TInv, TypeOK
<1>3. /\ closing[n] = FullToken
      /\ \A p \in Peers : StageOutput(p) \subseteq down
  BY <1>2 DEF TruthfulToken, Collected, FullToken, Tokens
<1>4. EofIsExact'
  BY <1>1, <1>3 DEF IInv, TInv, TypeOK, EofIsExact, StageTotal
<1> QED
  BY <1>1, <1>2, <1>4, StepOfNode, TokensKept, LeaderKept
     DEF IInv, NodeOK, ThreadOK, OthersSame, Settled, OnlyWholeResults

-----------------------------------------------------------------------------
(* Checkpoint *)

(* What n saves is a correct record, and a settled barrier stays settled. *)
LEMMA SaveExact ==
  ASSUME IInv, TInv', NEW n \in Peers, Save(n)
  PROVE  IInv'
<1>1. /\ pc[n] = "save" /\ rest[n] = {} /\ pc'[n] = "ack" /\ ckpt'[n] = mem[n]
      /\ OthersSame(n) /\ UNCHANGED <<ring, down, eofs, mem, rest, closing>>
  BY DEF Save, Goto, Enter, IInv, NodeOK, ThreadOK, TInv, TypeOK, OthersSame, queues, outs
<1>2. NodeOK(n)'
  <2>1. down \cup rest[n] = down
    BY <1>1
  <2> QED
    BY <1>1, <2>1, NothingToSend DEF NodeOK, ThreadOK
<1>3. Settled => Settled'
  BY <1>1, RingFacts DEF IInv, LeaderOK, Settled, OthersSame
<1>4. n = Leader => LeaderOK'
  BY <1>1 DEF LeaderOK, Settled
<1> QED
  BY <1>1, <1>2, <1>3, <1>4, StepOfNode, TokensKept, EofsKept DEF IInv, OnlyWholeResults

(* Freeing after the emission drops nothing that is still to be sent. *)
LEMMA FreeExact ==
  ASSUME IInv, TInv', NEW n \in Peers, Free(n), Kind # "spilled"
  PROVE  IInv'
<1>1. /\ pc[n] = "free" /\ rest[n] = {} /\ pc'[n] \in {"save", "done"}
      /\ OthersSame(n) /\ UNCHANGED <<ring, down, eofs, ckpt, rest, closing>>
  BY DEF Free, FreeAcc, FreeFiles, Goto, Enter, IInv, NodeOK, ThreadOK, TInv, TypeOK,
         OthersSame, queues, outs
<1>2. CASE mem[n].phase = "PROCESSING"
  BY <1>1, <1>2, ControlStep DEF Free
<1>3. CASE mem[n].phase # "PROCESSING"
  <2>1. mem'[n] = [mem[n] EXCEPT !.acc = {}]
    BY <1>3 DEF Free, FreeAcc, IInv, TInv, TypeOK
  <2>2. RecordOK(n, mem'[n], down) /\ SentAsApplied(n, mem'[n], down)
    BY <1>1, <1>3, <2>1, NothingToSend DEF RecordOK, SentAsApplied, States
  <2>3. NodeOK(n)'
    <3>1. down \cup rest[n] = down
      BY <1>1
    <3> QED
      BY <1>1, <2>2, <3>1, NothingToSend DEF NodeOK, ThreadOK
  <2>4. n = Leader => LeaderOK'
    BY <1>1, <2>1, NothingToSend DEF IInv, LeaderOK, Settled, States
  <2> QED
    BY <1>1, <2>3, <2>4, StepOfNode, TokensKept, EofsKept DEF IInv, Settled, OnlyWholeResults
<1> QED
  BY <1>2, <1>3

(* The EOF's total is saved before anything is emitted. *)
LEMMA HandleEOFExact ==
  ASSUME IInv, TInv', NEW n \in Peers, HandleEOF(n)
  PROVE  IInv'
<1> DEFINE r == IF mem[n].aborted THEN mem[n]
                ELSE [mem[n] EXCEPT !.expected = Cardinality(Input[n])]
<1>1. /\ pc[n] = "handle" /\ rest[n] = {} /\ mem'[n] = r /\ ckpt'[n] = r
      /\ pc'[n] = IF Complete(r) THEN "emit" ELSE "done"
      /\ rest'[n] = IF Complete(r) THEN EmitOutputs(n, r) ELSE {}
      /\ OthersSame(n) /\ UNCHANGED <<ring, down, eofs, closing>>
  BY DEF HandleEOF, Enter, IInv, NodeOK, ThreadOK, TInv, TypeOK, OthersSame, queues, outs
<1>2. r \in States(n) /\ r.phase = mem[n].phase /\ r.aborted = mem[n].aborted
      /\ r.sent = mem[n].sent
  BY <1>1, NothingToSend, EofType DEF States
<1>3. RecordOK(n, r, down) /\ SentAsApplied(n, r, down)
  <2>1. CASE mem[n].aborted
    BY <1>1, <2>1, NothingToSend
  <2>2. CASE ~mem[n].aborted
    BY <1>1, <2>2, NothingToSend DEF RecordOK, SentAsApplied, States
  <2> QED
    BY <2>1, <2>2
<1> HIDE DEF r
<1>4. NodeOK(n)'
  <2>1. down \cup {} = down
    OBVIOUS
  <2>2. CASE Complete(r)
    BY <1>1, <1>2, <1>3, <2>2, EmissionStart DEF NodeOK, ThreadOK
  <2>3. CASE ~Complete(r)
    BY <1>1, <1>3, <2>1, <2>3 DEF NodeOK, ThreadOK
  <2> QED
    BY <2>2, <2>3
<1>5. Settled => Settled'
  BY <1>1, <1>2, RingFacts DEF IInv, LeaderOK, Settled, OthersSame
<1>6. n = Leader => LeaderOK'
  BY <1>1 DEF LeaderOK, Settled
<1> QED
  BY <1>1, <1>4, <1>5, <1>6, StepOfNode, TokensKept, EofsKept DEF IInv, OnlyWholeResults

(* An acked token leaves the ring; the other tokens stay as they were. *)
LEMMA SendTokenAckExact ==
  ASSUME IInv, TInv', NEW n \in Peers, SendTokenAck(n)
  PROVE  IInv'
<1>1. /\ UNCHANGED <<down, eofs, mem, ckpt, pc, cur, rest, closing>>
      /\ ring' = [ring EXCEPT ![n] = Tail(ring[n])]
  BY DEF SendTokenAck, outs, thread
<1>2. TokensTruthful'
  <2>1. ring[n] # <<>> /\ ring[n] \in Seq(Tokens) /\ DOMAIN ring = Peers
    BY DEF SendTokenAck, IInv, TInv, TypeOK, QueueOK
  <2>2. /\ Len(Tail(ring[n])) = Len(ring[n]) - 1 /\ Len(ring[n]) \in Nat
        /\ \A i \in 1 .. Len(Tail(ring[n])) : Tail(ring[n])[i] = ring[n][i+1]
    BY <2>1
  <2> SUFFICES ASSUME ~Settled, NEW p \in Peers, NEW i \in 1 .. Len(ring'[p])
               PROVE  TruthfulToken(ring'[p][i], down)
    BY <1>1 DEF TokensTruthful, Settled
  <2>3. CASE p # n
    BY <1>1, <2>1, <2>3 DEF IInv, TokensTruthful
  <2>4. CASE p = n
    <3>1. ring'[p] = Tail(ring[n])
      BY <1>1, <2>1, <2>4
    <3>2. ring'[p][i] = ring[n][i+1] /\ i + 1 \in 1 .. Len(ring[n])
      BY <2>2, <3>1
    <3> QED
      BY <3>2 DEF IInv, TokensTruthful
  <2> QED
    BY <2>3, <2>4
<1>3. OthersSame(n)
  BY <1>1 DEF OthersSame
<1>4. NodeOK(n)' /\ LeaderOK'
  BY <1>1, OtherNode, LeaderKept DEF IInv
<1> QED
  BY <1>1, <1>2, <1>3, <1>4, StepOfNode, EofsKept DEF IInv, OnlyWholeResults

-----------------------------------------------------------------------------
(* Abort, crash and restart *)

(* A tombstoned client leaves a record that announces nothing. *)
LEMMA HandleAbortExact ==
  ASSUME IInv, TInv', NEW n \in Peers, HandleAbort(n), Kind # "spilled"
  PROVE  IInv'
<1>1. /\ pc[n] = "idle" /\ rest[n] = {} /\ pc'[n] = "save" /\ mem'[n] = Dropped(mem[n])
      /\ OthersSame(n) /\ UNCHANGED <<ring, down, eofs, ckpt, rest, closing>>
  BY DEF HandleAbort, FreeFiles, Idle, Enter, IInv, NodeOK, ThreadOK, TInv, TypeOK,
         OthersSame, queues, outs
<1>2. /\ Dropped(mem[n]).aborted /\ Dropped(mem[n]).phase = "PROCESSING"
      /\ Dropped(mem[n]).expected = -1 /\ Dropped(mem[n]).seen = mem[n].seen
  BY DEF Dropped, FreshState
<1>3. RecordOK(n, mem'[n], down) /\ SentAsApplied(n, mem'[n], down)
  BY <1>1, <1>2, NothingToSend DEF RecordOK, SentAsApplied
<1>4. NodeOK(n)'
  <2>1. down \cup rest[n] = down
    BY <1>1
  <2> QED
    BY <1>1, <1>3, <2>1, NothingToSend DEF NodeOK, ThreadOK
<1>5. n = Leader => LeaderOK'
  BY <1>1, <1>2 DEF LeaderOK
<1> QED
  BY <1>1, <1>4, <1>5, StepOfNode, TokensKept, EofsKept DEF IInv, Settled, OnlyWholeResults

(* A crash falls back to a checkpoint, whose record is correct too. *)
LEMMA CrashExact ==
  ASSUME IInv, TInv', NEW n \in Peers, Crash(n)
  PROVE  IInv'
<1>1. /\ rest'[n] = {} /\ pc'[n] = "down" /\ mem'[n] = ckpt[n]
      /\ OthersSame(n) /\ UNCHANGED <<ring, down, eofs, ckpt>>
  BY DEF Crash, Enter, IInv, TInv, TypeOK, OthersSame, outs
<1>2. NodeOK(n)'
  <2>1. down \cup {} = down
    OBVIOUS
  <2> QED
    BY <1>1, <2>1 DEF IInv, NodeOK, ThreadOK
<1>3. n = Leader => LeaderOK'
  BY <1>1 DEF LeaderOK, Settled
<1> QED
  BY <1>1, <1>2, <1>3, StepOfNode, TokensKept, EofsKept DEF IInv, Settled, OnlyWholeResults

(* recheck on start-up may emit again: the same outputs, from the whole input. *)
LEMMA RestartExact ==
  ASSUME IInv, TInv', NEW n \in Peers, Restart(n)
  PROVE  IInv'
<1>1. /\ pc[n] = "down" /\ rest[n] = {}
      /\ OthersSame(n) /\ UNCHANGED <<ring, down, eofs, mem, ckpt, closing>>
      /\ pc'[n] = IF Complete(mem[n]) THEN "emit" ELSE "free"
      /\ rest'[n] = IF Complete(mem[n]) THEN EmitOutputs(n, mem[n]) ELSE {}
  BY DEF Restart, Goto, Enter, IInv, NodeOK, ThreadOK, TInv, TypeOK, OthersSame, queues, outs
<1>2. CASE Complete(mem[n])
  <2>1. NodeOK(n)'
    BY <1>1, <1>2, NothingToSend, EmissionStart DEF NodeOK, ThreadOK
  <2>2. n = Leader => LeaderOK'
    BY <1>1, <1>2 DEF IInv, LeaderOK, Settled, Complete
  <2> QED
    BY <1>1, <2>1, <2>2, StepOfNode, TokensKept, EofsKept DEF IInv, Settled, OnlyWholeResults
<1>3. CASE ~Complete(mem[n])
  BY <1>1, <1>3, ControlStep
<1> QED
  BY <1>2, <1>3

(* The steps that only move a thread or change queue counts. *)
LEMMA MovesExact ==
  ASSUME IInv, TInv', NEW n \in Peers,
         \/ AckPending(n) \/ AckCurrent(n) \/ TakeEOF(n) \/ OtherClientFlush(n)
         \/ AbortSent(n) \/ Closed(n)
  PROVE  IInv'
<1>1. /\ OthersSame(n) /\ UNCHANGED <<ring, down, eofs, mem, ckpt, rest>>
      /\ pc[n] \in {"ack", "done", "idle", "abort", "close"}
  BY DEF AckPending, AckCurrent, TakeEOF, OtherClientFlush, AbortSent, Closed, Goto, Enter, Idle,
         IInv, TInv, TypeOK, OthersSame, queues, outs
<1>2. rest[n] = {}
  BY <1>1 DEF IInv, NodeOK, ThreadOK
<1>3. CASE Closed(n)
  <2>1. /\ pc[n] = "close" /\ pc'[n] \in {"save", "idle", "free"}
        /\ cur[n] = "token" => pc'[n] = "save" /\ cur'[n] = "token"
    BY <1>3 DEF Closed, Goto, Enter, AfterRun, IInv, TInv, TypeOK
  <2> QED
    BY <1>1, <1>2, <2>1, ControlStep
<1>4. CASE AckPending(n) \/ AckCurrent(n) \/ TakeEOF(n) \/ OtherClientFlush(n) \/ AbortSent(n)
  <2>1. /\ pc[n] \notin {"close", "save"} /\ pc'[n] \notin {"apply", "emit", "close"}
    BY <1>4 DEF AckPending, AckCurrent, TakeEOF, OtherClientFlush, AbortSent, Goto, Enter, Idle,
                IInv, TInv, TypeOK
  <2> QED
    BY <1>1, <1>2, <2>1, ControlStep
<1> QED
  BY <1>3, <1>4

-----------------------------------------------------------------------------
(* The invariant holds before any message. *)
LEMMA InitExact == Init => IInv
<1> SUFFICES ASSUME Init PROVE IInv
  OBVIOUS
<1>1. TInv
  BY InitTyped
<1>2. \A n \in Peers : Kind = "stateless" => Out(n, {}) = {}
  BY DEF Out
<1>3. \A n \in Peers : RecordOK(n, FreshState, {}) /\ SentAsApplied(n, FreshState, {})
  BY <1>2, FS_EmptySet DEF RecordOK, SentAsApplied, FreshState
<1>4. \A n \in Peers : NodeOK(n)
  BY <1>3 DEF Init, NodeOK, ThreadOK
<1>5. TokensTruthful
  BY DEF Init, TokensTruthful
<1>6. LeaderOK
  BY RingFacts DEF Init, LeaderOK, Settled, FreshState
<1>7. EofIsExact /\ OnlyWholeResults
  BY DEF Init, EofIsExact, OnlyWholeResults
<1> QED
  BY <1>1, <1>4, <1>5, <1>6, <1>7 DEF IInv

(* The invariant is inductive for stateless and in-memory controllers. *)
LEMMA NextExact ==
  ASSUME Kind # "spilled", MaxFailures = 0, IInv, [Next]_vars
  PROVE  IInv'
<1>1. TInv'
  BY StepTyped, EnvironmentTyped, StutterTyped DEF IInv, Next
<1>2. CASE \E n \in Peers : Step(n)
  <2>1. PICK n \in Peers : Step(n)
    BY <1>2
  <2>2. CASE \E m \in Input[n] : IgnoreData(n, m)
    BY <1>1, <2>2, QueueStep DEF IgnoreData, outs, thread
  <2>3. CASE \E s \in Shards : AbortShard(n, s)
    BY <1>1, <2>3, QueueStep DEF AbortShard, queues
  <2> QED
    BY <1>1, <2>1, <2>2, <2>3, ApplyDataExact, SendOutputExact, DataAppliedExact,
       ReportSentExact, SaveExact, FreeExact, SendTokenAckExact, HandleEOFExact,
       HandleTokenExact, CloseShardExact, HandleAbortExact, RestartExact, MovesExact DEF Step
<1>3. CASE Environment
  <2>1. CASE UpstreamAbort \/ \E n \in Peers : \E m \in Upstream(n) : Redeliver(n, m)
    BY <1>1, <2>1, QueueStep DEF UpstreamAbort, Redeliver, outs, thread
  <2>2. ~ \E n \in Peers : TokenFails(n)
    BY DEF TokenFails, IInv, TInv, TypeOK
  <2> QED
    BY <1>1, <1>3, <2>1, <2>2, CrashExact, MovesExact DEF Environment
<1>4. CASE UNCHANGED vars
  BY <1>1, <1>4, QueueStep DEF vars
<1> QED
  BY <1>2, <1>3, <1>4 DEF Next

(***************************************************************************)
(* A downstream EOF is sent only when every peer has sent every output of  *)
(* its shard, and announces exactly their number (_advance,                *)
(* _downstream_eof), however often controllers crash and upstream resends. *)
(***************************************************************************)
THEOREM EofExact ==
  ASSUME Kind # "spilled", MaxFailures = 0
  PROVE  Spec => []EofIsExact
<1>1. IInv => EofIsExact
  BY DEF IInv
<1> QED
  BY InitExact, NextExact, <1>1, PTL DEF Spec

(***************************************************************************)
(* Nothing is sent downstream that was computed from part of an input      *)
(* shard or from a message applied twice (handle_data, _emit).             *)
(***************************************************************************)
THEOREM WholeResults ==
  ASSUME Kind # "spilled", MaxFailures = 0
  PROVE  Spec => []OnlyWholeResults
<1>1. IInv => OnlyWholeResults
  BY DEF IInv
<1> QED
  BY InitExact, NextExact, <1>1, PTL DEF Spec

(***************************************************************************)
(* Every emission, the one a revived node repeats included, starts from    *)
(* the accumulation of the whole input shard (recheck, resolved_clients).  *)
(***************************************************************************)
THEOREM WholeEmission ==
  ASSUME Kind # "spilled", MaxFailures = 0
  PROVE  Spec => []EmitsWholeInput
<1>1. IInv => EmitsWholeInput
  <2> SUFFICES ASSUME IInv, NEW n \in Peers, pc[n] = "emit" PROVE mem[n].acc = Input[n]
    BY DEF EmitsWholeInput
  <2>1. mem[n] \in States(n) /\ RecordOK(n, mem[n], down) /\ Complete(mem[n])
    BY DEF IInv, NodeOK, ThreadOK, TInv, TypeOK
  <2> QED
    BY <2>1, CompleteMeansWhole
<1> QED
  BY InitExact, NextExact, <1>1, PTL DEF Spec

(***************************************************************************)
(* Until the leader's checkpoint says that the barrier is over, every      *)
(* token in the ring, redelivered and replayed ones included, holds only   *)
(* counts of peers whose outputs were all sent (report_sent, on_token).    *)
(***************************************************************************)
THEOREM TruthfulTokens ==
  ASSUME Kind # "spilled", MaxFailures = 0
  PROVE  Spec => []TokensTruthful
<1>1. IInv => TokensTruthful
  BY DEF IInv
<1> QED
  BY InitExact, NextExact, <1>1, PTL DEF Spec

-----------------------------------------------------------------------------
(* Only two actions touch what the next stage sees. *)
LEMMA OnlySendsAndEofs ==
  ASSUME [Next]_vars
  PROVE  \/ \E n \in Peers : \E o \in rest[n] : SendOutput(n, o)
         \/ \E n \in Peers : \E s \in Shards : CloseShard(n, s)
         \/ UNCHANGED <<down, eofs>>
<1>1. CASE \E n \in Peers : Step(n)
  <2>1. PICK n \in Peers : Step(n)
    BY <1>1
  <2> USE DEF outs
  <2>2. \A m : IgnoreData(n, m) \/ ApplyData(n, m) => UNCHANGED <<down, eofs>>
    BY DEF IgnoreData, ApplyData
  <2>3. DataApplied(n) \/ ReportSent(n) \/ Closed(n) => UNCHANGED <<down, eofs>>
    BY DEF DataApplied, ReportSent, Closed
  <2>4. Save(n) \/ AckPending(n) \/ Free(n) \/ AckCurrent(n) \/ SendTokenAck(n)
          => UNCHANGED <<down, eofs>>
    BY DEF Save, AckPending, Free, AckCurrent, SendTokenAck
  <2>5. TakeEOF(n) \/ HandleEOF(n) \/ HandleToken(n) => UNCHANGED <<down, eofs>>
    BY DEF TakeEOF, HandleEOF, HandleToken
  <2>6. HandleAbort(n) \/ AbortSent(n) \/ Restart(n) => UNCHANGED <<down, eofs>>
    BY DEF HandleAbort, AbortSent, Restart
  <2>7. \A s : AbortShard(n, s) => UNCHANGED <<down, eofs>>
    BY DEF AbortShard
  <2> QED
    BY <2>1, <2>2, <2>3, <2>4, <2>5, <2>6, <2>7 DEF Step
<1>2. CASE Environment
  BY <1>2 DEF Environment, Crash, TokenFails, OtherClientFlush, UpstreamAbort, Redeliver,
     queues, outs, thread, bounds
<1>3. CASE UNCHANGED vars
  BY <1>3 DEF vars
<1> QED
  BY <1>1, <1>2, <1>3 DEF Next

(***************************************************************************)
(* The stage implements the barrier that StageBarrier promises to the next *)
(* stage: what a crash repeats and what the ring circulates is invisible   *)
(* downstream, except as a repetition of an output or of the same EOF.     *)
(***************************************************************************)
THEOREM RefinesBarrier ==
  ASSUME Kind # "spilled", MaxFailures = 0
  PROVE  Spec => BarrierRefined
<1>1. Init => Barrier!Init
  BY DEF Init, Barrier!Init
<1>2. IInv /\ IInv' /\ [Next]_vars => [Barrier!Next]_<<down, eofs>>
  <2> SUFFICES ASSUME IInv, IInv', [Next]_vars PROVE [Barrier!Next]_<<down, eofs>>
    OBVIOUS
  <2>1. ASSUME NEW n \in Peers, NEW o \in rest[n], SendOutput(n, o)
        PROVE  Barrier!Next
    <3>1. o \in StageOutputs
      BY DEF IInv, NodeOK, ThreadOK, StageOutputs
    <3>2. Barrier!Send(o)
      BY <2>1, <3>1 DEF SendOutput, Barrier!Send
    <3> QED
      BY <3>1, <3>2 DEF Barrier!Next
  <2>2. ASSUME NEW n \in Peers, NEW s \in Shards, CloseShard(n, s)
        PROVE  Barrier!Next
    <3> DEFINE total == TokenTotal(closing[n], s)
    <3>1. eofs' = [eofs EXCEPT ![s] = @ \cup {total}] /\ down' = down
      BY <2>2 DEF CloseShard
    <3>2. total \in eofs'[s]
      BY <3>1 DEF IInv, TInv, TypeOK
    <3> HIDE DEF total
    <3>3. total = StageTotal(s) /\ \A p \in Peers : StageOutput(p) \subseteq down
      BY <3>1, <3>2 DEF IInv, EofIsExact
    <3>4. down = StageOutputs
      BY <3>3 DEF IInv, OnlyWholeResults, StageOutputs
    <3>5. Barrier!Announce(s)
      BY <3>1, <3>3, <3>4 DEF Barrier!Announce
    <3> QED
      BY <3>5 DEF Barrier!Next
  <2> QED
    BY <2>1, <2>2, OnlySendsAndEofs
<1> QED
  BY InitExact, NextExact, <1>1, <1>2, PTL
     DEF Spec, BarrierRefined, Barrier!Spec, Barrier!bvars
=============================================================================
