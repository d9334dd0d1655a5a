--------------------------- MODULE MergeJoinProofs ---------------------------
(***************************************************************************)
(* The merge and the join of use case 2, for any number of clients, any    *)
(* input and arrival order and any number of crashes, messages that come   *)
(* again and clients that drop: a number stands for one message, the join  *)
(* never finalizes from a data message, every answer is whole, and a       *)
(* dropped client gets none.  UseCase2 says which nodes these are: rows    *)
(* that the checkpoint holds, and a result of one message at least.        *)
(***************************************************************************)
EXTENDS MergeJoin, FiniteSetTheorems, FunctionTheorems, SequenceTheorems, TLAPS

-----------------------------------------------------------------------------
(* The inductive invariant: queues *)

IsSeq(q) == Len(q) \in Nat /\ q = [k \in 1..Len(q) |-> q[k]]

(* The first h messages of q were applied and are held: they are data. *)
Queue(q, h) == IsSeq(q) /\ h \in 0..Len(q) /\ \A k \in 1..h : q[k].kind = "data"

(* m is among the held messages. *)
HeldBack(q, h, m) == \E j \in 1..h : q[j] = m

(* m is still to come, before any EOF of its client. *)
IsEof(x, c) == x.kind = "eof" /\ x.client = c
Ahead(q, h, m) ==
  \E j \in h + 1 .. Len(q) : q[j] = m /\ \A k \in h + 1 .. j : ~IsEof(q[k], m.client)

(* Nothing is lost: what memory has seen and the checkpoint has not is held,   *)
(* and what memory has not seen is still to come, unless the client is gone.   *)
Covered(q, h, m, seen, saved, gone) ==
  /\ m.id \in seen /\ m.id \notin saved => HeldBack(q, h, m)
  /\ m.id \notin seen /\ ~gone => Ahead(q, h, m)

(* Memory is ahead of the checkpoint, but for nothing once all is saved; a     *)
(* tombstone is saved by the handler that sets it and is never taken back.     *)
Saved(mem, ckpt, dirty, pc, task) ==
  /\ ckpt.seen \subseteq mem.seen
  /\ ~dirty => mem.seen = ckpt.seen
  /\ pc \notin {"idle", "save"} => ~dirty
  /\ pc = "down" => mem = ckpt
  /\ \A c \in Clients :
       /\ ckpt.of[c].aborted => mem.of[c].aborted
       /\ mem.of[c].aborted => ckpt.of[c].aborted \/ (pc = "save" /\ task = "abort")

(* The event being handled, an EOF or an Abort, is the first message that is   *)
(* not held; it stays queued until it is done with.                            *)
Handling(pc, task) ==
  \/ pc \in {"save", "ack"} /\ task \in {"flush", "eof", "abort"}
  \/ pc \in {"handle", "abort", "done", "respond"}
  \/ pc \in {"emit", "free"} /\ task = "eof"
Event(q, h, pc, task, c) ==
  Handling(pc, task) =>
    /\ h < Len(q) /\ q[h + 1].client = c
    /\ q[h + 1].kind = IF task = "abort" THEN "abort" ELSE "eof"

Tasks == [idle |-> {"none", "data", "start", "flush", "eof", "abort"},
          save |-> {"data", "start", "flush", "eof", "abort"},
          ack |-> {"data", "start", "flush", "eof", "abort"},
          handle |-> {"flush"}, emit |-> {"eof", "start"}, free |-> {"eof", "start"},
          done |-> {"eof", "abort"}, abort |-> {"abort"}, respond |-> {"eof"},
          recheck |-> {"start"}, down |-> {"start"}]

-----------------------------------------------------------------------------
(* The inductive invariant: types *)

Sides == M!Sides
Rows == DOMAIN ClientOf \cup UNION {LeftKeys[c] : c \in Clients}
OutRows == Rows \cup {"empty"}

MergeRecord ==
  [rows : [Sides -> Seq(Rows)], counts : [Sides -> Int], expected : Int, received : Nat,
   phase : {"PROCESSING", "DONE"}, aborted : BOOLEAN]
MergeMemory == [of : [Clients -> MergeRecord], seen : SUBSET (Sides \X Nat), seq : Nat]
JoinRecord ==
  [rows : Seq(OutRows), received : Nat, expected : Int, finalized : BOOLEAN, aborted : BOOLEAN]
JoinMemory == [of : [Clients -> JoinRecord], seen : SUBSET ({"merge"} \X Nat)]

MergeTyped ==
  /\ mmem \in MergeMemory /\ mckpt \in MergeMemory /\ mdirty \in BOOLEAN
  /\ mclient \in Clients /\ mat \in Sides /\ todo \in Seq(OutRows)
  /\ mpc \in DOMAIN Tasks \ {"respond"} /\ mtask \in Tasks[mpc]
  /\ DOMAIN qin = Sides /\ DOMAIN mheld = Sides
JoinTyped ==
  /\ jmem \in JoinMemory /\ jckpt \in JoinMemory /\ jdirty \in BOOLEAN
  /\ jclient \in Clients
  /\ jpc \in DOMAIN Tasks \ {"emit", "abort", "recheck"} /\ jtask \in Tasks[jpc]

(* What was queued, at the nodes of use case 2: data, numbered by position, and *)
(* behind it EOFs.                                                             *)
InputOK ==
  /\ UseCase2
  /\ DOMAIN input = Sides
  /\ \A s \in Sides :
       /\ IsSeq(input[s])
       /\ \A i \in DOMAIN input[s] :
            /\ input[s][i].kind \in {"data", "eof"} /\ input[s][i].client \in Clients
            /\ input[s][i].kind = "data" =>
                 input[s][i].id = <<s, i>> /\ input[s][i].row \in Rows
            /\ input[s][i].kind = "eof" =>
                 /\ input[s][i].count \in Nat
                 /\ \A j \in DOMAIN input[s] : input[s][j].kind = "data" => j < i
  /\ \A i, j \in DOMAIN input["right"] :
       /\ input["right"][i].kind = "data" /\ input["right"][j].kind = "data"
       /\ input["right"][i].row = input["right"][j].row
       => i = j

-----------------------------------------------------------------------------
(* The inductive invariant: the merge *)

MergeQueue(s) ==
  /\ Queue(qin[s], mheld[s])
  /\ \A i \in DOMAIN qin[s] :
       qin[s][i] \in ToSet(input[s]) \/ \E c \in Clients : qin[s][i] = M!Abort(c)
  /\ \A m \in DataIn(input[s]) :
       Covered(qin[s], mheld[s], m, mmem.seen, mckpt.seen, mckpt.of[m.client].aborted)
  /\ mpc \notin {"idle", "save", "ack"} => mheld[s] = 0

(* A count that came with an EOF finds all that it counts seen; what is        *)
(* accumulated is what was seen; and an aborted client is over.                *)
SeenAll(in, X, s, c) == \A i \in DataAt(in[s], c) : <<s, i>> \in X.seen
Accumulated(in, X, c) ==
  LET r == X.of[c] IN
  /\ ~r.aborted =>
       /\ \A s \in Sides : r.counts[s] # M!Unknown => SeenAll(in, X, s, c)
       /\ r.expected # M!Unknown => \A s \in Sides : SeenAll(in, X, s, c)
  /\ r.aborted => r.expected = M!Unknown /\ r.phase = "PROCESSING"
  /\ ~r.aborted /\ r.phase = "PROCESSING" =>
       /\ \A s \in Sides :
            ToSet(r.rows[s]) = {in[s][i].row : i \in {j \in DataAt(in[s], c) : <<s, j>> \in X.seen}}
       /\ IsInjective(r.rows["right"])
SeenWasQueued == mmem.seen \subseteq {m.id : m \in DataIn(input["left"]) \cup DataIn(input["right"])}

(* The emission that a checkpoint has frozen, and the messages it consists of. *)
Frozen(c) == M!Complete(mckpt.of[c])
Emission(c) == M!Merged(mckpt.of[c])
Numbered(c, i) == M!Data(c, <<"merge", mckpt.seq + i>>, Emission(c)[i])
StampedFor(c) == {m \in stamped : m.client = c}

(* At most one client is frozen.  While it is emitted memory is the checkpoint *)
(* but for the counter; afterwards it is DONE, until that is saved.            *)
Emitting ==
  /\ \A c, d \in Clients : Frozen(c) /\ Frozen(d) => c = d
  /\ (\A c \in Clients : ~Frozen(c)) => mmem.seq = mckpt.seq
  /\ mpc \notin {"emit", "down"} => \A c \in Clients : ~M!Complete(mmem.of[c])
  /\ mpc = "emit" =>
       LET all == Emission(mclient)
           sent == Len(all) - Len(todo)
       IN  /\ Frozen(mclient) /\ mmem.of = mckpt.of
           /\ Len(todo) <= Len(all) /\ mmem.seq = mckpt.seq + sent
           /\ \A i \in 1 .. Len(todo) : todo[i] = all[sent + i]
           /\ \A i \in 1 .. sent : Numbered(mclient, i) \in stamped
  /\ \A c \in Clients : Frozen(c) =>
       \/ mpc \in {"emit", "down"}
       \/ /\ mpc \in {"recheck", "free", "save"} /\ mtask \in {"eof", "start"}
          /\ mpc = "free" => mtask = "start"
          /\ mmem.seq = mckpt.seq + Len(Emission(c)) /\ mmem.of[c].phase = "DONE"
          /\ \A i \in 1 .. Len(Emission(c)) : Numbered(c, i) \in stamped
  /\ \A c \in Clients :
       mckpt.of[c].phase = "DONE" => mmem.of[c].phase = "DONE" \/ mmem.of[c].aborted

(* Numbers beyond the saved counter belong to the frozen emission; a client    *)
(* that has not been frozen has no message; no row is stamped twice.           *)
Stamps ==
  /\ \A m \in stamped :
       /\ m.kind = "data" /\ m.client \in Clients /\ m.id \in {"merge"} \X Nat /\ m.row \in OutRows
       /\ m.id[2] > mckpt.seq =>
            Frozen(m.client) /\ \E i \in 1 .. Len(Emission(m.client)) : m = Numbered(m.client, i)
  /\ StampedOnce
  /\ \A c \in Clients :
       /\ mckpt.of[c].phase = "PROCESSING" /\ ~mckpt.of[c].aborted /\ ~Frozen(c) => StampedFor(c) = {}
       /\ Frozen(c) => \A m \in StampedFor(c) : m.id[2] > mckpt.seq
       /\ \A m \in StampedFor(c) : m.row \in Whole(c)
       /\ \A m, n \in StampedFor(c) : m.row = n.row => m = n

-----------------------------------------------------------------------------
(* The inductive invariant: the join *)

(* The client's whole result was stamped. *)
RowsIn(S) == {m.row : m \in S}
Final(c) == RowsIn(StampedFor(c)) = Whole(c)

LinkOK ==
  /\ Queue(link, jheld)
  /\ \A i \in DOMAIN link :
       /\ link[i].kind \in {"data", "eof", "abort"} /\ link[i].client \in Clients
       /\ link[i].kind = "data" => link[i] \in stamped
       /\ link[i].kind = "eof" => link[i].count \in Nat \ {0} /\ Final(link[i].client)
  /\ \A m \in stamped :
       Covered(link, jheld, m, jmem.seen, jckpt.seen, jckpt.of[m.client].aborted)
  /\ jpc \notin {"idle", "save", "ack"} => jheld = 0

(* An EOF or a finalization finds the whole result seen, and the rows are      *)
(* those of the messages seen, each once.                                      *)
SeenIn(S, seen) == {m \in S : m.id \in seen}
Joined(S, whole, r, seen) ==
  /\ ~r.aborted /\ (r.finalized \/ r.expected # J!Unknown) =>
       RowsIn(S) = whole /\ \A m \in S : m.id \in seen
  /\ r.aborted => r.received = 0 /\ (r.expected = J!Unknown \/ r.expected >= 1)
  /\ ~r.aborted /\ r.finalized => r.received = 0
  /\ ~r.aborted /\ ~r.finalized =>
       /\ r.received = Len(r.rows) /\ IsInjective(r.rows)
       /\ ToSet(r.rows) = RowsIn(SeenIn(S, seen))

JoinSeen == jmem.seen \subseteq {m.id : m \in stamped}
Responding ==
  jpc = "respond" =>
    ~jmem.of[jclient].aborted /\ ~jmem.of[jclient].finalized /\ jmem.of[jclient].expected # J!Unknown

MergeInv ==
  /\ InputOK /\ MergeTyped
  /\ \A s \in Sides : MergeQueue(s)
  /\ Saved(mmem, mckpt, mdirty, mpc, mtask)
  /\ Event(qin[mat], mheld[mat], mpc, mtask, mclient)
  /\ SeenWasQueued
  /\ \A c \in Clients : Accumulated(input, mmem, c) /\ Accumulated(input, mckpt, c)
  /\ Emitting /\ Stamps

JoinInv ==
  /\ JoinTyped /\ LinkOK
  /\ Saved(jmem, jckpt, jdirty, jpc, jtask)
  /\ Event(link, jheld, jpc, jtask, jclient)
  /\ JoinSeen /\ Responding
  /\ \A c \in Clients :
       /\ Joined(StampedFor(c), Whole(c), jmem.of[c], jmem.seen)
       /\ Joined(StampedFor(c), Whole(c), jckpt.of[c], jckpt.seen)

-----------------------------------------------------------------------------
(* Queues *)

(* A queue is a sequence of its own messages. *)
LEMMA SeqOfItself ==
  ASSUME NEW q, IsSeq(q)
  PROVE  /\ q \in Seq({q[k] : k \in 1 .. Len(q)})
         /\ DOMAIN q = 1 .. Len(q) /\ Len(q) \in Nat
<1>1. Len(q) \in Nat /\ q = [k \in 1 .. Len(q) |-> q[k]]
  BY DEF IsSeq
<1>2. q \in [1 .. Len(q) -> {q[k] : k \in 1 .. Len(q)}]
  BY <1>1
<1> QED
  BY <1>1, <1>2, SeqDef

(* A sequence of elements of any set is one. *)
LEMMA SeqIsSeq ==
  ASSUME NEW S, NEW q \in Seq(S)
  PROVE  IsSeq(q) /\ \A k \in DOMAIN q : q[k] \in S
<1>1. Len(q) \in Nat /\ DOMAIN q = 1 .. Len(q) /\ q = [k \in 1 .. Len(q) |-> q[k]]
  BY LenProperties
<1> QED
  BY <1>1, ElementOfSeq DEF IsSeq

(* A function on 1 .. n is a sequence of length n. *)
LEMMA FunctionIsSeq ==
  ASSUME NEW n \in Nat, NEW q, q = [k \in 1 .. n |-> q[k]]
  PROVE  IsSeq(q) /\ Len(q) = n /\ DOMAIN q = 1 .. n
<1>1. q \in [1 .. n -> {q[k] : k \in 1 .. n}]
  OBVIOUS
<1>2. q \in Seq({q[k] : k \in 1 .. n}) /\ DOMAIN q = 1 .. n
  BY <1>1, SeqDef
<1>3. Len(q) = n
  BY <1>2, LenProperties
<1> QED
  BY <1>2, <1>3 DEF IsSeq

(* A message is put behind the others. *)
LEMMA AppendSeq ==
  ASSUME NEW q, IsSeq(q), NEW x
  PROVE  /\ IsSeq(Append(q, x)) /\ Len(Append(q, x)) = Len(q) + 1
         /\ Append(q, x)[Len(q) + 1] = x
         /\ \A k \in 1 .. Len(q) : Append(q, x)[k] = q[k]
<1> DEFINE S == {q[k] : k \in 1 .. Len(q)} \cup {x}
<1>1. Len(q) \in Nat /\ q = [k \in 1 .. Len(q) |-> q[k]]
  BY DEF IsSeq
<1>2. q \in [1 .. Len(q) -> S]
  BY <1>1
<1>3. q \in Seq(S) /\ x \in S
  BY <1>1, <1>2, SeqDef
<1> HIDE DEF S
<1>4. /\ Append(q, x) \in Seq(S) /\ Len(Append(q, x)) = Len(q) + 1 /\ Append(q, x)[Len(q) + 1] = x
      /\ \A k \in 1 .. Len(q) : Append(q, x)[k] = q[k]
  BY <1>3, AppendProperties
<1> QED
  BY <1>4, SeqIsSeq

(* The first k messages leave a queue. *)
LEMMA SubSeqSeq ==
  ASSUME NEW q, IsSeq(q), NEW k \in 0 .. Len(q)
  PROVE  /\ IsSeq(SubSeq(q, k + 1, Len(q))) /\ Len(SubSeq(q, k + 1, Len(q))) = Len(q) - k
         /\ \A i \in 1 .. Len(q) - k : SubSeq(q, k + 1, Len(q))[i] = q[k + i]
<1> DEFINE S == {q[i] : i \in 1 .. Len(q)}
<1>1. q \in Seq(S) /\ Len(q) \in Nat
  BY SeqOfItself
<1> HIDE DEF S
<1>2. /\ SubSeq(q, k + 1, Len(q)) \in Seq(S)
      /\ Len(SubSeq(q, k + 1, Len(q))) = Len(q) - k
  BY <1>1, SubSeqProperties
<1>3. \A i \in 1 .. Len(q) - k : SubSeq(q, k + 1, Len(q))[i] = q[k + i]
  BY <1>1, SubSeqProperties
<1> QED
  BY <1>2, <1>3, SeqIsSeq

(* The first message leaves a queue. *)
LEMMA TailSeq ==
  ASSUME NEW q, IsSeq(q), 0 < Len(q)
  PROVE  /\ IsSeq(Tail(q)) /\ Len(Tail(q)) = Len(q) - 1
         /\ \A i \in 1 .. Len(q) - 1 : Tail(q)[i] = q[1 + i]
<1> DEFINE S == {q[i] : i \in 1 .. Len(q)}
<1>1. q \in Seq(S) /\ Len(q) \in Nat
  BY SeqOfItself
<1> HIDE DEF S
<1>2. q # <<>>
  BY <1>1, EmptySeq
<1>3. /\ Tail(q) \in Seq(S) /\ Len(Tail(q)) = Len(q) - 1
      /\ \A i \in 1 .. Len(q) - 1 : Tail(q)[i] = q[1 + i]
  BY <1>1, <1>2, HeadTailProperties
<1> QED
  BY <1>3, SeqIsSeq

(* One message leaves a queue. *)
LEMMA RemoveAtSeq ==
  ASSUME NEW q, IsSeq(q), NEW n \in 1 .. Len(q)
  PROVE  /\ IsSeq(RemoveAt(q, n)) /\ Len(RemoveAt(q, n)) = Len(q) - 1
         /\ \A i \in 1 .. n - 1 : RemoveAt(q, n)[i] = q[i]
         /\ \A i \in n .. Len(q) - 1 : RemoveAt(q, n)[i] = q[i + 1]
<1> DEFINE S == {q[i] : i \in 1 .. Len(q)}
           a == SubSeq(q, 1, n - 1)
           b == SubSeq(q, n + 1, Len(q))
<1>1. q \in Seq(S) /\ Len(q) \in Nat /\ n \in Nat \ {0}
  BY SeqOfItself
<1> HIDE DEF S
<1>2. a \in Seq(S) /\ Len(a) = n - 1 /\ \A i \in 1 .. n - 1 : a[i] = q[i]
  <2>1. /\ a \in Seq(S) /\ Len(a) = IF 1 <= n - 1 THEN n - 1 - 1 + 1 ELSE 0
        /\ \A i \in 1 .. n - 1 - 1 + 1 : a[i] = q[1 + i - 1]
    BY <1>1, SubSeqProperties
  <2> QED
    BY <1>1, <2>1
<1>3. b \in Seq(S) /\ Len(b) = Len(q) - n /\ \A i \in 1 .. Len(q) - n : b[i] = q[n + i]
  <2>1. /\ b \in Seq(S) /\ Len(b) = IF n + 1 <= Len(q) THEN Len(q) - (n + 1) + 1 ELSE 0
        /\ \A i \in 1 .. Len(q) - (n + 1) + 1 : b[i] = q[(n + 1) + i - 1]
    BY <1>1, SubSeqProperties
  <2> QED
    BY <1>1, <2>1
<1> HIDE DEF a, b
<1>4. /\ a \o b \in Seq(S) /\ Len(a \o b) = Len(a) + Len(b)
      /\ \A i \in 1 .. Len(a) + Len(b) :
           (a \o b)[i] = IF i <= Len(a) THEN a[i] ELSE b[i - Len(a)]
  BY <1>2, <1>3, ConcatProperties
<1>5. Len(a \o b) = Len(q) - 1
  BY <1>1, <1>2, <1>3, <1>4
<1>6. \A i \in 1 .. n - 1 : (a \o b)[i] = q[i]
  BY <1>1, <1>2, <1>3, <1>4
<1>7. ASSUME NEW i \in n .. Len(q) - 1 PROVE (a \o b)[i] = q[i + 1]
  <2>1. i \in 1 .. Len(a) + Len(b) /\ ~(i <= Len(a)) /\ i - Len(a) \in 1 .. Len(q) - n
        /\ n + (i - Len(a)) = i + 1
    BY <1>1, <1>2, <1>3
  <2> QED
    BY <1>3, <1>4, <2>1
<1>8. RemoveAt(q, n) = a \o b
  BY DEF RemoveAt, a, b
<1> QED
  BY <1>4, <1>5, <1>6, <1>7, <1>8, SeqIsSeq

(* A message put behind the others loses nothing. *)
LEMMA QueueAppend ==
  ASSUME NEW q, NEW h, Queue(q, h), NEW x
  PROVE  /\ Queue(Append(q, x), h)
         /\ \A k \in 1 .. Len(q) : Append(q, x)[k] = q[k]
         /\ Len(Append(q, x)) = Len(q) + 1 /\ Append(q, x)[Len(q) + 1] = x
<1>1. IsSeq(q) /\ h \in 0 .. Len(q) /\ Len(q) \in Nat /\ \A k \in 1 .. h : q[k].kind = "data"
  BY DEF Queue, IsSeq
<1> DEFINE p == Append(q, x)
<1>2. /\ IsSeq(p) /\ Len(p) = Len(q) + 1 /\ p[Len(q) + 1] = x
      /\ \A k \in 1 .. Len(q) : p[k] = q[k]
  BY <1>1, AppendSeq
<1> HIDE DEF p
<1>3. h \in 0 .. Len(p) /\ \A k \in 1 .. h : p[k].kind = "data"
  BY <1>1, <1>2
<1> QED
  BY <1>2, <1>3 DEF Queue, p

(* A message that a producer or the merge queues behind the others loses none *)
(* of them.                                                                   *)
LEMMA CoveredAppend ==
  ASSUME NEW q, NEW h, Queue(q, h), NEW x, NEW m, NEW seen, NEW saved, NEW gone,
         Covered(q, h, m, seen, saved, gone)
  PROVE  Covered(Append(q, x), h, m, seen, saved, gone)
<1> DEFINE p == Append(q, x)
<1>1. /\ h \in 0 .. Len(q) /\ Len(q) \in Nat
      /\ \A k \in 1 .. Len(q) : p[k] = q[k]
      /\ Len(p) = Len(q) + 1
  BY QueueAppend DEF Queue, IsSeq
<1> HIDE DEF p
<1>2. HeldBack(q, h, m) => HeldBack(p, h, m)
  BY <1>1 DEF HeldBack
<1>3. ASSUME Ahead(q, h, m) PROVE Ahead(p, h, m)
  <2>1. PICK j \in h + 1 .. Len(q) : q[j] = m /\ \A k \in h + 1 .. j : ~IsEof(q[k], m.client)
    BY <1>3 DEF Ahead
  <2>2. j \in h + 1 .. Len(p) /\ p[j] = m /\ \A k \in h + 1 .. j : p[k] = q[k]
    BY <1>1, <2>1
  <2>3. \A k \in h + 1 .. j : ~IsEof(p[k], m.client)
    BY <2>1, <2>2
  <2> QED
    BY <2>2, <2>3 DEF Ahead
<1>4. Covered(p, h, m, seen, saved, gone)
  BY <1>2, <1>3 DEF Covered
<1> QED
  BY <1>4 DEF p

(* A message whose client sends no EOF that is still queued is ahead of any EOF. *)
LEMMA AheadFresh ==
  ASSUME NEW q, NEW h, Queue(q, h), NEW m, m.kind = "data",
         \A k \in h + 1 .. Len(q) : ~IsEof(q[k], m.client)
  PROVE  Ahead(Append(q, m), h, m)
<1> DEFINE p == Append(q, m)
           n == Len(q) + 1
<1>1. /\ h \in 0 .. Len(q) /\ Len(q) \in Nat
      /\ \A k \in 1 .. Len(q) : p[k] = q[k]
      /\ Len(p) = n /\ p[n] = m
  BY QueueAppend DEF Queue, IsSeq
<1>2. ~IsEof(m, m.client)
  BY DEF IsEof
<1> HIDE DEF p
<1>3. ASSUME NEW k \in h + 1 .. n PROVE ~IsEof(p[k], m.client)
  <2>1. k = n \/ (k \in h + 1 .. Len(q) /\ k \in 1 .. Len(q))
    BY <1>1
  <2> QED
    BY <1>1, <1>2, <2>1
<1>4. n \in h + 1 .. Len(p)
  BY <1>1
<1>5. Ahead(p, h, m)
  BY <1>1, <1>3, <1>4 DEF Ahead
<1> QED
  BY <1>5 DEF p

(* The acks of k held messages go out and the others are no longer held: in the *)
(* ack loop all that was seen is saved, so nothing that is lost was not saved.   *)
LEMMA QueueAck ==
  ASSUME NEW q, NEW h, Queue(q, h), NEW k \in 0 .. h
  PROVE  /\ Queue(SubSeq(q, k + 1, Len(q)), 0)
         /\ Len(SubSeq(q, k + 1, Len(q))) = Len(q) - k
         /\ \A i \in 1 .. Len(q) - k : SubSeq(q, k + 1, Len(q))[i] = q[k + i]
<1>1. IsSeq(q) /\ h \in 0 .. Len(q) /\ Len(q) \in Nat /\ k \in 0 .. Len(q)
  BY DEF Queue, IsSeq
<1>2. /\ IsSeq(SubSeq(q, k + 1, Len(q))) /\ Len(SubSeq(q, k + 1, Len(q))) = Len(q) - k
      /\ \A i \in 1 .. Len(q) - k : SubSeq(q, k + 1, Len(q))[i] = q[k + i]
  BY <1>1, SubSeqSeq
<1>3. 0 \in 0 .. Len(SubSeq(q, k + 1, Len(q)))
  BY <1>1, <1>2
<1>4. \A j \in 1 .. 0 : SubSeq(q, k + 1, Len(q))[j].kind = "data"
  OBVIOUS
<1> QED
  BY <1>2, <1>3, <1>4 DEF Queue

(* _checkpoint_and_flush acks the held messages once what they did is saved,  *)
(* and a crash requeues them: either way what is not saved is still queued.   *)
LEMMA CoveredAck ==
  ASSUME NEW q, NEW h, Queue(q, h), NEW k \in 0 .. h, NEW m, NEW seen, NEW saved, NEW gone,
         m.kind = "data", k = 0 \/ seen = saved, saved \subseteq seen,
         Covered(q, h, m, seen, saved, gone)
  PROVE  Covered(SubSeq(q, k + 1, Len(q)), 0, m, saved, saved, gone)
<1> DEFINE p == SubSeq(q, k + 1, Len(q))
<1>1. /\ h \in 0 .. Len(q) /\ Len(q) \in Nat /\ k \in Nat
      /\ \A i \in 1 .. Len(q) - k : p[i] = q[k + i]
      /\ Len(p) = Len(q) - k
      /\ \A i \in 1 .. h : q[i].kind = "data"
  BY QueueAck DEF Queue, IsSeq
<1> HIDE DEF p
<1> SUFFICES ASSUME m.id \notin saved, ~gone PROVE Ahead(p, 0, m)
  BY DEF Covered, p
<1>2. PICK j \in k + 1 .. Len(q) : q[j] = m /\ \A i \in h + 1 .. j : ~IsEof(q[i], m.client)
  <2>1. CASE m.id \in seen
    <3>1. HeldBack(q, h, m) /\ k = 0
      BY <2>1 DEF Covered
    <3>2. PICK j \in 1 .. h : q[j] = m
      BY <3>1 DEF HeldBack
    <3>3. j \in k + 1 .. Len(q) /\ h + 1 .. j = {}
      BY <1>1, <3>1, <3>2
    <3> QED
      BY <3>2, <3>3
  <2>2. CASE m.id \notin seen
    <3>1. Ahead(q, h, m)
      BY <2>2 DEF Covered
    <3>2. PICK j \in h + 1 .. Len(q) : q[j] = m /\ \A i \in h + 1 .. j : ~IsEof(q[i], m.client)
      BY <3>1 DEF Ahead
    <3>3. j \in k + 1 .. Len(q)
      BY <1>1, <3>2
    <3> QED
      BY <3>2, <3>3
  <2> QED
    BY <2>1, <2>2
<1>3. \A i \in 1 .. h : ~IsEof(q[i], m.client)
  BY <1>1 DEF IsEof
<1>4. ASSUME NEW i \in 1 .. j - k PROVE ~IsEof(p[i], m.client)
  <2>1. p[i] = q[k + i] /\ (k + i \in 1 .. h \/ k + i \in h + 1 .. j)
    BY <1>1, <1>2
  <2> QED
    BY <1>2, <1>3, <2>1
<1>5. j - k \in 0 + 1 .. Len(p) /\ p[j - k] = m
  <2>1. j - k \in 1 .. Len(q) - k /\ k + (j - k) = j
    BY <1>1, <1>2
  <2> QED
    BY <1>1, <1>2, <2>1
<1> QED
  BY <1>4, <1>5 DEF Ahead

(* A duplicate, or a message of a client that is gone, is acked past the held ones. *)
LEMMA QueueRemove ==
  ASSUME NEW q, NEW h, Queue(q, h), h < Len(q)
  PROVE  /\ Queue(RemoveAt(q, h + 1), h)
         /\ Len(RemoveAt(q, h + 1)) = Len(q) - 1
         /\ \A i \in 1 .. h : RemoveAt(q, h + 1)[i] = q[i]
         /\ \A i \in h + 1 .. Len(q) - 1 : RemoveAt(q, h + 1)[i] = q[i + 1]
<1> DEFINE p == RemoveAt(q, h + 1)
<1>1. IsSeq(q) /\ h \in 0 .. Len(q) /\ Len(q) \in Nat /\ \A k \in 1 .. h : q[k].kind = "data"
  BY DEF Queue, IsSeq
<1>2. h + 1 \in 1 .. Len(q) /\ (h + 1) - 1 = h
  BY <1>1
<1>3. /\ IsSeq(p) /\ Len(p) = Len(q) - 1
      /\ \A i \in 1 .. (h + 1) - 1 : p[i] = q[i]
      /\ \A i \in h + 1 .. Len(q) - 1 : p[i] = q[i + 1]
  BY <1>1, <1>2, RemoveAtSeq
<1> HIDE DEF p
<1>4. h \in 0 .. Len(p) /\ \A k \in 1 .. h : p[k].kind = "data"
  BY <1>1, <1>2, <1>3
<1> QED
  BY <1>2, <1>3, <1>4 DEF Queue, p

(* Acking a message that the dedup table knows, or of an aborted client,      *)
(* loses nothing.                                                             *)
LEMMA CoveredRemove ==
  ASSUME NEW q, NEW h, Queue(q, h), h < Len(q), NEW m, NEW seen, NEW saved, NEW gone,
         gone \in BOOLEAN,
         q[h + 1] = m => m.id \in seen \/ gone,
         Covered(q, h, m, seen, saved, gone)
  PROVE  Covered(RemoveAt(q, h + 1), h, m, seen, saved, gone)
<1> DEFINE p == RemoveAt(q, h + 1)
<1>0. h \in 0 .. Len(q) /\ Len(q) \in Nat
  BY DEF Queue, IsSeq
<1>1. /\ h \in 0 .. Len(q) /\ Len(q) \in Nat
      /\ Len(p) = Len(q) - 1
      /\ \A i \in 1 .. h : p[i] = q[i]
      /\ \A i \in h + 1 .. Len(q) - 1 : p[i] = q[i + 1]
  BY <1>0, QueueRemove
<1> HIDE DEF p
<1>2. HeldBack(q, h, m) => HeldBack(p, h, m)
  BY <1>1 DEF HeldBack
<1>3. ASSUME m.id \notin seen, ~gone PROVE Ahead(p, h, m)
  <2>1. PICK j \in h + 1 .. Len(q) : q[j] = m /\ \A k \in h + 1 .. j : ~IsEof(q[k], m.client)
    BY <1>3 DEF Covered, Ahead
  <2>2. q[h + 1] # m
    BY <1>3
  <2>3. j # h + 1
    BY <2>1, <2>2
  <2>4. j - 1 \in h + 1 .. Len(p) /\ j - 1 \in h + 1 .. Len(q) - 1 /\ (j - 1) + 1 = j
    BY <1>1, <2>1, <2>3
  <2>5. p[j - 1] = m
    BY <1>1, <2>1, <2>4
  <2>6. ASSUME NEW k \in h + 1 .. j - 1 PROVE ~IsEof(p[k], m.client)
    <3>1. k \in h + 1 .. Len(q) - 1 /\ k + 1 \in h + 1 .. j
      BY <1>1, <2>1, <2>4
    <3>2. p[k] = q[k + 1]
      BY <1>1, <3>1
    <3> QED
      BY <2>1, <3>1, <3>2
  <2> QED
    BY <2>4, <2>5, <2>6 DEF Ahead
<1>4. Covered(p, h, m, seen, saved, gone)
  BY <1>2, <1>3 DEF Covered
<1> QED
  BY <1>4 DEF p

(* A data message is applied: it is held from now on. *)
LEMMA QueueTake ==
  ASSUME NEW q, NEW h, Queue(q, h), h < Len(q), q[h + 1].kind = "data"
  PROVE  Queue(q, h + 1)
<1>1. IsSeq(q) /\ h \in 0 .. Len(q) /\ Len(q) \in Nat /\ \A k \in 1 .. h : q[k].kind = "data"
  BY DEF Queue, IsSeq
<1>2. h + 1 \in 0 .. Len(q) /\ \A k \in 1 .. h + 1 : k \in 1 .. h \/ k = h + 1
  BY <1>1
<1>3. \A k \in 1 .. h + 1 : q[k].kind = "data"
  BY <1>1, <1>2
<1> QED
  BY <1>1, <1>2, <1>3 DEF Queue

(* handle_data applies the next message and holds its ack: it moves from the  *)
(* ahead part to the held part.                                               *)
LEMMA CoveredTake ==
  ASSUME NEW q, NEW h, Queue(q, h), h < Len(q), NEW m, NEW seen, NEW saved, NEW gone,
         NEW x, x = q[h + 1], m.id = x.id => m = x,
         Covered(q, h, m, seen, saved, gone)
  PROVE  Covered(q, h + 1, m, seen \cup {x.id}, saved, gone)
<1>1. h \in 0 .. Len(q) /\ Len(q) \in Nat
  BY DEF Queue, IsSeq
<1>2. HeldBack(q, h, m) => HeldBack(q, h + 1, m)
  BY <1>1 DEF HeldBack
<1>3. h + 1 \in 1 .. h + 1
  BY <1>1
<1>4. m = x => HeldBack(q, h + 1, m)
  BY <1>3 DEF HeldBack
<1>5. ASSUME m # x, Ahead(q, h, m) PROVE Ahead(q, h + 1, m)
  <2>1. PICK j \in h + 1 .. Len(q) : q[j] = m /\ \A k \in h + 1 .. j : ~IsEof(q[k], m.client)
    BY <1>5 DEF Ahead
  <2>2. j # h + 1
    BY <1>5, <2>1
  <2>3. j \in (h + 1) + 1 .. Len(q) /\ \A k \in (h + 1) + 1 .. j : k \in h + 1 .. j
    BY <1>1, <2>1, <2>2
  <2>4. \A k \in (h + 1) + 1 .. j : ~IsEof(q[k], m.client)
    BY <2>1, <2>3
  <2> QED
    BY <2>1, <2>3, <2>4 DEF Ahead
<1> QED
  BY <1>2, <1>4, <1>5 DEF Covered

(* A message is not touched by what others do to the dedup table. *)
LEMMA CoveredSame ==
  ASSUME NEW q, NEW h, NEW m, NEW seen, NEW saved, NEW gone, NEW seen2,
         m.id \in seen2 <=> m.id \in seen,
         Covered(q, h, m, seen, saved, gone)
  PROVE  Covered(q, h, m, seen2, saved, gone)
  BY DEF Covered

(* A checkpoint saves what was seen. *)
LEMMA CoveredSave ==
  ASSUME NEW q, NEW h, NEW m, NEW seen, NEW saved, NEW gone, NEW gone2,
         gone => gone2, Covered(q, h, m, seen, saved, gone)
  PROVE  Covered(q, h, m, seen, seen, gone2)
  BY DEF Covered

(* The EOF or the Abort that was handled leaves the queue. *)
LEMMA QueueTail ==
  ASSUME NEW q, Queue(q, 0), 0 < Len(q)
  PROVE  /\ Queue(Tail(q), 0) /\ Len(Tail(q)) = Len(q) - 1
         /\ \A i \in 1 .. Len(q) - 1 : Tail(q)[i] = q[1 + i]
<1>1. IsSeq(q) /\ Len(q) \in Nat
  BY DEF Queue, IsSeq
<1>2. /\ IsSeq(Tail(q)) /\ Len(Tail(q)) = Len(q) - 1
      /\ \A i \in 1 .. Len(q) - 1 : Tail(q)[i] = q[1 + i]
  BY <1>1, TailSeq
<1>3. 0 \in 0 .. Len(Tail(q)) /\ 1 .. 0 = {}
  BY <1>1, <1>2
<1> QED
  BY <1>2, <1>3 DEF Queue

(* Acking an EOF or an Abort after its handler removes no data message.       *)
LEMMA CoveredTail ==
  ASSUME NEW q, Queue(q, 0), 0 < Len(q), NEW m, NEW seen, NEW saved, NEW gone,
         m.kind = "data", q[1].kind # "data",
         Covered(q, 0, m, seen, saved, gone)
  PROVE  Covered(Tail(q), 0, m, seen, saved, gone)
<1> DEFINE p == Tail(q)
<1>1. /\ Len(q) \in Nat /\ Len(p) = Len(q) - 1
      /\ \A i \in 1 .. Len(q) - 1 : p[i] = q[1 + i]
  BY QueueTail DEF Queue, IsSeq
<1> HIDE DEF p
<1>2. HeldBack(q, 0, m) => HeldBack(p, 0, m)
  BY DEF HeldBack
<1>3. ASSUME Ahead(q, 0, m) PROVE Ahead(p, 0, m)
  <2>1. PICK j \in 1 .. Len(q) : q[j] = m /\ \A k \in 1 .. j : ~IsEof(q[k], m.client)
    BY <1>3 DEF Ahead
  <2>2. j # 1
    BY <2>1
  <2>3. j - 1 \in 1 .. Len(p) /\ 1 + (j - 1) = j
    BY <1>1, <2>1, <2>2
  <2>4. p[j - 1] = m
    BY <1>1, <2>1, <2>3
  <2>5. ASSUME NEW k \in 1 .. j - 1 PROVE ~IsEof(p[k], m.client)
    <3>1. k \in 1 .. Len(q) - 1 /\ 1 + k \in 1 .. j
      BY <1>1, <2>1, <2>3
    <3> QED
      BY <1>1, <2>1, <3>1
  <2> QED
    BY <2>3, <2>4, <2>5 DEF Ahead
<1>4. Covered(p, 0, m, seen, saved, gone)
  BY <1>2, <1>3 DEF Covered
<1> QED
  BY <1>4 DEF p

(* An EOF that is handled finds all that it counts seen: no message waits behind it. *)
LEMMA EofFindsAll ==
  ASSUME NEW q, Queue(q, 0), 0 < Len(q), NEW m, NEW seen, NEW saved, NEW gone,
         IsEof(q[1], m.client), Covered(q, 0, m, seen, saved, gone), ~gone
  PROVE  m.id \in seen
<1> SUFFICES ASSUME m.id \notin seen PROVE FALSE
  OBVIOUS
<1>1. PICK j \in 1 .. Len(q) : q[j] = m /\ \A k \in 1 .. j : ~IsEof(q[k], m.client)
  BY DEF Covered, Ahead
<1>2. 1 \in 1 .. j
  BY <1>1 DEF Queue, IsSeq
<1> QED
  BY <1>1, <1>2

-----------------------------------------------------------------------------
(* What the merge function returns *)

(* Positions are counted: the n-th one exists, and each one has its number. *)
LEMMA NthPosition ==
  ASSUME NEW L \in Nat, NEW P, P \subseteq 1 .. L
  PROVE  /\ Cardinality(P) \in Nat /\ (P # {} => Cardinality(P) >= 1)
         /\ \A n \in 1 .. Cardinality(P) : Nth(P, n) \in P
         /\ \A n, k \in 1 .. Cardinality(P) : Nth(P, n) = Nth(P, k) => n = k
         /\ \A i \in P : \E n \in 1 .. Cardinality(P) : Nth(P, n) = i
<1> DEFINE Upto(i) == {j \in P : j <= i}
           f == [i \in P |-> Cardinality(Upto(i))]
           T == 1 .. Cardinality(P)
<1>1. IsFiniteSet(P) /\ Cardinality(P) \in Nat /\ P \subseteq Nat
  <2>1. IsFiniteSet(1 .. L)
    BY FS_Interval
  <2>2. IsFiniteSet(P)
    BY <2>1, FS_Subset
  <2> QED
    BY <2>2, FS_CardinalityType
<1>2. P # {} => Cardinality(P) >= 1
  BY <1>1, FS_EmptySet
<1>3. ASSUME NEW i \in P
      PROVE  IsFiniteSet(Upto(i)) /\ Cardinality(Upto(i)) \in T
  <2>1. Upto(i) \subseteq P /\ i \in Upto(i)
    BY <1>1
  <2>2. IsFiniteSet(Upto(i)) /\ Cardinality(Upto(i)) <= Cardinality(P)
    BY <1>1, <2>1, FS_Subset
  <2>3. Cardinality(Upto(i)) \in Nat /\ Cardinality(Upto(i)) # 0
    <3> HIDE DEF Upto
    <3>1. Cardinality(Upto(i)) \in Nat
      BY <2>2, FS_CardinalityType
    <3> QED
      BY <2>1, <2>2, <3>1, FS_EmptySet
  <2> QED
    BY <1>1, <2>2, <2>3
<1>4. ASSUME NEW a \in P, NEW b \in P, a < b
      PROVE  Cardinality(Upto(a)) # Cardinality(Upto(b))
  <2>0. b <= b /\ ~(b <= a) /\ \A j \in P : j <= a => j <= b
    BY <1>1, <1>4
  <2>1. Upto(a) \subseteq Upto(b) /\ b \in Upto(b) /\ b \notin Upto(a)
    BY <2>0
  <2>2. IsFiniteSet(Upto(b))
    BY <1>3
  <2> HIDE DEF Upto
  <2> QED
    BY <2>1, <2>2, FS_Subset
<1>5. f \in [P -> T]
  <2> HIDE DEF Upto, T
  <2> QED
    BY <1>3
<1>6. \A a, b \in P : f[a] = f[b] => a = b
  <2> HIDE DEF Upto
  <2> TAKE a, b \in P
  <2>1. f[a] = Cardinality(Upto(a)) /\ f[b] = Cardinality(Upto(b))
    OBVIOUS
  <2>2. a < b \/ b < a \/ a = b
    BY <1>1
  <2> QED
    BY <1>4, <2>1, <2>2
<1> HIDE DEF f
<1>7. f \in Injection(P, T)
  BY <1>5, <1>6, Fun_IsInj
<1>8. IsFiniteSet(T) /\ Cardinality(T) = Cardinality(P)
  BY <1>1, FS_Interval
<1>9. f \in Surjection(P, T)
  <2> HIDE DEF T
  <2> QED
    BY <1>7, <1>8, FS_Injection
<1>10. \A n \in T : \E i \in P : f[i] = n
  <2> HIDE DEF T
  <2> QED
    BY <1>9, Fun_SurjectionProperties
<1>11. \A i \in P : f[i] = Cardinality({j \in P : j <= i})
  BY DEF f
<1>12. ASSUME NEW n \in T PROVE Nth(P, n) \in P /\ f[Nth(P, n)] = n
  <2>1. PICK i \in P : f[i] = n
    BY <1>10
  <2>2. \E k \in P : Cardinality({j \in P : j <= k}) = n
    BY <1>11, <2>1
  <2>3. Nth(P, n) \in P /\ Cardinality({j \in P : j <= Nth(P, n)}) = n
    BY <2>2 DEF Nth
  <2> QED
    BY <1>11, <2>3
<1>13. \A n, k \in T : Nth(P, n) = Nth(P, k) => n = k
  BY <1>12
<1>14. \A i \in P : \E n \in T : Nth(P, n) = i
  <2> TAKE i \in P
  <2>1. f[i] \in T
    BY <1>5
  <2> QED
    BY <1>6, <1>12, <2>1
<1> QED
  BY <1>1, <1>2, <1>12, <1>13, <1>14

(* The rows at some positions of r, in order. *)
LEMMA SubsequenceOfRows ==
  ASSUME NEW S, NEW r \in Seq(S), NEW P, P \subseteq DOMAIN r, P # {}
  PROVE  /\ Subsequence(r, P) \in Seq(S) /\ Len(Subsequence(r, P)) \in Nat \ {0}
         /\ ToSet(Subsequence(r, P)) = {r[i] : i \in P}
         /\ IsInjective(r) => IsInjective(Subsequence(r, P))
<1> DEFINE n == Cardinality(P)
           t == Subsequence(r, P)
<1>1. Len(r) \in Nat /\ DOMAIN r = 1 .. Len(r) /\ \A i \in DOMAIN r : r[i] \in S
  BY LenProperties, ElementOfSeq
<1>2. P \subseteq 1 .. Len(r)
  BY <1>1
<1>3. n \in Nat /\ n >= 1
  BY <1>1, <1>2, NthPosition
<1>4. \A k \in 1 .. n : Nth(P, k) \in P
  BY <1>1, <1>2, NthPosition
<1>5. \A k, j \in 1 .. n : Nth(P, k) = Nth(P, j) => k = j
  BY <1>1, <1>2, NthPosition
<1>6. \A i \in P : \E k \in 1 .. n : Nth(P, k) = i
  BY <1>1, <1>2, NthPosition
<1> HIDE DEF n
<1>7. t = [k \in 1 .. n |-> r[Nth(P, k)]]
  BY DEF Subsequence, n
<1>8. DOMAIN t = 1 .. n /\ \A k \in 1 .. n : t[k] = r[Nth(P, k)]
  BY <1>7
<1>9. t \in [1 .. n -> S]
  BY <1>1, <1>4, <1>7
<1> HIDE DEF t
<1>10. t \in Seq(S) /\ Len(t) = n
  <2>1. t \in Seq(S)
    BY <1>3, <1>9, SeqDef
  <2>2. DOMAIN t = 1 .. Len(t) /\ Len(t) \in Nat
    BY <2>1, LenProperties
  <2> QED
    BY <1>3, <1>8, <2>1, <2>2
<1>11. ToSet(t) = {r[i] : i \in P}
  BY <1>4, <1>6, <1>8 DEF ToSet
<1>12. IsInjective(r) => IsInjective(t)
  <2> SUFFICES ASSUME IsInjective(r), NEW k \in 1 .. n, NEW j \in 1 .. n, t[k] = t[j] PROVE k = j
    BY <1>8 DEF IsInjective
  <2>1. Nth(P, k) \in DOMAIN r /\ Nth(P, j) \in DOMAIN r /\ r[Nth(P, k)] = r[Nth(P, j)]
    BY <1>4, <1>8
  <2> QED
    BY <1>5, <2>1 DEF IsInjective
<1> QED
  BY <1>3, <1>10, <1>11, <1>12 DEF t

(* The merge returns each row that matches once, and one message when none does. *)
Matches(l, r) == {row \in ToSet(r) : KeyOf[row] \in ToSet(l)}

(* What get_result returns: the matching rows of the right side, each once,   *)
(* or the one empty message.                                                  *)
LEMMA ResultRows ==
  ASSUME UseCase2, NEW S, NEW r \in Seq(S), NEW l
  PROVE  /\ Result(l, r) \in Seq(S \cup {"empty"}) /\ Len(Result(l, r)) \in Nat \ {0}
         /\ ToSet(Result(l, r)) = IF Matches(l, r) = {} THEN {"empty"} ELSE Matches(l, r)
         /\ IsInjective(r) => IsInjective(Result(l, r))
<1> DEFINE matching == Matches(l, r)
           P == {i \in DOMAIN r : KeyOf[r[i]] \in ToSet(l)}
           t == Result(l, r)
<1>1. matching = {r[i] : i \in P}
  BY DEF ToSet, Matches
<1>2. t = IF P = {} THEN <<"empty">> ELSE Subsequence(r, P)
  BY DEF Result, UseCase2
<1> HIDE DEF matching, t
<1>3. CASE P = {}
  <2>1. matching = {} /\ t = <<"empty">>
    BY <1>1, <1>2, <1>3
  <2>2. <<"empty">> \in Seq(S \cup {"empty"}) /\ Len(<<"empty">>) = 1
    OBVIOUS
  <2>3. ToSet(<<"empty">>) = {"empty"} /\ IsInjective(<<"empty">>)
    BY DEF ToSet, IsInjective
  <2> QED
    BY <2>1, <2>2, <2>3 DEF matching, t
<1>4. CASE P # {}
  <2>1. t = Subsequence(r, P) /\ P \subseteq DOMAIN r
    BY <1>2, <1>4
  <2> HIDE DEF P
  <2>2. /\ t \in Seq(S) /\ Len(t) \in Nat \ {0}
        /\ ToSet(t) = {r[i] : i \in P}
        /\ IsInjective(r) => IsInjective(t)
    BY <1>4, <2>1, SubsequenceOfRows
  <2>3. t \in Seq(S \cup {"empty"})
    BY <2>2, SeqMonotonic
  <2>4. matching # {} /\ ToSet(t) = matching
    BY <1>1, <1>4, <2>2
  <2> QED
    BY <2>2, <2>3, <2>4 DEF matching, t
<1> QED
  BY <1>3, <1>4

-----------------------------------------------------------------------------
(* What is queued at first *)

(* The elements of a finite set can be put in a sequence. *)
LEMMA SetToSeqIsSeq ==
  ASSUME NEW S, IsFiniteSet(S)
  PROVE  SetToSeq(S) \in Seq(S)
<1>1. Cardinality(S) \in Nat /\ ExistsBijection(1 .. Cardinality(S), S)
  BY FS_CardinalityType
<1>2. PICK f : f \in Bijection(1 .. Cardinality(S), S)
  BY <1>1 DEF ExistsBijection
<1>3. f \in [1 .. Cardinality(S) -> S] /\ f \in Injection(1 .. Cardinality(S), S)
  BY <1>2, Fun_BijectionProperties
<1>4. f \in [1 .. Cardinality(S) -> S] /\ IsInjective(f)
  BY <1>3 DEF Injection
<1>5. SetToSeq(S) \in [1 .. Cardinality(S) -> S]
  BY <1>4 DEF SetToSeq
<1> QED
  BY <1>1, <1>5, SeqDef

(* The fields of the messages. *)
LEMMA MessageFields ==
  ASSUME NEW c, NEW id, NEW row, NEW n
  PROVE  /\ M!Data(c, id, row).kind = "data" /\ M!Data(c, id, row).client = c
         /\ M!Data(c, id, row).id = id /\ M!Data(c, id, row).row = row
         /\ M!Eof(c, n).kind = "eof" /\ M!Eof(c, n).client = c /\ M!Eof(c, n).count = n
         /\ M!Abort(c).kind = "abort" /\ M!Abort(c).client = c
  BY DEF M!Data, M!Eof, M!Abort

(* Data numbered by position and behind it the EOFs make an input. *)
DataOnly(data, s) ==
  /\ IsSeq(data)
  /\ \A i \in 1 .. Len(data) :
       /\ data[i].kind = "data" /\ data[i].client \in Clients
       /\ data[i].id = <<s, i>> /\ data[i].row \in Rows

(* What the upstream fleets queue: the data in its order and, behind all of   *)
(* it, the EOFs.                                                              *)
LEMMA QueuedShape ==
  ASSUME NEW s, NEW data, DataOnly(data, s), NEW order \in Seq(Clients)
  PROVE  /\ IsSeq(Queued(data, order)) /\ Len(Queued(data, order)) >= Len(data)
         /\ \A i \in 1 .. Len(data) : Queued(data, order)[i] = data[i]
         /\ \A i \in Len(data) + 1 .. Len(Queued(data, order)) :
              /\ Queued(data, order)[i].kind = "eof" /\ Queued(data, order)[i].client \in Clients
              /\ Queued(data, order)[i].count \in Nat
<1> DEFINE eofs == [k \in DOMAIN order |-> M!Eof(order[k], Cardinality(DataAt(data, order[k])))]
           S == {data[k] : k \in 1 .. Len(data)} \cup {eofs[k] : k \in DOMAIN order}
           q == Queued(data, order)
<1>1. /\ Len(order) \in Nat /\ DOMAIN order = 1 .. Len(order)
      /\ \A k \in DOMAIN order : order[k] \in Clients
  BY LenProperties, ElementOfSeq
<1>2. Len(data) \in Nat /\ data \in [1 .. Len(data) -> S] /\ DOMAIN data = 1 .. Len(data)
  <2>1. Len(data) \in Nat /\ data = [k \in 1 .. Len(data) |-> data[k]]
    BY DEF DataOnly, IsSeq
  <2> QED
    BY <2>1
<1>3. ASSUME NEW c PROVE Cardinality(DataAt(data, c)) \in Nat
  <2>1. DataAt(data, c) \subseteq 1 .. Len(data)
    BY <1>2 DEF DataAt
  <2>2. IsFiniteSet(1 .. Len(data))
    <3>1. 1 \in Int /\ Len(data) \in Int
      BY <1>2
    <3> QED
      BY <3>1, FS_Interval
  <2>3. IsFiniteSet(DataAt(data, c))
    BY <2>1, <2>2, FS_Subset
  <2> QED
    BY <2>3, FS_CardinalityType
<1>4. ASSUME NEW k \in DOMAIN order
      PROVE  eofs[k].kind = "eof" /\ eofs[k].client \in Clients /\ eofs[k].count \in Nat
  <2>1. eofs[k] = M!Eof(order[k], Cardinality(DataAt(data, order[k])))
    OBVIOUS
  <2>2. Cardinality(DataAt(data, order[k])) \in Nat /\ order[k] \in Clients
    BY <1>1, <1>3
  <2> HIDE DEF eofs
  <2> QED
    BY <2>1, <2>2, MessageFields
<1>5. eofs \in [1 .. Len(order) -> S] /\ DOMAIN eofs = 1 .. Len(order)
  BY <1>1
<1>6. q = data \o eofs
  BY DEF Queued
<1> HIDE DEF eofs, S, q
<1>7. data \in Seq(S) /\ eofs \in Seq(S)
  BY <1>1, <1>2, <1>5, SeqDef
<1>8. Len(eofs) = Len(order)
  <2>1. DOMAIN eofs = 1 .. Len(eofs) /\ Len(eofs) \in Nat
    BY <1>7, LenProperties
  <2> QED
    BY <1>1, <1>5, <2>1
<1>9. /\ q \in Seq(S) /\ Len(q) = Len(data) + Len(order)
      /\ \A i \in 1 .. Len(data) + Len(order) :
           q[i] = IF i <= Len(data) THEN data[i] ELSE eofs[i - Len(data)]
  <2>1. /\ q \in Seq(S) /\ Len(q) = Len(data) + Len(eofs)
        /\ \A i \in 1 .. Len(data) + Len(eofs) :
             q[i] = IF i <= Len(data) THEN data[i] ELSE eofs[i - Len(data)]
    BY <1>6, <1>7, ConcatProperties
  <2> QED
    BY <1>8, <2>1
<1>10. IsSeq(q) /\ Len(q) >= Len(data)
  BY <1>1, <1>2, <1>9, SeqIsSeq
<1>11. \A i \in 1 .. Len(data) : q[i] = data[i]
  BY <1>1, <1>2, <1>9
<1>12. ASSUME NEW i \in Len(data) + 1 .. Len(q)
       PROVE  q[i].kind = "eof" /\ q[i].client \in Clients /\ q[i].count \in Nat
  <2>1. i - Len(data) \in DOMAIN order /\ q[i] = eofs[i - Len(data)]
    BY <1>1, <1>2, <1>9
  <2> QED
    BY <1>4, <2>1
<1> QED
  BY <1>10, <1>11, <1>12 DEF q

(* The broadcast side. *)
LEMMA LeftDataShape == DataOnly(LeftData, "left")
<1> DEFINE f == [c \in Clients |-> {c} \X LeftKeys[c]]
           T == {f[c] : c \in Clients}
           pairs == UNION {{c} \X LeftKeys[c] : c \in Clients}
           keys == SetToSeq(pairs)
<1>1. IsFiniteSet(Clients) /\ \A c \in Clients : IsFiniteSet(LeftKeys[c])
  BY MergeJoinAssumption
<1>2. ASSUME NEW c \in Clients PROVE IsFiniteSet(f[c])
  <2>1. IsFiniteSet({c}) /\ IsFiniteSet(LeftKeys[c])
    BY <1>1, FS_Singleton
  <2>2. IsFiniteSet({c} \X LeftKeys[c])
    BY <2>1, FS_Product
  <2> QED
    BY <2>2
<1>3. f \in Surjection(Clients, T)
  <2>1. f \in [Clients -> T] /\ \A t \in T : \E c \in Clients : f[c] = t
    OBVIOUS
  <2> HIDE DEF f, T
  <2> QED
    BY <2>1, Fun_IsSurj
<1>4. pairs = UNION T
  OBVIOUS
<1>5. \A t \in T : IsFiniteSet(t)
  BY <1>2
<1>6. IsFiniteSet(UNION T)
  <2> HIDE DEF f, T
  <2>1. IsFiniteSet(T)
    BY <1>1, <1>3, FS_Surjection
  <2> QED
    BY <1>5, <2>1, FS_UNION
<1>7. keys \in Seq(pairs)
  <2> HIDE DEF pairs, T
  <2> QED
    BY <1>4, <1>6, SetToSeqIsSeq
<1>8. LeftData = [i \in DOMAIN keys |-> M!Data(keys[i][1], <<"left", i>>, keys[i][2])]
  BY DEF LeftData
<1> HIDE DEF keys
<1>9. Len(keys) \in Nat /\ DOMAIN keys = 1 .. Len(keys) /\ \A i \in DOMAIN keys : keys[i] \in pairs
  BY <1>7, LenProperties, ElementOfSeq
<1>10. \A p \in pairs : p[1] \in Clients /\ p[2] \in Rows
  BY DEF Rows
<1> HIDE DEF pairs
<1>11. \A i \in 1 .. Len(keys) : LeftData[i] = M!Data(keys[i][1], <<"left", i>>, keys[i][2])
  BY <1>8, <1>9
<1>12. LeftData = [i \in 1 .. Len(keys) |-> LeftData[i]]
  BY <1>8, <1>9
<1>13. IsSeq(LeftData) /\ Len(LeftData) = Len(keys)
  BY <1>9, <1>12, FunctionIsSeq
<1>14. ASSUME NEW i \in 1 .. Len(keys)
       PROVE  /\ LeftData[i].kind = "data" /\ LeftData[i].client \in Clients
              /\ LeftData[i].id = <<"left", i>> /\ LeftData[i].row \in Rows
  <2>1. LeftData[i] = M!Data(keys[i][1], <<"left", i>>, keys[i][2])
    BY <1>11
  <2>2. keys[i][1] \in Clients /\ keys[i][2] \in Rows
    BY <1>9, <1>10
  <2> QED
    BY <2>1, <2>2, MessageFields
<1> QED
  BY <1>13, <1>14 DEF DataOnly

(* The sharded side: a row is one message. *)
LEMMA RightDataShape ==
  ASSUME NEW a \in Arrivals
  PROVE  /\ DataOnly(RightData(a), "right")
         /\ \A i, j \in 1 .. Len(RightData(a)) : RightData(a)[i].row = RightData(a)[j].row => i = j
<1> DEFINE d == RightData(a)
<1>1. a \in Seq(DOMAIN ClientOf) /\ IsInjective(a) /\ ClientOf \in [DOMAIN ClientOf -> Clients]
  BY MergeJoinAssumption
<1>2. Len(a) \in Nat /\ DOMAIN a = 1 .. Len(a) /\ \A i \in DOMAIN a : a[i] \in DOMAIN ClientOf
  BY <1>1, LenProperties, ElementOfSeq
<1>3. d = [i \in 1 .. Len(a) |-> M!Data(ClientOf[a[i]], <<"right", i>>, a[i])]
  BY <1>2 DEF RightData
<1> HIDE DEF d
<1>4. \A i \in 1 .. Len(a) : d[i] = M!Data(ClientOf[a[i]], <<"right", i>>, a[i])
  BY <1>3
<1>5. d = [i \in 1 .. Len(a) |-> d[i]]
  BY <1>3
<1>6. IsSeq(d) /\ Len(d) = Len(a)
  BY <1>2, <1>5, FunctionIsSeq
<1>7. ASSUME NEW i \in 1 .. Len(a)
      PROVE  /\ d[i].kind = "data" /\ d[i].client \in Clients
             /\ d[i].id = <<"right", i>> /\ d[i].row \in Rows /\ d[i].row = a[i]
  <2>1. d[i] = M!Data(ClientOf[a[i]], <<"right", i>>, a[i])
    BY <1>4
  <2>2. a[i] \in DOMAIN ClientOf
    BY <1>2
  <2>3. ClientOf[a[i]] \in Clients /\ a[i] \in Rows
    BY <1>1, <2>2 DEF Rows
  <2> QED
    BY <2>1, <2>3, MessageFields
<1>8. \A i, j \in 1 .. Len(a) : d[i].row = d[j].row => i = j
  BY <1>1, <1>2, <1>7 DEF IsInjective
<1> QED
  BY <1>6, <1>7, <1>8 DEF DataOnly, d

(* At first: what upstream has queued. *)
LEMMA InputInit == UseCase2 /\ Init => InputOK
<1> SUFFICES ASSUME UseCase2, Init PROVE InputOK
  OBVIOUS
<1>1. PICK a \in Arrivals :
        input = [s \in M!Sides |-> IF s = "left" THEN Queued(LeftData, SetToSeq(Clients))
                                   ELSE Queued(RightData(a), Reverse(SetToSeq(Clients)))]
  BY DEF Init
<1>2. SetToSeq(Clients) \in Seq(Clients)
  BY MergeJoinAssumption, SetToSeqIsSeq
<1>3. Reverse(SetToSeq(Clients)) \in Seq(Clients)
  <2> DEFINE t == SetToSeq(Clients)
             u == Reverse(t)
  <2> HIDE DEF t
  <2>1. t \in Seq(Clients)
    BY <1>2 DEF t
  <2>2. Len(t) \in Nat /\ \A i \in 1 .. Len(t) : t[i] \in Clients
    BY <2>1, LenProperties, ElementOfSeq
  <2>3. \A i \in 1 .. Len(t) : t[(Len(t) - i) + 1] \in Clients
    BY <2>2
  <2>4. u \in [1 .. Len(t) -> Clients]
    BY <2>3 DEF Reverse
  <2> HIDE DEF u
  <2>5. u \in Seq(Clients)
    BY <2>2, <2>4, SeqDef
  <2> QED
    BY <2>5 DEF t, u
<1> DEFINE Side(s) == IF s = "left" THEN LeftData ELSE RightData(a)
           Order(s) == IF s = "left" THEN SetToSeq(Clients) ELSE Reverse(SetToSeq(Clients))
<1>4. DOMAIN input = Sides /\ \A s \in Sides : input[s] = Queued(Side(s), Order(s))
  BY <1>1 DEF Sides, M!Sides
<1>5. \A s \in Sides : DataOnly(Side(s), s) /\ Order(s) \in Seq(Clients)
  BY <1>2, <1>3, LeftDataShape, RightDataShape DEF Sides, M!Sides
<1>6. "right" \in Sides /\ Side("right") = RightData(a)
  BY DEF Sides, M!Sides
<1> HIDE DEF Side, Order
<1>7. ASSUME NEW s \in Sides
      PROVE  /\ IsSeq(input[s]) /\ Len(input[s]) >= Len(Side(s)) /\ Len(Side(s)) \in Nat
             /\ DOMAIN input[s] = 1 .. Len(input[s]) /\ Len(input[s]) \in Nat
             /\ \A i \in 1 .. Len(Side(s)) : input[s][i] = Side(s)[i]
             /\ \A i \in Len(Side(s)) + 1 .. Len(input[s]) :
                  input[s][i].kind = "eof" /\ input[s][i].client \in Clients /\ input[s][i].count \in Nat
  <2>1. input[s] = Queued(Side(s), Order(s)) /\ DataOnly(Side(s), s) /\ Order(s) \in Seq(Clients)
    BY <1>4, <1>5
  <2>2. Len(Side(s)) \in Nat
    BY <2>1 DEF DataOnly, IsSeq
  <2>3. /\ IsSeq(input[s]) /\ Len(input[s]) >= Len(Side(s))
        /\ \A i \in 1 .. Len(Side(s)) : input[s][i] = Side(s)[i]
        /\ \A i \in Len(Side(s)) + 1 .. Len(input[s]) :
             input[s][i].kind = "eof" /\ input[s][i].client \in Clients /\ input[s][i].count \in Nat
    BY <2>1, QueuedShape
  <2>4. DOMAIN input[s] = 1 .. Len(input[s]) /\ Len(input[s]) \in Nat
    BY <2>3, SeqOfItself
  <2> QED
    BY <2>2, <2>3, <2>4
<1>8. ASSUME NEW s \in Sides, NEW i \in DOMAIN input[s]
      PROVE  \/ /\ i \in 1 .. Len(Side(s)) /\ input[s][i] = Side(s)[i]
                /\ input[s][i].kind = "data" /\ input[s][i].client \in Clients
                /\ input[s][i].id = <<s, i>> /\ input[s][i].row \in Rows
             \/ /\ i \in Len(Side(s)) + 1 .. Len(input[s])
                /\ input[s][i].kind = "eof" /\ input[s][i].client \in Clients
                /\ input[s][i].count \in Nat
  <2>1. i \in 1 .. Len(Side(s)) \/ i \in Len(Side(s)) + 1 .. Len(input[s])
    BY <1>7
  <2>2. CASE i \in 1 .. Len(Side(s))
    <3>1. /\ Side(s)[i].kind = "data" /\ Side(s)[i].client \in Clients
          /\ Side(s)[i].id = <<s, i>> /\ Side(s)[i].row \in Rows
      BY <1>5, <2>2 DEF DataOnly
    <3>2. input[s][i] = Side(s)[i]
      BY <1>7, <2>2
    <3> QED
      BY <2>2, <3>1, <3>2
  <2>3. CASE i \in Len(Side(s)) + 1 .. Len(input[s])
    BY <1>7, <2>3
  <2> QED
    BY <2>1, <2>2, <2>3
<1>9. ASSUME NEW s \in Sides, NEW i \in DOMAIN input[s], NEW j \in DOMAIN input[s],
             input[s][i].kind = "eof", input[s][j].kind = "data"
      PROVE  j < i
  <2>1. i \in Len(Side(s)) + 1 .. Len(input[s]) /\ j \in 1 .. Len(Side(s))
    <3>1. input[s][i].kind # "data" /\ input[s][j].kind # "eof"
      BY <1>9
    <3> QED
      BY <1>8, <3>1
  <2>2. Len(Side(s)) \in Nat /\ Len(input[s]) \in Nat
    BY <1>7
  <2> QED
    BY <2>1, <2>2
<1>10. ASSUME NEW s \in Sides, NEW i \in DOMAIN input[s]
       PROVE  /\ input[s][i].kind \in {"data", "eof"} /\ input[s][i].client \in Clients
              /\ input[s][i].kind = "data" =>
                   input[s][i].id = <<s, i>> /\ input[s][i].row \in Rows
              /\ input[s][i].kind = "eof" =>
                   /\ input[s][i].count \in Nat
                   /\ \A j \in DOMAIN input[s] : input[s][j].kind = "data" => j < i
  BY <1>8, <1>9
<1>11. ASSUME NEW i \in DOMAIN input["right"], NEW j \in DOMAIN input["right"],
              input["right"][i].kind = "data", input["right"][j].kind = "data",
              input["right"][i].row = input["right"][j].row
       PROVE  i = j
  <2>1. /\ i \in 1 .. Len(RightData(a)) /\ input["right"][i] = RightData(a)[i]
        /\ j \in 1 .. Len(RightData(a)) /\ input["right"][j] = RightData(a)[j]
    <3>1. input["right"][i].kind # "eof" /\ input["right"][j].kind # "eof"
      BY <1>11
    <3> QED
      BY <1>6, <1>8, <3>1
  <2> QED
    BY <1>11, <2>1, RightDataShape
<1> QED
  BY <1>4, <1>7, <1>10, <1>11 DEF InputOK

(* At first both nodes are fresh and nothing was stamped. *)
LEMMA MergeInit == UseCase2 /\ Init => MergeInv
<1> SUFFICES ASSUME UseCase2, Init PROVE MergeInv
  OBVIOUS
<1>1. InputOK
  BY InputInit
<1>2. /\ qin = input /\ mheld = [s \in Sides |-> 0]
      /\ mmem = M!FreshMemory /\ mckpt = M!FreshMemory /\ mdirty = FALSE
      /\ mpc = "idle" /\ mtask = "none" /\ mat = "left" /\ todo = <<>>
      /\ mclient = CHOOSE c \in Clients : TRUE
      /\ stamped = {}
  BY DEF Init, M!Init, Sides
<1>3. "left" \in Sides /\ \A s \in Sides : mheld[s] = 0
  BY <1>2 DEF Sides, M!Sides
<1>4. mmem.seen = {} /\ mckpt.seen = {} /\ mmem.seq = 0 /\ mckpt.seq = 0
  BY <1>2 DEF M!FreshMemory
<1>5. \A c \in Clients : mmem.of[c] = M!FreshClient /\ mckpt.of[c] = M!FreshClient
  BY <1>2 DEF M!FreshMemory
<1>6. M!FreshClient \in MergeRecord
  <2>1. <<>> \in Seq(Rows)
    BY EmptySeq
  <2>2. [s \in Sides |-> <<>>] \in [Sides -> Seq(Rows)] /\ [s \in Sides |-> -1] \in [Sides -> Int]
    BY <2>1
  <2> QED
    BY <2>2 DEF MergeRecord, M!FreshClient, M!NoCounts, M!Unknown, Sides
<1>7. M!FreshMemory \in MergeMemory
  BY <1>6 DEF MergeMemory, M!FreshMemory
<1>8. MergeTyped
  <2>1. mclient \in Clients
    BY <1>2, MergeJoinAssumption
  <2>2. todo \in Seq(OutRows)
    BY <1>2, EmptySeq
  <2>3. mpc \in DOMAIN Tasks \ {"respond"} /\ mtask \in Tasks[mpc]
    BY <1>2 DEF Tasks
  <2>4. DOMAIN qin = Sides /\ DOMAIN mheld = Sides
    BY <1>1, <1>2 DEF InputOK
  <2> QED
    BY <1>2, <1>3, <1>7, <2>1, <2>2, <2>3, <2>4 DEF MergeTyped
<1>9. \A c \in Clients :
        /\ ~M!Complete(mmem.of[c]) /\ ~Frozen(c)
        /\ mmem.of[c].phase = "PROCESSING" /\ ~mmem.of[c].aborted /\ ~mckpt.of[c].aborted
        /\ mckpt.of[c].phase = "PROCESSING"
  BY <1>5 DEF Frozen, M!Complete, M!FreshClient, M!Unknown
<1>10. ASSUME NEW s \in Sides PROVE MergeQueue(s)
  <2> DEFINE q == input[s]
  <2>1. IsSeq(q) /\ DOMAIN q = 1 .. Len(q) /\ Len(q) \in Nat
    BY <1>1, SeqOfItself DEF InputOK
  <2>2. Queue(q, 0)
    BY <2>1 DEF Queue
  <2>3. \A i \in DOMAIN q : q[i] \in ToSet(input[s])
    BY DEF ToSet
  <2>4. ASSUME NEW m \in DataIn(q) PROVE Ahead(q, 0, m)
    <3>1. m.kind = "data" /\ \E j \in DOMAIN q : q[j] = m
      BY DEF DataIn, ToSet
    <3>2. PICK j \in DOMAIN q : q[j] = m
      BY <3>1
    <3>3. ASSUME NEW k \in 1 .. j, IsEof(q[k], m.client) PROVE FALSE
      <4>1. k \in DOMAIN q /\ j \in DOMAIN q /\ q[k].kind = "eof" /\ q[j].kind = "data"
        BY <2>1, <3>1, <3>2, <3>3 DEF IsEof
      <4>2. j < k
        BY <1>1, <4>1 DEF InputOK
      <4> QED
        BY <2>1, <3>2, <4>2
    <3>4. j \in 0 + 1 .. Len(q) /\ \A k \in 0 + 1 .. j : ~IsEof(q[k], m.client)
      BY <2>1, <3>2, <3>3
    <3> QED
      BY <3>2, <3>4 DEF Ahead
  <2> HIDE DEF q
  <2>5. qin[s] = q /\ mheld[s] = 0 /\ input[s] = q
    BY <1>2, <1>3 DEF q
  <2>6. \A m \in DataIn(input[s]) :
          Covered(qin[s], mheld[s], m, mmem.seen, mckpt.seen, mckpt.of[m.client].aborted)
    BY <1>4, <2>4, <2>5 DEF Covered
  <2> QED
    BY <2>2, <2>3, <2>5, <2>6 DEF MergeQueue
<1>11. Saved(mmem, mckpt, mdirty, mpc, mtask)
  BY <1>2, <1>4, <1>9 DEF Saved
<1>12. Event(qin[mat], mheld[mat], mpc, mtask, mclient)
  BY <1>2 DEF Event, Handling
<1>13. ASSUME NEW c \in Clients PROVE Accumulated(input, mmem, c) /\ Accumulated(input, mckpt, c)
  <2> SUFFICES ASSUME NEW X, X.seen = {}, X.of[c] = M!FreshClient PROVE Accumulated(input, X, c)
    BY <1>4, <1>5
  <2> DEFINE r == X.of[c]
  <2>1. /\ ~r.aborted /\ r.expected = M!Unknown
        /\ \A s \in Sides : r.counts[s] = M!Unknown /\ r.rows[s] = <<>>
    BY DEF M!FreshClient, M!NoCounts, Sides
  <2>2. "right" \in Sides
    BY DEF Sides, M!Sides
  <2>3. ToSet(<<>>) = {} /\ IsInjective(<<>>)
    BY DEF ToSet, IsInjective
  <2> HIDE DEF r
  <2>4. \A s \in Sides : ToSet(r.rows[s]) = {} /\ {j \in DataAt(input[s], c) : <<s, j>> \in X.seen} = {}
    BY <2>1, <2>3
  <2>5. \A s \in Sides :
          ToSet(r.rows[s]) = {input[s][i].row : i \in {j \in DataAt(input[s], c) : <<s, j>> \in X.seen}}
    BY <2>4
  <2>6. IsInjective(r.rows["right"])
    BY <2>1, <2>2, <2>3
  <2> QED
    BY <2>1, <2>5, <2>6 DEF Accumulated, r
<1>14. SeenWasQueued
  BY <1>4 DEF SeenWasQueued
<1>15. Emitting
  BY <1>2, <1>4, <1>9 DEF Emitting
<1>16. Stamps
  <2>1. \A c \in Clients : StampedFor(c) = {}
    BY <1>2 DEF StampedFor
  <2> QED
    BY <1>2, <1>9, <2>1 DEF Stamps, StampedOnce
<1> QED
  BY <1>1, <1>8, <1>10, <1>11, <1>12, <1>13, <1>14, <1>15, <1>16 DEF MergeInv

(* Both nodes start with empty checkpoints and nothing between them.          *)
LEMMA JoinInit == UseCase2 /\ Init => JoinInv
<1> SUFFICES ASSUME UseCase2, Init PROVE JoinInv
  OBVIOUS
<1>1. /\ link = <<>> /\ jheld = 0 /\ stamped = {}
      /\ jmem = J!FreshMemory /\ jckpt = J!FreshMemory /\ jdirty = FALSE
      /\ jpc = "idle" /\ jtask = "none" /\ jclient = CHOOSE c \in Clients : TRUE
  BY DEF Init, M!Init, J!Init
<1>2. jmem.seen = {} /\ jckpt.seen = {}
  BY <1>1 DEF J!FreshMemory
<1>3. \A c \in Clients : jmem.of[c] = J!FreshClient /\ jckpt.of[c] = J!FreshClient
  BY <1>1 DEF J!FreshMemory
<1>4. JoinTyped
  <2>1. <<>> \in Seq(OutRows)
    BY EmptySeq
  <2>2. J!FreshMemory \in JoinMemory
    BY <2>1 DEF JoinMemory, JoinRecord, J!FreshMemory, J!FreshClient, J!Unknown
  <2>3. jclient \in Clients
    BY <1>1, MergeJoinAssumption
  <2>4. jpc \in DOMAIN Tasks \ {"emit", "abort", "recheck"} /\ jtask \in Tasks[jpc]
    BY <1>1 DEF Tasks
  <2> QED
    BY <1>1, <2>2, <2>3, <2>4 DEF JoinTyped
<1>5. LinkOK
  <2>1. IsSeq(<<>>) /\ Len(<<>>) = 0 /\ DOMAIN <<>> = {}
    <3>1. <<>> \in Seq({}) /\ Len(<<>>) = 0
      BY EmptySeq
    <3>2. IsSeq(<<>>)
      BY <3>1, SeqIsSeq
    <3>3. DOMAIN <<>> = 1 .. Len(<<>>)
      BY <3>1, LenProperties
    <3> QED
      BY <3>1, <3>2, <3>3
  <2>2. Queue(<<>>, 0)
    BY <2>1 DEF Queue
  <2> QED
    BY <1>1, <2>1, <2>2 DEF LinkOK
<1>6. Saved(jmem, jckpt, jdirty, jpc, jtask)
  BY <1>1, <1>2, <1>3 DEF Saved, J!FreshClient
<1>7. Event(link, jheld, jpc, jtask, jclient)
  BY <1>1 DEF Event, Handling
<1>8. JoinSeen /\ Responding
  BY <1>1, <1>2 DEF JoinSeen, Responding
<1>9. ASSUME NEW c \in Clients
      PROVE  Joined(StampedFor(c), Whole(c), J!FreshClient, {})
  <2>1. StampedFor(c) = {} /\ RowsIn(SeenIn({}, {})) = {}
    BY <1>1 DEF StampedFor, RowsIn, SeenIn
  <2>2. Len(<<>>) = 0 /\ DOMAIN <<>> = {}
    OBVIOUS
  <2>3. ToSet(<<>>) = {} /\ IsInjective(<<>>)
    BY <2>2 DEF ToSet, IsInjective
  <2> QED
    BY <2>1, <2>2, <2>3 DEF Joined, J!FreshClient, J!Unknown
<1> QED
  BY <1>2, <1>3, <1>4, <1>5, <1>6, <1>7, <1>8, <1>9 DEF JoinInv

-----------------------------------------------------------------------------
(* Steps of the merge: what most of them leave alone *)

(* The whole result of a client is a matter of its input. *)
LEMMA SameInput ==
  ASSUME input' = input
  PROVE  /\ \A c : Whole(c)' = Whole(c)
         /\ InputOK => InputOK'
<1>1. \A s, c : RowsOf(s, c)' = RowsOf(s, c)
  BY DEF RowsOf
<1>2. \A c : Whole(c)' = Whole(c)
  BY <1>1 DEF Whole
<1>3. InputOK => InputOK'
  BY DEF InputOK
<1> QED
  BY <1>2, <1>3

(* The frozen emission is a function of the merge's checkpoint, so a step     *)
(* that saves nothing leaves it alone.                                        *)
LEMMA SameCheckpoint ==
  ASSUME input' = input, mckpt' = mckpt, stamped' = stamped
  PROVE  /\ \A c : Frozen(c)' <=> Frozen(c)
         /\ \A c : Emission(c)' = Emission(c)
         /\ \A c, i : Numbered(c, i)' = Numbered(c, i)
         /\ \A c : StampedFor(c)' = StampedFor(c)
         /\ \A c : Final(c)' <=> Final(c)
         /\ Stamps => Stamps'
<1>1. \A c : Frozen(c)' <=> Frozen(c)
  BY DEF Frozen
<1>2. \A c : Emission(c)' = Emission(c)
  BY DEF Emission
<1>3. \A c, i : Numbered(c, i)' = Numbered(c, i)
  BY <1>2 DEF Numbered
<1>4. \A c : StampedFor(c)' = StampedFor(c)
  BY DEF StampedFor
<1>5. \A c : Whole(c)' = Whole(c)
  BY SameInput
<1>6. \A c : Final(c)' <=> Final(c)
  BY <1>1, <1>4, <1>5 DEF Final
<1>7. Stamps => Stamps'
  <2>1. StampedOnce => StampedOnce'
    BY DEF StampedOnce
  <2> QED
    BY <1>1, <1>2, <1>3, <1>4, <1>5, <2>1 DEF Stamps
<1> QED
  BY <1>1, <1>2, <1>3, <1>4, <1>6, <1>7

(* A client is frozen only from the EOF that completes it until DONE is saved. *)
LEMMA WhenFrozen ==
  ASSUME MergeInv, \/ mpc \in {"idle", "ack", "handle", "done", "abort"}
                   \/ mtask \notin {"eof", "start"} /\ mpc \notin {"emit", "down"}
                   \/ mpc = "free" /\ mtask = "eof"
  PROVE  \A c \in Clients : ~Frozen(c)
<1>1. Emitting
  BY DEF MergeInv
<1>2. \A c \in Clients : Frozen(c) =>
        \/ mpc \in {"emit", "down"}
        \/ /\ mpc \in {"recheck", "free", "save"} /\ mtask \in {"eof", "start"}
           /\ mpc = "free" => mtask = "start"
  BY <1>1 DEF Emitting
<1> QED
  BY <1>2

(* A step that emits and saves nothing, while nothing is frozen. *)
LEMMA QuietStep ==
  ASSUME MergeInv, UNCHANGED <<input, mckpt, stamped>>, \A c \in Clients : ~Frozen(c),
         mmem'.seq = mmem.seq, mpc' # "emit",
         \A c \in Clients : ~M!Complete(mmem'.of[c]),
         \A c \in Clients : \/ mmem'.of[c].aborted
                            \/ /\ mmem.of[c].phase = "DONE" => mmem'.of[c].phase = "DONE"
                               /\ mmem.of[c].aborted => mmem'.of[c].aborted
  PROVE  /\ InputOK' /\ Emitting' /\ Stamps'
         /\ \A c \in Clients : Accumulated(input, mckpt, c)'
<1>1. InputOK /\ Emitting /\ Stamps /\ \A c \in Clients : Accumulated(input, mckpt, c)
  BY DEF MergeInv
<1>2. InputOK' /\ Stamps' /\ \A c \in Clients : ~Frozen(c)'
  BY <1>1, SameInput, SameCheckpoint
<1>3. \A c \in Clients : Accumulated(input, mckpt, c)'
  BY <1>1
<1>4. mmem'.seq = mckpt'.seq
  BY <1>1 DEF Emitting
<1>5. \A c \in Clients : mckpt'.of[c].phase = "DONE" => mmem'.of[c].phase = "DONE" \/ mmem'.of[c].aborted
  BY <1>1 DEF Emitting
<1>6. Emitting'
  BY <1>2, <1>4, <1>5 DEF Emitting
<1> QED
  BY <1>2, <1>3, <1>6

(* Nothing is completed outside an emission. *)
LEMMA NotComplete ==
  ASSUME MergeInv, mpc \notin {"emit", "down"}
  PROVE  \A c \in Clients : ~M!Complete(mmem.of[c])
  BY DEF MergeInv, Emitting

(* A step of the thread that leaves memory alone. *)
LEMMA IdleStep ==
  ASSUME MergeInv, UNCHANGED <<input, mckpt, stamped, mmem>>, \A c \in Clients : ~Frozen(c),
         mpc \notin {"emit", "down"}, mpc' # "emit"
  PROVE  /\ InputOK' /\ Emitting' /\ Stamps' /\ SeenWasQueued'
         /\ \A c \in Clients : Accumulated(input, mckpt, c)' /\ Accumulated(input, mmem, c)'
<1>1. SeenWasQueued /\ \A c \in Clients : Accumulated(input, mmem, c)
  BY DEF MergeInv
<1>2. SeenWasQueued' /\ \A c \in Clients : Accumulated(input, mmem, c)'
  BY <1>1 DEF SeenWasQueued
<1>3. \A c \in Clients : ~M!Complete(mmem'.of[c])
  BY NotComplete
<1>4. InputOK' /\ Emitting' /\ Stamps' /\ \A c \in Clients : Accumulated(input, mckpt, c)'
  BY <1>3, QuietStep
<1> QED
  BY <1>2, <1>4

(* A step that does not touch the inputs. *)
LEMMA QueuesKept ==
  ASSUME MergeInv, UNCHANGED <<input, qin, mheld>>,
         mmem'.seen = mmem.seen, mckpt'.seen = mckpt.seen,
         \A c \in Clients : mckpt'.of[c].aborted = mckpt.of[c].aborted,
         mpc \notin {"idle", "save", "ack"} \/ mpc' \in {"idle", "save", "ack"}
  PROVE  \A s \in Sides : MergeQueue(s)'
<1> SUFFICES ASSUME NEW s \in Sides PROVE MergeQueue(s)'
  OBVIOUS
<1>1. MergeQueue(s) /\ InputOK
  BY DEF MergeInv
<1>2. \A m \in DataIn(input[s]) : m.client \in Clients
  BY <1>1 DEF InputOK, DataIn, ToSet
<1>3. \A m \in DataIn(input[s]) :
        Covered(qin[s], mheld[s], m, mmem.seen, mckpt.seen, mckpt'.of[m.client].aborted)
  BY <1>1, <1>2 DEF MergeQueue
<1> QED
  BY <1>1, <1>3 DEF MergeQueue

-----------------------------------------------------------------------------
(* Steps of the merge that take or acknowledge messages *)

(* A message of an input: its number is its position. *)
LEMMA InputMessage ==
  ASSUME InputOK, NEW s \in Sides, NEW m \in ToSet(input[s])
  PROVE  /\ m.client \in Clients /\ m.kind \in {"data", "eof"}
         /\ m.kind = "data" =>
              /\ m \in DataIn(input[s]) /\ m.row \in Rows
              /\ \E i \in DataAt(input[s], m.client) : m = input[s][i] /\ m.id = <<s, i>>
         /\ m.kind = "eof" => m.count \in Nat
<1>1. PICK i \in DOMAIN input[s] : m = input[s][i]
  BY DEF ToSet
<1>2. /\ m.client \in Clients /\ m.kind \in {"data", "eof"}
      /\ m.kind = "data" => m.id = <<s, i>> /\ m.row \in Rows
      /\ m.kind = "eof" => m.count \in Nat
  BY <1>1 DEF InputOK
<1>3. m.kind = "data" => m \in DataIn(input[s]) /\ i \in DataAt(input[s], m.client)
  BY <1>1 DEF DataIn, DataAt
<1> QED
  BY <1>1, <1>2, <1>3

(* A number is that of one message. *)
LEMMA InputIds ==
  ASSUME InputOK, NEW s \in Sides, NEW t \in Sides,
         NEW m \in DataIn(input[s]), NEW n \in DataIn(input[t]), m.id = n.id
  PROVE  s = t /\ m = n
<1>1. m \in ToSet(input[s]) /\ m.kind = "data" /\ n \in ToSet(input[t]) /\ n.kind = "data"
  BY DEF DataIn
<1>2. PICK i \in DataAt(input[s], m.client) : m = input[s][i] /\ m.id = <<s, i>>
  BY <1>1, InputMessage
<1>3. PICK j \in DataAt(input[t], n.client) : n = input[t][j] /\ n.id = <<t, j>>
  BY <1>1, InputMessage
<1>4. s = t /\ i = j
  BY <1>2, <1>3
<1> QED
  BY <1>2, <1>3, <1>4

(* A message that waits in a queue of the merge. *)
LEMMA QueuedMessage ==
  ASSUME MergeInv, NEW s \in Sides, NEW i \in 1 .. Len(qin[s]), NEW x, x = qin[s][i]
  PROVE  /\ x.client \in Clients /\ x.kind \in {"data", "eof", "abort"}
         /\ x.kind = "data" => x \in DataIn(input[s])
         /\ x.kind = "eof" => x.count \in Nat
<1>1. InputOK /\ MergeQueue(s)
  BY DEF MergeInv
<1>2. DOMAIN qin[s] = 1 .. Len(qin[s])
  BY <1>1, SeqOfItself DEF MergeQueue, Queue
<1>3. x \in ToSet(input[s]) \/ \E c \in Clients : x = M!Abort(c)
  BY <1>1, <1>2 DEF MergeQueue
<1>4. CASE x \in ToSet(input[s])
  <2>1. x.client \in Clients /\ x.kind \in {"data", "eof"}
    BY <1>1, <1>4, InputMessage
  <2>2. x.kind = "data" => x \in DataIn(input[s])
    BY <1>1, <1>4, InputMessage
  <2>3. x.kind = "eof" => x.count \in Nat
    BY <1>1, <1>4, InputMessage
  <2> QED
    BY <2>1, <2>2, <2>3
<1>5. CASE \E c \in Clients : x = M!Abort(c)
  <2>1. PICK c \in Clients : x = M!Abort(c)
    BY <1>5
  <2>2. x.client = c /\ x.kind = "abort"
    BY <2>1, MessageFields
  <2> QED
    BY <2>2
<1> QED
  BY <1>3, <1>4, <1>5

(* What is there before a message is taken. *)
LEMMA Taking ==
  ASSUME MergeInv, NEW s \in Sides, NEW kind, M!CanTake(s, kind), NEW x, x = M!Waiting(s)
  PROVE  /\ mpc = "idle" /\ x = qin[s][mheld[s] + 1] /\ x.kind = kind
         /\ Queue(qin[s], mheld[s]) /\ mheld[s] < Len(qin[s])
         /\ Len(qin[s]) \in Nat /\ mheld[s] \in Nat
         /\ x.client \in Clients
         /\ kind = "data" => x \in DataIn(input[s])
         /\ kind = "eof" => x.count \in Nat
         /\ \A c \in Clients : ~Frozen(c)
<1>1. MergeQueue(s)
  BY DEF MergeInv
<1>2. Queue(qin[s], mheld[s]) /\ Len(qin[s]) \in Nat /\ mheld[s] \in Nat
  BY <1>1 DEF MergeQueue, Queue, IsSeq
<1>3. mpc = "idle" /\ x = qin[s][mheld[s] + 1] /\ x.kind = kind /\ mheld[s] < Len(qin[s])
  BY DEF M!CanTake, M!Waiting
<1>4. mheld[s] + 1 \in 1 .. Len(qin[s])
  BY <1>2, <1>3
<1>5. /\ x.client \in Clients
      /\ x.kind = "data" => x \in DataIn(input[s])
      /\ x.kind = "eof" => x.count \in Nat
  BY <1>3, <1>4, QueuedMessage
<1>6. \A c \in Clients : ~Frozen(c)
  BY <1>3, WhenFrozen
<1> QED
  BY <1>2, <1>3, <1>5, <1>6

(* The elements of a queue that lost or gained some. *)
LEMMA MergeQueueFrom ==
  ASSUME MergeInv, NEW s \in Sides, input' = input,
         Queue(qin'[s], mheld'[s]),
         \A i \in 1 .. Len(qin'[s]) :
           \/ \E k \in 1 .. Len(qin[s]) : qin'[s][i] = qin[s][k]
           \/ qin'[s][i] \in ToSet(input[s])
           \/ \E c \in Clients : qin'[s][i] = M!Abort(c),
         \A m \in DataIn(input[s]) :
           Covered(qin'[s], mheld'[s], m, mmem'.seen, mckpt'.seen, mckpt'.of[m.client].aborted),
         mpc' \in {"idle", "save", "ack"} \/ mheld'[s] = 0
  PROVE  MergeQueue(s)'
<1>1. MergeQueue(s)
  BY DEF MergeInv
<1>2. DOMAIN qin[s] = 1 .. Len(qin[s]) /\ DOMAIN qin'[s] = 1 .. Len(qin'[s])
  BY <1>1, SeqOfItself DEF MergeQueue, Queue
<1>3. \A i \in 1 .. Len(qin[s]) :
        qin[s][i] \in ToSet(input[s]) \/ \E c \in Clients : qin[s][i] = M!Abort(c)
  BY <1>1, <1>2 DEF MergeQueue
<1>4. \A i \in DOMAIN qin'[s] :
        qin'[s][i] \in ToSet(input[s]) \/ \E c \in Clients : qin'[s][i] = M!Abort(c)
  <2> TAKE i \in DOMAIN qin'[s]
  <2>1. i \in 1 .. Len(qin'[s])
    BY <1>2
  <2> QED
    BY <1>3, <2>1
<1>5. /\ \A i \in DOMAIN qin'[s] :
           qin'[s][i] \in ToSet(input'[s]) \/ \E c \in Clients : qin'[s][i] = M!Abort(c)
      /\ \A m \in DataIn(input'[s]) :
           Covered(qin'[s], mheld'[s], m, mmem'.seen, mckpt'.seen, mckpt'.of[m.client].aborted)
  BY <1>4
<1> QED
  BY <1>5 DEF MergeQueue

(* A message that others do not touch keeps its queue as it was. *)
LEMMA OtherQueue ==
  ASSUME MergeInv, NEW t \in Sides, input' = input,
         qin'[t] = qin[t], mheld'[t] = mheld[t],
         mckpt'.seen = mckpt.seen, mckpt'.of = mckpt.of,
         \A m \in DataIn(input[t]) : m.id \in mmem'.seen <=> m.id \in mmem.seen,
         mpc' \in {"idle", "save", "ack"} \/ mheld[t] = 0
  PROVE  MergeQueue(t)'
<1>1. MergeQueue(t)
  BY DEF MergeInv
<1>2. \A m \in DataIn(input[t]) :
        Covered(qin[t], mheld[t], m, mmem'.seen, mckpt.seen, mckpt.of[m.client].aborted)
  BY <1>1, CoveredSame DEF MergeQueue
<1>3. Queue(qin'[t], mheld'[t])
  BY <1>1 DEF MergeQueue
<1> QED
  BY <1>2, <1>3, MergeQueueFrom

(* A data message of an aborted client or one that the dedup table knows is   *)
(* acked and changes nothing.                                                 *)
LEMMA MergeIgnoreData ==
  ASSUME MergeInv, NEW s \in Sides, M!IgnoreData(s), stamped' = stamped, input' = input
  PROVE  MergeInv'
<1> DEFINE x == M!Waiting(s)
           q == qin[s]
           h == mheld[s]
<1>1. M!CanTake(s, "data") /\ (mmem.of[x.client].aborted \/ x.id \in mmem.seen)
  BY DEF M!IgnoreData
<1>2. /\ qin' = [qin EXCEPT ![s] = RemoveAt(@, mheld[s] + 1)]
      /\ UNCHANGED <<mheld, mmem, mckpt, mdirty, mpc, mtask, mat, mclient, todo>>
  <2>1. qin' = [qin EXCEPT ![s] = RemoveAt(@, mheld[s] + 1)]
    BY DEF M!IgnoreData, M!AckNow, M!RemoveAt, RemoveAt
  <2>2. mheld' = mheld /\ mmem' = mmem /\ mckpt' = mckpt /\ mdirty' = mdirty
    BY DEF M!IgnoreData
  <2>3. mpc' = mpc /\ mtask' = mtask /\ mat' = mat /\ mclient' = mclient /\ todo' = todo
    BY DEF M!IgnoreData, M!thread
  <2> QED
    BY <2>1, <2>2, <2>3
<1> HIDE DEF x
<1>3. /\ mpc = "idle" /\ x = q[h + 1] /\ x.kind = "data"
      /\ Queue(q, h) /\ h < Len(q) /\ Len(q) \in Nat /\ h \in Nat
      /\ x.client \in Clients /\ x \in DataIn(input[s])
  BY <1>1, Taking DEF x
<1>4. \A c \in Clients : ~Frozen(c)
  BY <1>3, WhenFrozen
<1>5. MergeTyped /\ DOMAIN qin = Sides /\ InputOK
  BY DEF MergeInv, MergeTyped
<1>6. qin'[s] = RemoveAt(q, h + 1) /\ \A t \in Sides : t # s => qin'[t] = qin[t]
  BY <1>2, <1>5
<1>7. MergeTyped'
  BY <1>2, <1>5 DEF MergeTyped
<1>8. MergeQueue(s)'
  <2>1. /\ Queue(qin'[s], h) /\ Len(qin'[s]) = Len(q) - 1
        /\ \A i \in 1 .. h : qin'[s][i] = q[i]
        /\ \A i \in h + 1 .. Len(q) - 1 : qin'[s][i] = q[i + 1]
    BY <1>3, <1>6, QueueRemove
  <2>2. ASSUME NEW i \in 1 .. Len(qin'[s]) PROVE \E k \in 1 .. Len(q) : qin'[s][i] = q[k]
    <3>1. i \in 1 .. h \/ (i \in h + 1 .. Len(q) - 1 /\ i + 1 \in 1 .. Len(q))
      BY <1>3, <2>1
    <3>2. i \in 1 .. h => i \in 1 .. Len(q)
      BY <1>3
    <3> QED
      BY <2>1, <3>1, <3>2
  <2>3. ASSUME NEW m \in DataIn(input[s])
        PROVE  Covered(qin'[s], h, m, mmem.seen, mckpt.seen, mckpt.of[m.client].aborted)
    <3>1. Covered(q, h, m, mmem.seen, mckpt.seen, mckpt.of[m.client].aborted)
      BY DEF MergeInv, MergeQueue
    <3>2. m.client \in Clients
      BY <1>5, InputMessage DEF DataIn
    <3>3. mmem.of[x.client].aborted => mckpt.of[x.client].aborted
      BY <1>3 DEF MergeInv, Saved
    <3>4. q[h + 1] = m => m.id \in mmem.seen \/ mckpt.of[m.client].aborted
      BY <1>1, <1>3, <3>3
    <3>5. mckpt.of[m.client].aborted \in BOOLEAN
      BY <1>5, <3>2 DEF MergeTyped, MergeMemory, MergeRecord
    <3> QED
      BY <1>3, <1>6, <3>1, <3>4, <3>5, CoveredRemove
  <2> QED
    BY <1>2, <1>3, <2>1, <2>2, <2>3, MergeQueueFrom
<1>9. ASSUME NEW t \in Sides PROVE MergeQueue(t)'
  <2>1. CASE t = s
    BY <1>8, <2>1
  <2>2. CASE t # s
    BY <1>2, <1>3, <1>6, <2>2, OtherQueue
  <2> QED
    BY <2>1, <2>2
<1>10. Saved(mmem, mckpt, mdirty, mpc, mtask)'
  BY <1>2 DEF MergeInv
<1>11. Event(qin[mat], mheld[mat], mpc, mtask, mclient)'
  BY <1>2, <1>3 DEF Event, Handling
<1>12. /\ InputOK' /\ Emitting' /\ Stamps' /\ SeenWasQueued'
       /\ \A c \in Clients : Accumulated(input, mckpt, c)' /\ Accumulated(input, mmem, c)'
  BY <1>2, <1>3, <1>4, IdleStep
<1> QED
  BY <1>7, <1>9, <1>10, <1>11, <1>12 DEF MergeInv

(* dispatch takes an EOF and flushes first what was applied.                  *)
LEMMA MergeTakeEOF ==
  ASSUME MergeInv, NEW s \in Sides, M!TakeEOF(s), stamped' = stamped, input' = input
  PROVE  MergeInv'
<1> DEFINE x == M!Waiting(s)
<1>1. M!CanTake(s, "eof")
  BY DEF M!TakeEOF
<1>2. /\ mpc' = "save" /\ mtask' = "flush" /\ mat' = s /\ mclient' = x.client
      /\ UNCHANGED <<qin, mheld, mmem, mckpt, mdirty, todo>>
  BY DEF M!TakeEOF
<1> HIDE DEF x
<1>3. /\ mpc = "idle" /\ x = qin[s][mheld[s] + 1] /\ x.kind = "eof"
      /\ mheld[s] < Len(qin[s]) /\ x.client \in Clients
  BY <1>1, Taking DEF x
<1>4. \A c \in Clients : ~Frozen(c)
  BY <1>3, WhenFrozen
<1>5. MergeTyped'
  <2>1. MergeTyped
    BY DEF MergeInv
  <2>2. mpc' \in DOMAIN Tasks \ {"respond"} /\ mtask' \in Tasks[mpc']
    BY <1>2 DEF Tasks
  <2> QED
    BY <1>2, <1>3, <2>1, <2>2 DEF MergeTyped
<1>6. \A t \in Sides : MergeQueue(t)'
  BY <1>2, QueuesKept
<1>7. Saved(mmem, mckpt, mdirty, mpc, mtask)'
  BY <1>2, <1>3 DEF MergeInv, Saved
<1>8. Event(qin[mat], mheld[mat], mpc, mtask, mclient)'
  BY <1>2, <1>3 DEF Event
<1>9. /\ InputOK' /\ Emitting' /\ Stamps' /\ SeenWasQueued'
      /\ \A c \in Clients : Accumulated(input, mckpt, c)' /\ Accumulated(input, mmem, c)'
  BY <1>2, <1>3, <1>4, IdleStep
<1> QED
  BY <1>5, <1>6, <1>7, <1>8, <1>9 DEF MergeInv

(* Some held acks reach the broker, or all of them. *)
LEMMA MergeQueueAcked ==
  ASSUME MergeInv, NEW s \in Sides, NEW k \in 0 .. mheld[s], k = 0 \/ mpc = "ack",
         input' = input, mckpt' = mckpt, qin'[s] = SubSeq(qin[s], k + 1, Len(qin[s])),
         mheld'[s] = 0, mmem'.seen = mckpt.seen
  PROVE  /\ MergeQueue(s)' /\ Len(qin'[s]) = Len(qin[s]) - k
         /\ \A i \in 1 .. Len(qin[s]) - k : qin'[s][i] = qin[s][k + i]
<1>1. MergeQueue(s) /\ InputOK
  BY DEF MergeInv
<1>2. Queue(qin[s], mheld[s]) /\ Len(qin[s]) \in Nat /\ mheld[s] \in 0 .. Len(qin[s])
  BY <1>1 DEF MergeQueue, Queue, IsSeq
<1>3. /\ Queue(qin'[s], 0) /\ Len(qin'[s]) = Len(qin[s]) - k
      /\ \A i \in 1 .. Len(qin[s]) - k : qin'[s][i] = qin[s][k + i]
  BY <1>2, QueueAck
<1>4. ASSUME NEW i \in 1 .. Len(qin'[s]) PROVE \E j \in 1 .. Len(qin[s]) : qin'[s][i] = qin[s][j]
  <2>1. i \in 1 .. Len(qin[s]) - k /\ k + i \in 1 .. Len(qin[s])
    BY <1>2, <1>3
  <2> QED
    BY <1>3, <2>1
<1>5. mckpt.seen \subseteq mmem.seen /\ (mpc = "ack" => mmem.seen = mckpt.seen)
  BY DEF MergeInv, Saved
<1>6. ASSUME NEW m \in DataIn(input[s])
      PROVE  Covered(qin'[s], 0, m, mckpt.seen, mckpt.seen, mckpt.of[m.client].aborted)
  <2>1. Covered(qin[s], mheld[s], m, mmem.seen, mckpt.seen, mckpt.of[m.client].aborted)
    BY <1>1 DEF MergeQueue
  <2>2. m.kind = "data"
    BY DEF DataIn
  <2>3. k = 0 \/ mmem.seen = mckpt.seen
    BY <1>5
  <2> QED
    BY <1>2, <1>5, <2>1, <2>2, <2>3, CoveredAck
<1> QED
  BY <1>3, <1>4, <1>6, MergeQueueFrom

(* The held acks are sent after the save, so nothing unsaved is acked.        *)
LEMMA MergeAck ==
  ASSUME MergeInv, M!Ack, stamped' = stamped, input' = input
  PROVE  MergeInv'
<1>1. /\ mpc = "ack"
      /\ qin' = [s \in Sides |-> SubSeq(qin[s], mheld[s] + 1, Len(qin[s]))]
      /\ mheld' = [s \in Sides |-> 0]
      /\ mpc' = CASE mtask = "flush" -> "handle" [] mtask = "eof" -> "free"
                  [] mtask = "abort" -> "abort"  [] OTHER -> "idle"
      /\ UNCHANGED <<mmem, mckpt, mdirty, mtask, mat, mclient, todo>>
  BY DEF M!Ack, M!AckHeld, Sides
<1>2. MergeTyped /\ mtask \in {"data", "start", "flush", "eof", "abort"} /\ mat \in Sides
  BY <1>1 DEF MergeInv, MergeTyped, Tasks
<1>3. \/ mtask = "flush" /\ mpc' = "handle"
      \/ mtask = "eof" /\ mpc' = "free"
      \/ mtask = "abort" /\ mpc' = "abort"
      \/ mtask \in {"data", "start"} /\ mpc' = "idle"
  BY <1>1, <1>2
<1>4. \A c \in Clients : ~Frozen(c)
  BY <1>1, WhenFrozen
<1>5. MergeTyped'
  <2>1. mpc' \in DOMAIN Tasks \ {"respond"} /\ mtask' \in Tasks[mpc']
    BY <1>1, <1>3 DEF Tasks
  <2>2. DOMAIN qin' = Sides /\ DOMAIN mheld' = Sides
    BY <1>1
  <2> QED
    BY <1>1, <1>2, <2>1, <2>2 DEF MergeTyped
<1>6. mmem.seen = mckpt.seen /\ ~mdirty
  BY <1>1 DEF MergeInv, Saved
<1>7. ASSUME NEW s \in Sides
      PROVE  /\ MergeQueue(s)' /\ Len(qin'[s]) = Len(qin[s]) - mheld[s]
             /\ \A i \in 1 .. Len(qin[s]) - mheld[s] : qin'[s][i] = qin[s][mheld[s] + i]
             /\ mheld'[s] = 0 /\ mheld[s] \in Nat /\ Len(qin[s]) \in Nat
  <2>0. Queue(qin[s], mheld[s])
    BY DEF MergeInv, MergeQueue
  <2>1. mheld[s] \in 0 .. mheld[s] /\ mheld[s] \in Nat /\ Len(qin[s]) \in Nat
    BY <2>0 DEF Queue, IsSeq
  <2>2. qin'[s] = SubSeq(qin[s], mheld[s] + 1, Len(qin[s])) /\ mheld'[s] = 0
    BY <1>1
  <2> QED
    BY <1>1, <1>6, <2>1, <2>2, MergeQueueAcked
<1>8. Saved(mmem, mckpt, mdirty, mpc, mtask)'
  <2>1. Saved(mmem, mckpt, mdirty, "ack", mtask)
    BY <1>1 DEF MergeInv
  <2> QED
    BY <1>1, <1>3, <1>6, <2>1 DEF Saved
<1>9. Event(qin[mat], mheld[mat], mpc, mtask, mclient)'
  <2> SUFFICES ASSUME Handling(mpc', mtask')
               PROVE  /\ 0 < Len(qin'[mat]) /\ qin'[mat][0 + 1].client = mclient
                      /\ qin'[mat][0 + 1].kind = IF mtask = "abort" THEN "abort" ELSE "eof"
    BY <1>1, <1>2, <1>7 DEF Event
  <2>1. mtask \in {"flush", "eof", "abort"}
    BY <1>3, <1>1 DEF Handling
  <2>2. /\ mheld[mat] < Len(qin[mat]) /\ qin[mat][mheld[mat] + 1].client = mclient
        /\ qin[mat][mheld[mat] + 1].kind = IF mtask = "abort" THEN "abort" ELSE "eof"
    BY <1>1, <2>1 DEF MergeInv, Event, Handling
  <2>3. 1 \in 1 .. Len(qin[mat]) - mheld[mat] /\ 0 < Len(qin[mat]) - mheld[mat]
    BY <1>2, <1>7, <2>2
  <2>4. qin'[mat][1] = qin[mat][mheld[mat] + 1] /\ 0 < Len(qin'[mat])
    BY <1>2, <1>7, <2>3
  <2> QED
    BY <2>2, <2>4
<1>10. /\ InputOK' /\ Emitting' /\ Stamps' /\ SeenWasQueued'
       /\ \A c \in Clients : Accumulated(input, mckpt, c)' /\ Accumulated(input, mmem, c)'
  <2>1. mpc' # "emit"
    BY <1>3
  <2> QED
    BY <1>1, <1>4, <2>1, IdleStep
<1> QED
  BY <1>5, <1>7, <1>8, <1>9, <1>10 DEF MergeInv

(* The event is acked when its handler returns.                               *)
LEMMA MergeDone ==
  ASSUME MergeInv, M!Done, stamped' = stamped, input' = input
  PROVE  MergeInv'
<1>1. /\ mpc = "done" /\ qin' = [qin EXCEPT ![mat] = Tail(@)]
      /\ mpc' = "idle" /\ mtask' = "none"
      /\ UNCHANGED <<mheld, mmem, mckpt, mdirty, mat, mclient, todo>>
  BY DEF M!Done
<1>2. MergeTyped /\ mat \in Sides /\ DOMAIN qin = Sides
  BY DEF MergeInv, MergeTyped
<1>3. \A c \in Clients : ~Frozen(c)
  BY <1>1, WhenFrozen
<1>4. MergeTyped'
  <2>1. mpc' \in DOMAIN Tasks \ {"respond"} /\ mtask' \in Tasks[mpc']
    BY <1>1 DEF Tasks
  <2> QED
    BY <1>1, <1>2, <2>1 DEF MergeTyped
<1> DEFINE q == qin[mat]
<1>5. qin'[mat] = Tail(q) /\ \A t \in Sides : t # mat => qin'[t] = qin[t]
  BY <1>1, <1>2
<1>6. mheld[mat] = 0 /\ Queue(q, 0) /\ Len(q) \in Nat
  BY <1>1, <1>2 DEF MergeInv, MergeQueue, Queue, IsSeq
<1>7. 0 < Len(q) /\ q[1].kind # "data"
  <2>1. 0 < Len(q) /\ q[0 + 1].kind = IF mtask = "abort" THEN "abort" ELSE "eof"
    BY <1>1, <1>6 DEF MergeInv, Event, Handling
  <2> QED
    BY <2>1
<1>8. MergeQueue(mat)'
  <2>1. /\ Queue(qin'[mat], 0) /\ Len(qin'[mat]) = Len(q) - 1
        /\ \A i \in 1 .. Len(q) - 1 : qin'[mat][i] = q[1 + i]
    BY <1>5, <1>6, <1>7, QueueTail
  <2>2. ASSUME NEW i \in 1 .. Len(qin'[mat]) PROVE \E k \in 1 .. Len(q) : qin'[mat][i] = q[k]
    <3>1. i \in 1 .. Len(q) - 1 /\ 1 + i \in 1 .. Len(q)
      BY <1>6, <2>1
    <3> QED
      BY <2>1, <3>1
  <2>3. ASSUME NEW m \in DataIn(input[mat])
        PROVE  Covered(qin'[mat], 0, m, mmem.seen, mckpt.seen, mckpt.of[m.client].aborted)
    <3>1. Covered(q, 0, m, mmem.seen, mckpt.seen, mckpt.of[m.client].aborted)
      BY <1>2, <1>6 DEF MergeInv, MergeQueue
    <3>2. m.kind = "data"
      BY DEF DataIn
    <3> QED
      BY <1>5, <1>6, <1>7, <3>1, <3>2, CoveredTail
  <2> QED
    BY <1>1, <1>2, <1>6, <2>1, <2>2, <2>3, MergeQueueFrom
<1>9. ASSUME NEW t \in Sides PROVE MergeQueue(t)'
  <2>1. CASE t = mat
    <3>1. t = mat'
      BY <1>1, <2>1
    <3> QED
      BY <1>8, <3>1 DEF MergeQueue
  <2>2. CASE t # mat
    <3>1. /\ qin'[t] = qin[t] /\ mheld'[t] = mheld[t] /\ mmem' = mmem /\ mckpt' = mckpt
          /\ mpc' = "idle"
      BY <1>1, <1>5, <2>2
    <3> QED
      BY <3>1, OtherQueue
  <2> QED
    BY <2>1, <2>2
<1>10. Saved(mmem, mckpt, mdirty, mpc, mtask)'
  <2>1. Saved(mmem, mckpt, mdirty, "done", mtask)
    BY <1>1 DEF MergeInv
  <2> QED
    BY <1>1, <2>1 DEF Saved
<1>11. Event(qin[mat], mheld[mat], mpc, mtask, mclient)'
  BY <1>1 DEF Event, Handling
<1>12. /\ InputOK' /\ Emitting' /\ Stamps' /\ SeenWasQueued'
       /\ \A c \in Clients : Accumulated(input, mckpt, c)' /\ Accumulated(input, mmem, c)'
  BY <1>1, <1>3, IdleStep
<1> QED
  BY <1>4, <1>9, <1>10, <1>11, <1>12 DEF MergeInv

(* _on_abort passes the Abort on after the tombstone is saved.                *)
LEMMA MergeSendAbort ==
  ASSUME MergeInv, M!SendAbort, stamped' = stamped, input' = input
  PROVE  MergeInv'
<1>1. /\ mpc = "abort" /\ mpc' = "done"
      /\ UNCHANGED <<qin, mheld, mmem, mckpt, mdirty, mtask, mat, mclient, todo>>
  BY DEF M!SendAbort
<1>2. MergeTyped /\ mtask = "abort"
  BY <1>1 DEF MergeInv, MergeTyped, Tasks
<1>3. \A c \in Clients : ~Frozen(c)
  BY <1>1, WhenFrozen
<1>4. MergeTyped'
  <2>1. mpc' \in DOMAIN Tasks \ {"respond"} /\ mtask' \in Tasks[mpc']
    BY <1>1, <1>2 DEF Tasks
  <2> QED
    BY <1>1, <1>2, <2>1 DEF MergeTyped
<1>5. \A t \in Sides : MergeQueue(t)'
  BY <1>1, QueuesKept
<1>6. Saved(mmem, mckpt, mdirty, mpc, mtask)'
  <2>1. Saved(mmem, mckpt, mdirty, "abort", mtask)
    BY <1>1 DEF MergeInv
  <2> QED
    BY <1>1, <2>1 DEF Saved
<1>7. Event(qin[mat], mheld[mat], mpc, mtask, mclient)'
  BY <1>1, <1>2 DEF MergeInv, Event, Handling
<1>8. /\ InputOK' /\ Emitting' /\ Stamps' /\ SeenWasQueued'
      /\ \A c \in Clients : Accumulated(input, mckpt, c)' /\ Accumulated(input, mmem, c)'
  BY <1>1, <1>3, IdleStep
<1> QED
  BY <1>4, <1>5, <1>6, <1>7, <1>8 DEF MergeInv

-----------------------------------------------------------------------------
(* Steps of the merge that change a client's record *)

LEMMA MergeFreshTyped ==
  /\ M!FreshClient \in MergeRecord
  /\ [M!FreshClient EXCEPT !.aborted = TRUE] \in MergeRecord
  /\ [M!FreshClient EXCEPT !.aborted = TRUE].aborted
  /\ [M!FreshClient EXCEPT !.aborted = TRUE].expected = M!Unknown
  /\ [M!FreshClient EXCEPT !.aborted = TRUE].phase = "PROCESSING"
<1>1. <<>> \in Seq(Rows)
  BY EmptySeq
<1>2. [s \in Sides |-> <<>>] \in [Sides -> Seq(Rows)] /\ [s \in Sides |-> -1] \in [Sides -> Int]
  BY <1>1
<1>3. M!FreshClient \in MergeRecord
  BY <1>2 DEF MergeRecord, M!FreshClient, M!NoCounts, M!Unknown, Sides
<1>4. [M!FreshClient EXCEPT !.aborted = TRUE] \in MergeRecord
  BY <1>3 DEF MergeRecord
<1>5. M!FreshClient.expected = M!Unknown /\ M!FreshClient.phase = "PROCESSING"
  BY DEF M!FreshClient
<1>6. [M!FreshClient EXCEPT !.aborted = TRUE].aborted
  BY <1>3 DEF MergeRecord
<1>7. /\ [M!FreshClient EXCEPT !.aborted = TRUE].expected = M!FreshClient.expected
      /\ [M!FreshClient EXCEPT !.aborted = TRUE].phase = M!FreshClient.phase
  BY <1>3 DEF MergeRecord
<1> QED
  BY <1>3, <1>4, <1>5, <1>6, <1>7

(* Memory X with the record r for client c. *)
With(X, c, r) == [X EXCEPT !.of[c] = r]

(* Replacing the record of one client leaves the others, the dedup table and  *)
(* the counter.                                                               *)
LEMMA MergeRecordChanged ==
  ASSUME NEW X \in MergeMemory, NEW c \in Clients, NEW r \in MergeRecord, NEW Y, Y = With(X, c, r)
  PROVE  /\ Y \in MergeMemory /\ Y.seen = X.seen /\ Y.seq = X.seq /\ Y.of[c] = r
         /\ \A d \in Clients : d # c => Y.of[d] = X.of[d]
<1>1. X.of \in [Clients -> MergeRecord] /\ X \in [of : [Clients -> MergeRecord], seen : SUBSET (Sides \X Nat), seq : Nat]
  BY DEF MergeMemory
<1>2. Y = [X EXCEPT !.of = [X.of EXCEPT ![c] = r]]
  BY DEF With
<1>3. [X.of EXCEPT ![c] = r] \in [Clients -> MergeRecord]
  BY <1>1
<1> DEFINE f == [X.of EXCEPT ![c] = r]
<1>4. f[c] = r /\ \A d \in Clients : d # c => f[d] = X.of[d]
  BY <1>1
<1> HIDE DEF f
<1>5. Y.of = f /\ Y.seen = X.seen /\ Y.seq = X.seq
  BY <1>1, <1>2 DEF f
<1>6. Y \in MergeMemory
  BY <1>1, <1>2, <1>3 DEF MergeMemory
<1> QED
  BY <1>4, <1>5, <1>6

(* _on_abort drops what the client accumulated and leaves a tombstone.        *)
LEMMA MergeHandleAbort ==
  ASSUME MergeInv, NEW s \in Sides, M!HandleAbort(s), stamped' = stamped, input' = input
  PROVE  MergeInv'
<1> DEFINE x == M!Waiting(s)
           r == [M!FreshClient EXCEPT !.aborted = TRUE]
<1>1. M!CanTake(s, "abort")
  BY DEF M!HandleAbort
<1>2. /\ mclient' = x.client /\ mmem' = [mmem EXCEPT !.of[x.client] = r]
      /\ mdirty' = TRUE /\ mpc' = "save" /\ mtask' = "abort" /\ mat' = s
      /\ UNCHANGED <<qin, mheld, mckpt, todo>>
  BY DEF M!HandleAbort
<1> HIDE DEF x
<1>3. /\ mpc = "idle" /\ x = qin[s][mheld[s] + 1] /\ x.kind = "abort"
      /\ mheld[s] < Len(qin[s]) /\ x.client \in Clients
  BY <1>1, Taking DEF x
<1>4. \A c \in Clients : ~Frozen(c)
  BY <1>3, WhenFrozen
<1>5. r \in MergeRecord /\ r.aborted /\ r.expected = M!Unknown /\ r.phase = "PROCESSING"
  BY MergeFreshTyped
<1>6. MergeTyped /\ mmem \in MergeMemory
  BY DEF MergeInv, MergeTyped
<1> HIDE DEF r
<1>7. /\ mmem' \in MergeMemory /\ mmem'.seen = mmem.seen /\ mmem'.seq = mmem.seq
      /\ mmem'.of[x.client] = r
      /\ \A d \in Clients : d # x.client => mmem'.of[d] = mmem.of[d]
  <2>1. mmem' = With(mmem, x.client, r) /\ x.client \in Clients
    BY <1>2, <1>3 DEF With
  <2> QED
    BY <1>5, <1>6, <2>1, MergeRecordChanged
<1>8. MergeTyped'
  <2>1. mpc' \in DOMAIN Tasks \ {"respond"} /\ mtask' \in Tasks[mpc']
    BY <1>2 DEF Tasks
  <2> QED
    BY <1>2, <1>3, <1>6, <1>7, <2>1 DEF MergeTyped
<1>9. \A t \in Sides : MergeQueue(t)'
  BY <1>2, <1>7, QueuesKept
<1>10. Saved(mmem, mckpt, mdirty, mpc, mtask)'
  <2>1. /\ mckpt.seen \subseteq mmem.seen
        /\ \A c \in Clients : /\ mckpt.of[c].aborted => mmem.of[c].aborted
                              /\ mmem.of[c].aborted => mckpt.of[c].aborted
    BY <1>3 DEF MergeInv, Saved
  <2>2. \A c \in Clients : mckpt.of[c].aborted => mmem'.of[c].aborted
    BY <1>5, <1>7, <2>1
  <2> QED
    BY <1>2, <1>7, <2>1, <2>2 DEF Saved
<1>11. Event(qin[mat], mheld[mat], mpc, mtask, mclient)'
  BY <1>2, <1>3 DEF Event
<1>12. ASSUME NEW c \in Clients PROVE Accumulated(input, mmem, c)'
  <2>1. CASE c = x.client
    BY <1>5, <1>7, <2>1 DEF Accumulated
  <2>2. CASE c # x.client
    <3>1. Accumulated(input, mmem, c) /\ mmem'.of[c] = mmem.of[c] /\ mmem'.seen = mmem.seen
      BY <1>7, <2>2 DEF MergeInv
    <3> QED
      BY <3>1 DEF Accumulated, SeenAll
  <2> QED
    BY <2>1, <2>2
<1>13. SeenWasQueued'
  BY <1>7 DEF MergeInv, SeenWasQueued
<1>14. InputOK' /\ Emitting' /\ Stamps' /\ \A c \in Clients : Accumulated(input, mckpt, c)'
  <2>1. \A c \in Clients : ~M!Complete(mmem'.of[c])
    <3>1. ~M!Complete(r)
      BY <1>5 DEF M!Complete, M!Unknown
    <3>2. \A c \in Clients : ~M!Complete(mmem.of[c])
      BY <1>3, NotComplete
    <3> QED
      BY <1>7, <3>1, <3>2
  <2>2. \A c \in Clients : \/ mmem'.of[c].aborted
                           \/ /\ mmem.of[c].phase = "DONE" => mmem'.of[c].phase = "DONE"
                              /\ mmem.of[c].aborted => mmem'.of[c].aborted
    BY <1>5, <1>7
  <2> QED
    BY <1>2, <1>4, <1>7, <2>1, <2>2, QuietStep
<1> QED
  BY <1>8, <1>9, <1>10, <1>11, <1>12, <1>13, <1>14 DEF MergeInv

(* A row is put behind the rows that were accumulated. *)
LEMMA AppendRow ==
  ASSUME NEW S, NEW q \in Seq(S), NEW x \in S
  PROVE  /\ Append(q, x) \in Seq(S) /\ Len(Append(q, x)) = Len(q) + 1
         /\ ToSet(Append(q, x)) = ToSet(q) \cup {x}
         /\ IsInjective(q) /\ x \notin ToSet(q) => IsInjective(Append(q, x))
<1> DEFINE p == Append(q, x)
           n == Len(q)
<1>1. n \in Nat /\ DOMAIN q = 1 .. n
  BY LenProperties
<1>2. /\ p \in Seq(S) /\ Len(p) = n + 1 /\ p[n + 1] = x
      /\ \A i \in 1 .. n : p[i] = q[i]
  BY AppendProperties
<1>3. DOMAIN p = 1 .. n + 1
  BY <1>2, LenProperties
<1> HIDE DEF p, n
<1>4. \A i \in 1 .. n + 1 : i \in 1 .. n \/ i = n + 1
  BY <1>1
<1>5. n + 1 \in 1 .. n + 1 /\ \A i \in 1 .. n : i \in 1 .. n + 1
  BY <1>1
<1>6. ToSet(p) = ToSet(q) \cup {x}
  BY <1>1, <1>2, <1>3, <1>4, <1>5 DEF ToSet
<1>7. IsInjective(q) /\ x \notin ToSet(q) => IsInjective(p)
  <2> SUFFICES ASSUME IsInjective(q), x \notin ToSet(q), NEW i \in 1 .. n + 1, NEW j \in 1 .. n + 1,
                      p[i] = p[j]
               PROVE  i = j
    BY <1>3 DEF IsInjective
  <2>1. \A k \in 1 .. n : q[k] # x
    BY <1>1 DEF ToSet
  <2>2. CASE i \in 1 .. n /\ j \in 1 .. n
    BY <1>1, <1>2, <2>2 DEF IsInjective
  <2>3. CASE ~(i \in 1 .. n /\ j \in 1 .. n)
    BY <1>2, <1>4, <2>1, <2>3
  <2> QED
    BY <2>2, <2>3
<1> QED
  BY <1>2, <1>6, <1>7 DEF p, n

(* The record of a client to which a row was added. *)
Applied(r, s, row) == [r EXCEPT !.rows[s] = Append(@, row), !.received = @ + 1]
WithSeen(X, c, r, id) == [X EXCEPT !.of[c] = r, !.seen = @ \cup {id}]

(* add_left and add_right change the rows and the received count of one       *)
(* client only.                                                               *)
LEMMA AppliedRecord ==
  ASSUME NEW r \in MergeRecord, NEW s \in Sides, NEW row \in Rows
  PROVE  LET u == Applied(r, s, row) IN
         /\ u \in MergeRecord /\ u.aborted = r.aborted /\ u.counts = r.counts
         /\ u.expected = r.expected /\ u.phase = r.phase
         /\ u.rows[s] = Append(r.rows[s], row)
         /\ \A t \in Sides : t # s => u.rows[t] = r.rows[t]
<1>1. /\ r.rows \in [Sides -> Seq(Rows)] /\ r.received \in Nat
      /\ r \in [rows : [Sides -> Seq(Rows)], counts : [Sides -> Int], expected : Int, received : Nat,
                phase : {"PROCESSING", "DONE"}, aborted : BOOLEAN]
  BY DEF MergeRecord
<1> DEFINE f == [r.rows EXCEPT ![s] = Append(r.rows[s], row)]
<1>2. Append(r.rows[s], row) \in Seq(Rows)
  BY <1>1, AppendRow
<1>3. /\ f \in [Sides -> Seq(Rows)] /\ f[s] = Append(r.rows[s], row)
      /\ \A t \in Sides : t # s => f[t] = r.rows[t]
  BY <1>1, <1>2
<1> DEFINE g == r.received + 1
           u == Applied(r, s, row)
<1>4. u = [r EXCEPT !.rows = f, !.received = g] /\ g \in Nat
  BY <1>1 DEF Applied
<1> HIDE DEF f, g, u
<1>5. /\ u.rows = f /\ u.aborted = r.aborted /\ u.counts = r.counts
      /\ u.expected = r.expected /\ u.phase = r.phase /\ u.received = g
  BY <1>1, <1>4
<1>6. u \in MergeRecord
  BY <1>1, <1>3, <1>4 DEF MergeRecord
<1> QED
  BY <1>3, <1>5, <1>6 DEF u

(* Recording a message in the dedup table together with the client's new      *)
(* record.                                                                    *)
LEMMA MergeMemorySeen ==
  ASSUME NEW X \in MergeMemory, NEW c \in Clients, NEW r \in MergeRecord, NEW id \in Sides \X Nat
  PROVE  LET Y == WithSeen(X, c, r, id) IN
         /\ Y \in MergeMemory /\ Y.seen = X.seen \cup {id} /\ Y.seq = X.seq /\ Y.of[c] = r
         /\ \A d \in Clients : d # c => Y.of[d] = X.of[d]
<1>1. /\ X.of \in [Clients -> MergeRecord] /\ X.seen \in SUBSET (Sides \X Nat)
      /\ X \in [of : [Clients -> MergeRecord], seen : SUBSET (Sides \X Nat), seq : Nat]
  BY DEF MergeMemory
<1> DEFINE f == [X.of EXCEPT ![c] = r]
           g == X.seen \cup {id}
           Y == WithSeen(X, c, r, id)
<1>2. Y = [X EXCEPT !.of = f, !.seen = g]
  BY DEF WithSeen
<1> HIDE DEF Y
<1>3. /\ f \in [Clients -> MergeRecord] /\ f[c] = r
      /\ \A d \in Clients : d # c => f[d] = X.of[d]
      /\ g \in SUBSET (Sides \X Nat)
  BY <1>1
<1> HIDE DEF f
<1>4. Y.of = f /\ Y.seen = g /\ Y.seq = X.seq
  BY <1>1, <1>2
<1>5. Y \in MergeMemory
  <2> HIDE DEF g
  <2> QED
    BY <1>1, <1>2, <1>3 DEF MergeMemory
<1> QED
  BY <1>3, <1>4, <1>5 DEF Y

(* A client that the step is not about. *)
LEMMA AccumulatedSame ==
  ASSUME NEW in, NEW X, NEW Y, NEW d, Accumulated(in, X, d), Y.of[d] = X.of[d],
         \A t \in Sides : \A j \in DataAt(in[t], d) : <<t, j>> \in Y.seen <=> <<t, j>> \in X.seen
  PROVE  Accumulated(in, Y, d)
<1> DEFINE Of(Z, t) == {j \in DataAt(in[t], d) : <<t, j>> \in Z.seen}
<1>1. \A t \in Sides : SeenAll(in, Y, t, d) <=> SeenAll(in, X, t, d)
  BY DEF SeenAll
<1>2. \A t \in Sides : Of(Y, t) = Of(X, t)
  OBVIOUS
<1>3. \A t \in Sides : {in[t][i].row : i \in Of(Y, t)} = {in[t][i].row : i \in Of(X, t)}
  BY <1>2
<1> QED
  BY <1>1, <1>3 DEF Accumulated

(* handle_data applies a message once and, when it is the last one of its     *)
(* client, begins the emission.                                               *)
LEMMA MergeApplyData ==
  ASSUME MergeInv, NEW s \in Sides, M!ApplyData(s), stamped' = stamped, input' = input
  PROVE  MergeInv'
<1> DEFINE x == M!Waiting(s)
           c == x.client
           r == Applied(mmem.of[c], s, x.row)
           q == qin[s]
           h == mheld[s]
<1>1. M!CanTake(s, "data") /\ ~r.aborted /\ x.id \notin mmem.seen
  BY DEF M!ApplyData, Applied
<1>2. /\ mmem' = WithSeen(mmem, c, r, x.id) /\ mclient' = c
      /\ todo' = IF M!Complete(r) THEN M!Merged(r) ELSE <<>>
      /\ mpc' = IF M!Complete(r) THEN "emit" ELSE M!AfterData(M!HeldAcks + 1)
      /\ mheld' = [mheld EXCEPT ![s] = @ + 1]
      /\ mdirty' = TRUE /\ mtask' = "data"
      /\ UNCHANGED <<qin, mckpt, mat>>
  BY DEF M!ApplyData, Applied, WithSeen
<1> HIDE DEF x, r
<1>3. /\ mpc = "idle" /\ x = q[h + 1] /\ x.kind = "data"
      /\ Queue(q, h) /\ h < Len(q) /\ Len(q) \in Nat /\ h \in Nat
      /\ c \in Clients /\ x \in DataIn(input[s])
  BY <1>1, Taking DEF x
<1>4. \A d \in Clients : ~Frozen(d)
  BY <1>3, WhenFrozen
<1>5. /\ MergeTyped /\ InputOK /\ mmem \in MergeMemory /\ mmem.of[c] \in MergeRecord
      /\ DOMAIN mheld = Sides
  BY <1>3 DEF MergeInv, MergeTyped, MergeMemory
<1>6. x \in ToSet(input[s])
  BY <1>3 DEF DataIn
<1>7. x.row \in Rows /\ \E i \in DataAt(input[s], c) : x = input[s][i] /\ x.id = <<s, i>>
  BY <1>3, <1>5, <1>6, InputMessage
<1>8. PICK n \in DataAt(input[s], c) : x = input[s][n] /\ x.id = <<s, n>>
  BY <1>7
<1>9. n \in Nat /\ x.id \in Sides \X Nat
  <2>1. n \in DOMAIN input[s] /\ DOMAIN input[s] = 1 .. Len(input[s]) /\ Len(input[s]) \in Nat
    BY <1>5, <1>8, SeqOfItself DEF InputOK, DataAt
  <2> QED
    BY <1>8, <2>1
<1>10. /\ r \in MergeRecord /\ r.aborted = mmem.of[c].aborted /\ r.counts = mmem.of[c].counts
       /\ r.expected = mmem.of[c].expected /\ r.phase = mmem.of[c].phase
       /\ r.rows[s] = Append(mmem.of[c].rows[s], x.row)
       /\ \A t \in Sides : t # s => r.rows[t] = mmem.of[c].rows[t]
  <2>1. mmem.of[c] \in MergeRecord /\ x.row \in Rows
    BY <1>5, <1>7
  <2> QED
    BY <2>1, AppliedRecord DEF r
<1>11. /\ mmem' \in MergeMemory /\ mmem'.seen = mmem.seen \cup {x.id} /\ mmem'.seq = mmem.seq
       /\ mmem'.of[c] = r
       /\ \A d \in Clients : d # c => mmem'.of[d] = mmem.of[d]
  <2>1. /\ mmem \in MergeMemory /\ c \in Clients /\ r \in MergeRecord /\ x.id \in Sides \X Nat
        /\ mmem' = WithSeen(mmem, c, r, x.id)
    BY <1>2, <1>3, <1>5, <1>9, <1>10
  <2> QED
    BY <2>1, MergeMemorySeen
\* an EOF that was handled would have found this message seen
<1>12. r.expected = M!Unknown /\ r.counts[s] = M!Unknown /\ ~mmem.of[c].aborted
  <2>1. ~SeenAll(input, mmem, s, c)
    BY <1>1, <1>8 DEF SeenAll
  <2>2. Accumulated(input, mmem, c) /\ ~mmem.of[c].aborted
    BY <1>1, <1>3, <1>10 DEF MergeInv
  <2> QED
    BY <1>10, <2>1, <2>2 DEF Accumulated
<1>13. ~M!Complete(r)
  BY <1>12 DEF M!Complete, M!Unknown
<1>14. mpc' \in {"idle", "save"} /\ todo' = <<>>
  BY <1>2, <1>13 DEF M!AfterData
<1>15. MergeTyped'
  <2>1. mpc' \in DOMAIN Tasks \ {"respond"} /\ mtask' \in Tasks[mpc']
    BY <1>2, <1>14 DEF Tasks
  <2>2. todo' \in Seq(OutRows) /\ DOMAIN mheld' = Sides
    BY <1>2, <1>5, <1>14, EmptySeq
  <2> QED
    BY <1>2, <1>3, <1>5, <1>11, <2>1, <2>2 DEF MergeTyped
<1>16. mheld'[s] = h + 1 /\ \A t \in Sides : t # s => mheld'[t] = mheld[t]
  BY <1>2, <1>5
<1>17. MergeQueue(s)'
  <2>1. Queue(q, h + 1)
    BY <1>3, QueueTake
  <2>2. ASSUME NEW m \in DataIn(input[s])
        PROVE  Covered(q, h + 1, m, mmem.seen \cup {x.id}, mckpt.seen, mckpt.of[m.client].aborted)
    <3>1. Covered(q, h, m, mmem.seen, mckpt.seen, mckpt.of[m.client].aborted)
      BY DEF MergeInv, MergeQueue
    <3>2. m.id = x.id => m = x
      BY <1>3, <1>5, InputIds
    <3> QED
      BY <1>3, <3>1, <3>2, CoveredTake
  <2>3. qin'[s] = q
    BY <1>2
  <2> QED
    BY <1>2, <1>11, <1>14, <1>16, <2>1, <2>2, <2>3, MergeQueueFrom
<1>18. ASSUME NEW t \in Sides PROVE MergeQueue(t)'
  <2>1. CASE t = s
    BY <1>17, <2>1
  <2>2. CASE t # s
    <3>1. \A m \in DataIn(input[t]) : m.id # x.id
      BY <1>3, <1>5, <2>2, InputIds
    <3>2. \A m \in DataIn(input[t]) : m.id \in mmem'.seen <=> m.id \in mmem.seen
      BY <1>11, <3>1
    <3>3. qin'[t] = qin[t] /\ mheld'[t] = mheld[t] /\ mckpt' = mckpt /\ mpc' \in {"idle", "save", "ack"}
      BY <1>2, <1>14, <1>16, <2>2
    <3> QED
      BY <3>2, <3>3, OtherQueue
  <2> QED
    BY <2>1, <2>2
<1>19. Saved(mmem, mckpt, mdirty, mpc, mtask)'
  <2>1. /\ mckpt.seen \subseteq mmem.seen
        /\ \A d \in Clients : /\ mckpt.of[d].aborted => mmem.of[d].aborted
                              /\ mmem.of[d].aborted => mckpt.of[d].aborted
    BY <1>3 DEF MergeInv, Saved
  <2>2. \A d \in Clients : mmem'.of[d].aborted = mmem.of[d].aborted
    BY <1>10, <1>11
  <2> QED
    BY <1>2, <1>11, <1>14, <2>1, <2>2 DEF Saved
<1>20. Event(qin[mat], mheld[mat], mpc, mtask, mclient)'
  BY <1>2, <1>14 DEF Event, Handling
<1>21. SeenWasQueued'
  <2>1. SeenWasQueued
    BY DEF MergeInv
  <2>2. x \in DataIn(input["left"]) \cup DataIn(input["right"])
    BY <1>3 DEF Sides, M!Sides
  <2> QED
    BY <1>11, <2>1, <2>2 DEF SeenWasQueued
<1>22. ASSUME NEW d \in Clients PROVE Accumulated(input, mmem, d)'
  <2> DEFINE Of(X, t) == {j \in DataAt(input[t], d) : <<t, j>> \in X.seen}
  <2>1. Accumulated(input, mmem, d)
    BY DEF MergeInv
  <2>2. CASE d # c
    <3>1. \A t \in Sides : \A j \in DataAt(input[t], d) : <<t, j>> # x.id
      BY <1>8, <2>2 DEF DataAt
    <3>2. \A t \in Sides : \A j \in DataAt(input[t], d) : <<t, j>> \in mmem'.seen <=> <<t, j>> \in mmem.seen
      BY <1>11, <3>1
    <3>3. mmem'.of[d] = mmem.of[d]
      BY <1>11, <2>2
    <3>4. Accumulated(input, mmem', d)
      BY <2>1, <3>2, <3>3, AccumulatedSame
    <3> QED
      BY <3>4
  <2>3. CASE d = c
    <3> DEFINE o == mmem.of[c]
    <3>1. \A t \in Sides : SeenAll(input, mmem, t, d) => SeenAll(input, mmem', t, d)
      BY <1>11 DEF SeenAll
    <3>2. \A t \in Sides : r.counts[t] # M!Unknown => SeenAll(input, mmem', t, d)
      BY <1>10, <1>12, <2>1, <2>3, <3>1 DEF Accumulated
    <3>3. ASSUME r.phase = "PROCESSING"
          PROVE  /\ \A t \in Sides : ToSet(r.rows[t]) = {input[t][i].row : i \in Of(mmem', t)}
                 /\ IsInjective(r.rows["right"])
      <4>1. /\ \A t \in Sides : ToSet(o.rows[t]) = {input[t][i].row : i \in Of(mmem, t)}
            /\ IsInjective(o.rows["right"])
        BY <1>10, <1>12, <2>1, <2>3, <3>3 DEF Accumulated
      <4>2. o.rows[s] \in Seq(Rows)
        BY <1>5 DEF MergeRecord
      <4>3. ToSet(r.rows[s]) = ToSet(o.rows[s]) \cup {x.row}
        <5>1. r.rows[s] = Append(o.rows[s], x.row) /\ x.row \in Rows
          BY <1>7, <1>10
        <5> QED
          BY <4>2, <5>1, AppendRow
      <4>4. Of(mmem', s) = Of(mmem, s) \cup {n}
        BY <1>8, <1>11, <2>3
      <4>5. ToSet(r.rows[s]) = {input[s][i].row : i \in Of(mmem', s)}
        <5> HIDE DEF Of
        <5> QED
          BY <1>8, <4>1, <4>3, <4>4
      <4>6. ASSUME NEW t \in Sides, t # s PROVE ToSet(r.rows[t]) = {input[t][i].row : i \in Of(mmem', t)}
        <5>1. Of(mmem', t) = Of(mmem, t)
          BY <1>8, <1>11, <4>6
        <5>2. r.rows[t] = o.rows[t]
          BY <1>10, <4>6
        <5> HIDE DEF Of
        <5> QED
          BY <4>1, <5>1, <5>2
      <4>7. IsInjective(r.rows["right"])
        <5>1. CASE s # "right"
          BY <1>10, <4>1, <5>1 DEF Sides, M!Sides
        <5>2. CASE s = "right"
          <6>1. x.row \notin ToSet(o.rows[s])
            <7> SUFFICES ASSUME x.row \in ToSet(o.rows[s]) PROVE FALSE
              OBVIOUS
            <7>1. PICK i \in Of(mmem, s) : x.row = input[s][i].row
              BY <4>1
            <7>2. /\ i \in DOMAIN input[s] /\ n \in DOMAIN input[s]
                  /\ input[s][i].kind = "data" /\ input[s][n].kind = "data"
                  /\ <<s, i>> \in mmem.seen /\ input[s][n].row = input[s][i].row
              BY <1>8, <7>1 DEF DataAt
            <7>3. i = n
              BY <1>5, <5>2, <7>2 DEF InputOK
            <7> QED
              BY <1>1, <1>8, <7>2, <7>3
          <6> QED
            <7>1. r.rows[s] = Append(o.rows[s], x.row) /\ x.row \in Rows /\ IsInjective(o.rows[s])
              BY <1>7, <1>10, <4>1, <5>2
            <7>2. IsInjective(r.rows[s])
              BY <4>2, <6>1, <7>1, AppendRow
            <7> QED
              BY <5>2, <7>2
        <5> QED
          BY <5>1, <5>2
      <4> HIDE DEF Of
      <4> QED
        BY <4>5, <4>6, <4>7
    <3>4. mmem'.of[d] = r /\ ~r.aborted
      BY <1>1, <1>11, <2>3
    <3> QED
      BY <1>12, <3>2, <3>3, <3>4 DEF Accumulated
  <2> QED
    BY <2>2, <2>3
<1>23. InputOK' /\ Emitting' /\ Stamps' /\ \A d \in Clients : Accumulated(input, mckpt, d)'
  <2>1. \A d \in Clients : ~M!Complete(mmem'.of[d])
    <3>1. \A d \in Clients : ~M!Complete(mmem.of[d])
      BY <1>3, NotComplete
    <3> QED
      BY <1>11, <1>13, <3>1
  <2>2. \A d \in Clients : /\ mmem'.of[d].phase = mmem.of[d].phase
                           /\ mmem'.of[d].aborted = mmem.of[d].aborted
    BY <1>10, <1>11
  <2>3. mpc' # "emit" /\ UNCHANGED <<input, mckpt, stamped>>
    BY <1>2, <1>14
  <2> QED
    BY <1>4, <1>11, <2>1, <2>2, <2>3, QuietStep
<1> QED
  BY <1>15, <1>18, <1>19, <1>20, <1>21, <1>22, <1>23 DEF MergeInv

-----------------------------------------------------------------------------
(* Steps of the merge that save *)

(* What is frozen is the whole result, each row once. *)
LEMMA MergedTyped ==
  ASSUME UseCase2, NEW r \in MergeRecord
  PROVE  M!Merged(r) \in Seq(OutRows) /\ Len(M!Merged(r)) \in Nat \ {0}
<1>1. r.rows["right"] \in Seq(Rows)
  BY DEF MergeRecord, Sides, M!Sides
<1>2. /\ Result(r.rows["left"], r.rows["right"]) \in Seq(Rows \cup {"empty"})
      /\ Len(Result(r.rows["left"], r.rows["right"])) \in Nat \ {0}
  BY <1>1, ResultRows
<1> QED
  BY <1>2 DEF M!Merged, OutRows

(* An emission is never empty: a result without rows is sent as one empty     *)
(* message.                                                                   *)
LEMMA EmissionTyped ==
  ASSUME MergeInv, NEW c \in Clients
  PROVE  Emission(c) \in Seq(OutRows) /\ Len(Emission(c)) \in Nat \ {0}
<1>1. mckpt.of[c] \in MergeRecord /\ UseCase2
  BY DEF MergeInv, MergeTyped, MergeMemory, InputOK
<1> QED
  BY <1>1, MergedTyped DEF Emission

(* A frozen client has seen all of its input, so its emission is the whole    *)
(* result and no row comes twice.                                             *)
LEMMA EmissionWhole ==
  ASSUME MergeInv, NEW c \in Clients, Frozen(c)
  PROVE  ToSet(Emission(c)) = Whole(c) /\ IsInjective(Emission(c)) /\ ~mckpt.of[c].aborted
<1> DEFINE r == mckpt.of[c]
           all(s) == {input[s][i].row : i \in {j \in DataAt(input[s], c) : <<s, j>> \in mckpt.seen}}
<1>1. r \in MergeRecord /\ UseCase2
  BY DEF MergeInv, MergeTyped, MergeMemory, InputOK
<1>2. r.phase = "PROCESSING" /\ r.expected # M!Unknown
  BY <1>1 DEF Frozen, M!Complete, M!Unknown, MergeRecord
<1>3. Accumulated(input, mckpt, c)
  BY DEF MergeInv
<1>4. ~r.aborted
  BY <1>2, <1>3 DEF Accumulated
<1>5. /\ \A s \in Sides : SeenAll(input, mckpt, s, c)
      /\ \A s \in Sides : ToSet(r.rows[s]) = all(s)
      /\ IsInjective(r.rows["right"])
  BY <1>2, <1>3, <1>4 DEF Accumulated
<1>6. \A s \in Sides : {j \in DataAt(input[s], c) : <<s, j>> \in mckpt.seen} = DataAt(input[s], c)
  BY <1>5 DEF SeenAll
<1>7. \A s \in Sides : all(s) = RowsOf(s, c)
  BY <1>6 DEF RowsOf
<1> HIDE DEF all
<1>8. ToSet(r.rows["left"]) = RowsOf("left", c) /\ ToSet(r.rows["right"]) = RowsOf("right", c)
  BY <1>5, <1>7 DEF Sides, M!Sides
<1>9. r.rows["right"] \in Seq(Rows)
  BY <1>1 DEF MergeRecord, Sides, M!Sides
<1> DEFINE res == Result(r.rows["left"], r.rows["right"])
           matching == Matches(r.rows["left"], r.rows["right"])
<1>10. /\ ToSet(res) = IF matching = {} THEN {"empty"} ELSE matching
       /\ IsInjective(res)
  BY <1>1, <1>5, <1>9, ResultRows
<1> HIDE DEF res
<1>11. Emission(c) = res
  BY DEF Emission, M!Merged, res
<1>12. Whole(c) = IF matching = {} THEN {"empty"} ELSE matching
  BY <1>1, <1>8 DEF Whole, Matches, UseCase2
<1> QED
  BY <1>4, <1>10, <1>11, <1>12

(* The counter never falls behind the one that was saved. *)
LEMMA CounterAhead ==
  ASSUME MergeInv
  PROVE  mmem.seq \in Nat /\ mckpt.seq \in Nat /\ mckpt.seq <= mmem.seq
<1>1. mmem.seq \in Nat /\ mckpt.seq \in Nat /\ todo \in Seq(OutRows) /\ mclient \in Clients
  BY DEF MergeInv, MergeTyped, MergeMemory
<1>2. CASE \A c \in Clients : ~Frozen(c)
  BY <1>1, <1>2 DEF MergeInv, Emitting
<1>3. CASE \E c \in Clients : Frozen(c)
  <2>1. PICK c \in Clients : Frozen(c)
    BY <1>3
  <2>2. Len(Emission(c)) \in Nat /\ Len(Emission(mclient)) \in Nat /\ Len(todo) \in Nat
    BY <1>1, EmissionTyped, LenProperties
  <2>3. CASE mpc = "emit"
    <3>1. /\ Len(todo) <= Len(Emission(mclient))
          /\ mmem.seq = mckpt.seq + (Len(Emission(mclient)) - Len(todo))
      BY <2>3 DEF MergeInv, Emitting
    <3> QED
      BY <1>1, <2>2, <3>1
  <2>4. CASE mpc = "down"
    BY <1>1, <2>4 DEF MergeInv, Saved
  <2>5. CASE mpc \notin {"emit", "down"}
    <3>1. mmem.seq = mckpt.seq + Len(Emission(c))
      BY <2>1, <2>5 DEF MergeInv, Emitting
    <3> QED
      BY <1>1, <2>2, <3>1
  <2> QED
    BY <2>3, <2>4, <2>5
<1> QED
  BY <1>2, <1>3

(* The queues after a checkpoint of what was seen. *)
LEMMA QueuesSaved ==
  ASSUME MergeInv, UNCHANGED <<input, qin, mheld>>, mmem'.seen = mmem.seen, mckpt'.seen = mmem.seen,
         \A c \in Clients : mckpt.of[c].aborted => mckpt'.of[c].aborted,
         mpc \notin {"idle", "save", "ack"} \/ mpc' \in {"idle", "save", "ack"}
  PROVE  \A s \in Sides : MergeQueue(s)'
<1> SUFFICES ASSUME NEW s \in Sides PROVE MergeQueue(s)'
  OBVIOUS
<1>1. MergeQueue(s) /\ InputOK
  BY DEF MergeInv
<1>2. \A m \in DataIn(input[s]) : m.client \in Clients
  BY <1>1 DEF InputOK, DataIn, ToSet
<1>3. ASSUME NEW m \in DataIn(input[s])
      PROVE  Covered(qin[s], mheld[s], m, mmem.seen, mmem.seen, mckpt'.of[m.client].aborted)
  <2>1. Covered(qin[s], mheld[s], m, mmem.seen, mckpt.seen, mckpt.of[m.client].aborted)
    BY <1>1 DEF MergeQueue
  <2>2. mckpt.of[m.client].aborted => mckpt'.of[m.client].aborted
    BY <1>2
  <2> QED
    BY <2>1, <2>2, CoveredSave
<1>4. Queue(qin[s], mheld[s]) /\ (mpc \notin {"idle", "save", "ack"} => mheld[s] = 0)
  BY <1>1 DEF MergeQueue
<1> QED
  BY <1>3, <1>4, <1>1 DEF MergeQueue

(* A checkpoint taken outside an emission freezes at most the client about to *)
(* be emitted, and saves the counter with it.                                 *)
LEMMA MergeSave ==
  ASSUME MergeInv, M!Save, stamped' = stamped, input' = input
  PROVE  MergeInv'
<1>1. /\ mpc = "save"
      /\ mckpt' = IF mdirty \/ mtask \in {"eof", "abort", "start"} THEN mmem ELSE mckpt
      /\ mdirty' = FALSE /\ mpc' = "ack"
      /\ UNCHANGED <<qin, mheld, mmem, mtask, mat, mclient, todo>>
  BY DEF M!Save
<1>2. /\ MergeTyped /\ mtask \in {"data", "start", "flush", "eof", "abort"}
      /\ mmem \in MergeMemory /\ mckpt \in MergeMemory
  BY <1>1 DEF MergeInv, MergeTyped, Tasks
<1>3. MergeTyped'
  <2>1. mpc' \in DOMAIN Tasks \ {"respond"} /\ mtask' \in Tasks[mpc']
    BY <1>1, <1>2 DEF Tasks
  <2>2. mckpt' \in MergeMemory
    BY <1>1, <1>2
  <2> QED
    BY <1>1, <1>2, <2>1, <2>2 DEF MergeTyped
<1>4. SeenWasQueued' /\ InputOK'
  BY <1>1, SameInput DEF MergeInv, SeenWasQueued
<1>5. Event(qin[mat], mheld[mat], mpc, mtask, mclient)'
  BY <1>1 DEF MergeInv, Event, Handling
<1>6. \A c \in Clients : Accumulated(input, mckpt, c)' /\ Accumulated(input, mmem, c)'
  BY <1>1 DEF MergeInv
<1>7. Saved(mmem, mckpt, mdirty, "save", mtask)
  BY <1>1 DEF MergeInv
<1>8. Saved(mmem, mckpt, mdirty, mpc, mtask)' /\ mckpt'.seen = mmem.seen
  BY <1>1, <1>7 DEF Saved
<1>9. \A s \in Sides : MergeQueue(s)'
  <2>1. \A c \in Clients : mckpt.of[c].aborted => mckpt'.of[c].aborted
    BY <1>1, <1>7 DEF Saved
  <2> QED
    BY <1>1, <1>8, <2>1, QueuesSaved
<1>10. \A c \in Clients : ~M!Complete(mmem.of[c])
  BY <1>1, NotComplete
<1>11. CASE ~(mdirty \/ mtask \in {"eof", "abort", "start"})
  <2>1. mckpt' = mckpt
    BY <1>1, <1>11
  <2>2. \A c \in Clients : ~Frozen(c)
    <3>1. mtask \notin {"eof", "start"}
      BY <1>11
    <3> QED
      BY <1>1, <3>1, WhenFrozen
  <2>3. Emitting' /\ Stamps'
    BY <1>1, <2>1, <2>2, IdleStep
  <2> QED
    BY <1>3, <1>4, <1>5, <1>6, <1>8, <1>9, <2>3 DEF MergeInv
<1>12. CASE mdirty \/ mtask \in {"eof", "abort", "start"}
  <2>1. mckpt' = mmem
    BY <1>1, <1>12
  <2>2. \A c \in Clients : ~Frozen(c)'
    BY <1>10, <2>1 DEF Frozen
  <2>3. Emitting'
    BY <1>1, <1>10, <2>1, <2>2 DEF Emitting
  <2>4. Stamps'
    <3>1. Stamps /\ Emitting
      BY DEF MergeInv
    <3>2. ASSUME NEW m \in stamped, m.id[2] > mmem.seq PROVE FALSE
      <4>1. /\ m.client \in Clients /\ m.id \in {"merge"} \X Nat
            /\ m.id[2] > mckpt.seq =>
                 Frozen(m.client) /\ \E i \in 1 .. Len(Emission(m.client)) : m = Numbered(m.client, i)
        BY <3>1 DEF Stamps
      <4>2. m.id[2] \in Nat /\ m.id[2] > mckpt.seq
        BY <3>2, <4>1, CounterAhead
      <4>3. PICK i \in 1 .. Len(Emission(m.client)) : m = Numbered(m.client, i)
        BY <4>1, <4>2
      <4>4. m.id[2] = mckpt.seq + i
        <5>1. m.id = <<"merge", mckpt.seq + i>>
          BY <4>3, MessageFields DEF Numbered
        <5> QED
          BY <5>1
      <4>5. mmem.seq = mckpt.seq + Len(Emission(m.client))
        BY <1>1, <3>1, <4>1, <4>2 DEF Emitting
      <4>6. Len(Emission(m.client)) \in Nat
        BY <4>1, EmissionTyped
      <4> QED
        BY <3>2, <4>3, <4>4, <4>5, <4>6, CounterAhead
    <3>3. ASSUME NEW c \in Clients, mmem.of[c].phase = "PROCESSING", ~mmem.of[c].aborted
          PROVE  StampedFor(c) = {}
      <4>1. ~mckpt.of[c].aborted
        BY <1>7, <3>3 DEF Saved
      <4>2. mckpt.of[c].phase = "PROCESSING"
        <5>1. mckpt.of[c].phase # "DONE"
          BY <3>1, <3>3 DEF Emitting
        <5> QED
          BY <1>2, <5>1 DEF MergeMemory, MergeRecord
      <4>3. ~Frozen(c)
        BY <1>1, <3>1, <3>3 DEF Emitting
      <4> QED
        BY <3>1, <4>1, <4>2, <4>3 DEF Stamps
    <3>4. StampedOnce'
      BY <3>1 DEF Stamps, StampedOnce
    <3>5. \A c : StampedFor(c)' = StampedFor(c)
      BY DEF StampedFor
    <3>6. \A c : Whole(c)' = Whole(c)
      BY SameInput
    <3>7. \A m \in stamped :
            m.kind = "data" /\ m.client \in Clients /\ m.id \in {"merge"} \X Nat /\ m.row \in OutRows
      BY <3>1 DEF Stamps
    <3>8. \A c \in Clients : /\ \A m \in StampedFor(c) : m.row \in Whole(c)
                             /\ \A m, n \in StampedFor(c) : m.row = n.row => m = n
      BY <3>1 DEF Stamps
    <3>9. \A m \in stamped' : ~(m.id[2] > mckpt'.seq)
      BY <2>1, <3>2
    <3>10. \A c \in Clients : /\ mckpt'.of[c].phase = "PROCESSING" /\ ~mckpt'.of[c].aborted
                              => StampedFor(c)' = {}
      BY <2>1, <3>3, <3>5
    <3> QED
      BY <2>2, <3>4, <3>5, <3>6, <3>7, <3>8, <3>9, <3>10 DEF Stamps
  <2> QED
    BY <1>3, <1>4, <1>5, <1>6, <1>8, <1>9, <2>3, <2>4 DEF MergeInv
<1> QED
  BY <1>11, <1>12

(* The record of a client after an EOF of side s that counts n messages. *)
LEMMA CountedRecord ==
  ASSUME NEW r \in MergeRecord, NEW s \in Sides, NEW n \in Nat
  PROVE  LET u == M!WithCount(r, s, n) IN
         /\ u \in MergeRecord /\ u.rows = r.rows /\ u.phase = r.phase /\ u.aborted = r.aborted
         /\ \A t \in Sides : t # s => u.counts[t] = r.counts[t]
         /\ \/ u.expected = r.expected
            \/ ~r.aborted /\ \A t \in Sides : u.counts[t] # M!Unknown
<1> DEFINE counts == [r.counts EXCEPT ![s] = n]
           e == IF r.aborted \/ \E t \in Sides : counts[t] = M!Unknown
                THEN r.expected ELSE counts["left"] + counts["right"]
           u == M!WithCount(r, s, n)
<1>1. /\ r.counts \in [Sides -> Int] /\ r.expected \in Int
      /\ r \in [rows : [Sides -> Seq(Rows)], counts : [Sides -> Int], expected : Int, received : Nat,
                phase : {"PROCESSING", "DONE"}, aborted : BOOLEAN]
  BY DEF MergeRecord
<1>2. counts \in [Sides -> Int] /\ \A t \in Sides : t # s => counts[t] = r.counts[t]
  BY <1>1
<1>3. u = [r EXCEPT !.counts = counts, !.expected = e]
  BY DEF M!WithCount, Sides
<1> HIDE DEF counts, u
<1>4. e \in Int
  BY <1>1, <1>2 DEF Sides, M!Sides
<1>5. e = r.expected \/ (~r.aborted /\ \A t \in Sides : counts[t] # M!Unknown)
  OBVIOUS
<1> HIDE DEF e
<1>6. /\ u.counts = counts /\ u.expected = e /\ u.rows = r.rows /\ u.phase = r.phase
      /\ u.aborted = r.aborted
  BY <1>1, <1>3
<1>7. u \in MergeRecord
  BY <1>1, <1>2, <1>3, <1>4 DEF MergeRecord
<1> QED
  BY <1>2, <1>5, <1>6, <1>7 DEF u

(* An EOF at the head of its queue finds all that it announces in the dedup table. *)
LEMMA HandledEofCounts ==
  ASSUME MergeInv, mpc = "handle"
  PROVE  /\ mat \in Sides /\ mclient \in Clients /\ qin[mat][1].count \in Nat
         /\ ~mmem.of[mclient].aborted => SeenAll(input, mmem, mat, mclient)
<1>1. mtask = "flush" /\ mat \in Sides /\ mclient \in Clients
  BY DEF MergeInv, MergeTyped, Tasks
<1>2. mheld[mat] = 0 /\ Queue(qin[mat], 0) /\ Len(qin[mat]) \in Nat
  BY <1>1 DEF MergeInv, MergeQueue, Queue, IsSeq
<1>3. 0 < Len(qin[mat]) /\ qin[mat][1].client = mclient /\ qin[mat][1].kind = "eof"
  <2>1. /\ 0 < Len(qin[mat]) /\ qin[mat][0 + 1].client = mclient
        /\ qin[mat][0 + 1].kind = IF mtask = "abort" THEN "abort" ELSE "eof"
    BY <1>1, <1>2 DEF MergeInv, Event, Handling
  <2> QED
    BY <1>1, <2>1
<1>4. 1 \in 1 .. Len(qin[mat])
  BY <1>2, <1>3
<1>5. qin[mat][1].count \in Nat
  BY <1>1, <1>3, <1>4, QueuedMessage
<1>6. ASSUME ~mmem.of[mclient].aborted, NEW i \in DataAt(input[mat], mclient)
      PROVE  <<mat, i>> \in mmem.seen
  <2> DEFINE m == input[mat][i]
  <2>1. m \in DataIn(input[mat]) /\ m.client = mclient /\ m.id = <<mat, i>>
    BY <1>1 DEF MergeInv, InputOK, DataAt, DataIn, ToSet
  <2> HIDE DEF m
  <2>2. Covered(qin[mat], 0, m, mmem.seen, mckpt.seen, mckpt.of[mclient].aborted)
    BY <1>1, <1>2, <2>1 DEF MergeInv, MergeQueue
  <2>3. ~mckpt.of[mclient].aborted
    BY <1>1, <1>6 DEF MergeInv, Saved
  <2>4. IsEof(qin[mat][1], m.client)
    BY <1>3, <2>1 DEF IsEof
  <2>5. m.id \in mmem.seen
    BY <1>2, <1>3, <2>2, <2>3, <2>4, EofFindsAll
  <2> QED
    BY <2>1, <2>5
<1> QED
  BY <1>1, <1>5, <1>6 DEF SeenAll

(* _on_eof finds everything that its count announces already seen, and        *)
(* freezes the client that it completes.                                      *)
LEMMA MergeHandleEOF ==
  ASSUME MergeInv, M!HandleEOF, stamped' = stamped, input' = input
  PROVE  MergeInv'
<1> DEFINE c == mclient
           o == mmem.of[c]
           r == M!WithCount(o, mat, qin[mat][1].count)
<1>1. mpc = "handle" /\ mmem' = With(mmem, c, r) /\ mckpt' = mmem' /\ mdirty' = FALSE
  BY DEF M!HandleEOF, With
<1>2. /\ todo' = IF M!Complete(r) THEN M!Merged(r) ELSE <<>>
      /\ mpc' = IF M!Complete(r) THEN "emit" ELSE "done"
      /\ mtask' = "eof" /\ UNCHANGED <<qin, mheld, mat, mclient>>
  BY DEF M!HandleEOF
<1>3. /\ MergeTyped /\ mmem \in MergeMemory /\ mckpt \in MergeMemory /\ c \in Clients
      /\ mat \in Sides /\ mtask = "flush"
  BY <1>1 DEF MergeInv, MergeTyped, Tasks
<1>4. qin[mat][1].count \in Nat /\ (~o.aborted => SeenAll(input, mmem, mat, c))
  BY <1>1, HandledEofCounts
<1>5. o \in MergeRecord
  BY <1>3 DEF MergeMemory
<1>6. /\ r \in MergeRecord /\ r.rows = o.rows /\ r.phase = o.phase /\ r.aborted = o.aborted
      /\ \A t \in Sides : t # mat => r.counts[t] = o.counts[t]
      /\ \/ r.expected = o.expected
         \/ ~o.aborted /\ \A t \in Sides : r.counts[t] # M!Unknown
  <2> HIDE DEF o
  <2> QED
    BY <1>3, <1>4, <1>5, CountedRecord
<1> HIDE DEF r
<1>7. /\ mmem' \in MergeMemory /\ mmem'.seen = mmem.seen /\ mmem'.seq = mmem.seq
      /\ mmem'.of[c] = r
      /\ \A d \in Clients : d # c => mmem'.of[d] = mmem.of[d]
  BY <1>1, <1>3, <1>6, MergeRecordChanged
<1>8. \A d \in Clients : ~Frozen(d)
  BY <1>1, WhenFrozen
<1>9. \A d \in Clients : ~M!Complete(mmem.of[d])
  BY <1>1, NotComplete
<1>10. mmem.seen = mckpt.seen /\ mmem.seq = mckpt.seq
  BY <1>1, <1>8 DEF MergeInv, Saved, Emitting
<1>11. \A d \in Clients : /\ mmem'.of[d].phase = mmem.of[d].phase
                          /\ mmem'.of[d].aborted = mmem.of[d].aborted
  BY <1>6, <1>7
<1>12. MergeTyped'
  <2>1. mpc' \in DOMAIN Tasks \ {"respond"} /\ mtask' \in Tasks[mpc']
    BY <1>2 DEF Tasks
  <2>2. todo' \in Seq(OutRows)
    <3>1. UseCase2
      BY DEF MergeInv, InputOK
    <3> QED
      BY <1>2, <1>6, <3>1, MergedTyped, EmptySeq
  <2> QED
    BY <1>1, <1>2, <1>3, <1>7, <2>1, <2>2 DEF MergeTyped
<1>13. \A s \in Sides : MergeQueue(s)'
  <2>1. \A d \in Clients : mckpt.of[d].aborted => mckpt'.of[d].aborted
    BY <1>1, <1>11 DEF MergeInv, Saved
  <2>2. mckpt'.seen = mmem.seen /\ mpc \notin {"idle", "save", "ack"}
    BY <1>1, <1>7
  <2> QED
    BY <1>2, <1>7, <2>1, <2>2, QueuesSaved
<1>14. Saved(mmem, mckpt, mdirty, mpc, mtask)'
  BY <1>1, <1>2 DEF Saved
<1>15. Event(qin[mat], mheld[mat], mpc, mtask, mclient)'
  <2>1. Event(qin[mat], mheld[mat], "handle", "flush", mclient)
    BY <1>1, <1>3 DEF MergeInv
  <2> QED
    BY <1>2, <2>1 DEF Event, Handling
<1>16. SeenWasQueued' /\ InputOK'
  BY <1>7, SameInput DEF MergeInv, SeenWasQueued
<1>17. ASSUME NEW d \in Clients PROVE Accumulated(input, mmem', d)
  <2>1. Accumulated(input, mmem, d)
    BY DEF MergeInv
  <2>2. CASE d # c
    <3>1. mmem'.of[d] = mmem.of[d] /\ mmem'.seen = mmem.seen
      BY <1>7, <2>2
    <3> QED
      BY <2>1, <3>1, AccumulatedSame
  <2>3. CASE d = c
    <3>1. \A t \in Sides : SeenAll(input, mmem', t, d) <=> SeenAll(input, mmem, t, d)
      BY <1>7 DEF SeenAll
    <3>2. ASSUME ~r.aborted
          PROVE  /\ \A t \in Sides : r.counts[t] # M!Unknown => SeenAll(input, mmem', t, d)
                 /\ r.expected # M!Unknown => \A t \in Sides : SeenAll(input, mmem', t, d)
      <4>1. ~o.aborted /\ SeenAll(input, mmem, mat, d)
        BY <1>4, <1>6, <2>3, <3>2
      <4>2. \A t \in Sides : o.counts[t] # M!Unknown => SeenAll(input, mmem, t, d)
        BY <2>1, <2>3, <4>1 DEF Accumulated
      <4>3. o.expected # M!Unknown => \A t \in Sides : SeenAll(input, mmem, t, d)
        BY <2>1, <2>3, <4>1 DEF Accumulated
      <4>4. \A t \in Sides : r.counts[t] # M!Unknown => SeenAll(input, mmem, t, d)
        BY <1>6, <4>1, <4>2
      <4> QED
        BY <1>6, <3>1, <4>3, <4>4
    <3>3. r.aborted => r.expected = M!Unknown /\ r.phase = "PROCESSING"
      BY <1>6, <2>1, <2>3 DEF Accumulated
    <3>4. ~r.aborted /\ r.phase = "PROCESSING" =>
            /\ \A s \in Sides :
                 ToSet(r.rows[s]) =
                   {input[s][i].row : i \in {j \in DataAt(input[s], d) : <<s, j>> \in mmem'.seen}}
            /\ IsInjective(r.rows["right"])
      BY <1>6, <1>7, <2>1, <2>3 DEF Accumulated
    <3>5. mmem'.of[d] = r
      BY <1>7, <2>3
    <3> QED
      BY <3>2, <3>3, <3>4, <3>5 DEF Accumulated
  <2> QED
    BY <2>2, <2>3
<1>18. \A d \in Clients : Accumulated(input, mckpt, d)' /\ Accumulated(input, mmem, d)'
  BY <1>1, <1>17
<1>19. \A d \in Clients : Frozen(d)' <=> M!Complete(mmem'.of[d])
  BY <1>1 DEF Frozen
<1>20. \A d \in Clients : M!Complete(mmem'.of[d]) => d = c /\ M!Complete(r)
  BY <1>7, <1>9
<1>21. Emitting'
  <2>1. CASE ~M!Complete(r)
    <3>1. \A d \in Clients : ~Frozen(d)' /\ ~M!Complete(mmem'.of[d])
      BY <1>19, <1>20, <2>1
    <3>2. mpc' = "done" /\ mmem'.seq = mckpt'.seq
      BY <1>1, <1>2, <2>1
    <3> QED
      BY <1>1, <3>1, <3>2 DEF Emitting
  <2>2. CASE M!Complete(r)
    <3>1. mpc' = "emit" /\ todo' = M!Merged(r)
      BY <1>2, <2>2
    <3>2. mclient' = c /\ Emission(mclient)' = todo' /\ Frozen(mclient)'
      BY <1>1, <1>2, <1>7, <2>2, <3>1 DEF Emission, Frozen
    <3>3. Len(todo') \in Nat
      <4>1. UseCase2
        BY DEF MergeInv, InputOK
      <4> QED
        BY <1>6, <3>1, <4>1, MergedTyped
    <3>4. mmem'.seq \in Nat /\ mckpt'.seq = mmem'.seq /\ mmem'.of = mckpt'.of
      BY <1>1, <1>7 DEF MergeMemory
    <3> DEFINE all == Emission(mclient)'
               sent == Len(all) - Len(todo')
    <3>5. sent = 0 /\ Len(todo') <= Len(all)
      BY <3>2, <3>3
    <3>6. /\ mmem'.seq = mckpt'.seq + sent
          /\ \A i \in 1 .. Len(todo') : todo'[i] = all[sent + i]
          /\ \A i \in 1 .. sent : Numbered(mclient, i)' \in stamped'
      <4>1. \A i \in 1 .. Len(todo') : 0 + i = i
        BY <3>3
      <4>2. 1 .. 0 = {} /\ mmem'.seq = mckpt'.seq + 0
        BY <3>4
      <4> QED
        BY <3>2, <3>5, <4>1, <4>2
    <3>7. \A d, e \in Clients : Frozen(d)' /\ Frozen(e)' => d = e
      BY <1>19, <1>20
    <3> HIDE DEF all
    <3>8. mpc' = "emit" =>
            LET a == Emission(mclient)'
                k == Len(a) - Len(todo')
            IN  /\ Frozen(mclient)' /\ mmem'.of = mckpt'.of
                /\ Len(todo') <= Len(a) /\ mmem'.seq = mckpt'.seq + k
                /\ \A i \in 1 .. Len(todo') : todo'[i] = a[k + i]
                /\ \A i \in 1 .. k : Numbered(mclient, i)' \in stamped'
      BY <3>2, <3>4, <3>5, <3>6 DEF all
    <3>9. \A d \in Clients : mckpt'.of[d].phase = "DONE" => mmem'.of[d].phase = "DONE" \/ mmem'.of[d].aborted
      BY <3>4
    <3> QED
      BY <3>1, <3>4, <3>7, <3>8, <3>9 DEF Emitting
  <2> QED
    BY <2>1, <2>2
<1>22. Stamps'
  <2>1. Stamps /\ Emitting
    BY DEF MergeInv
  <2>2. \A m \in stamped : ~(m.id[2] > mckpt.seq) /\ m.client \in Clients
    BY <1>8, <2>1 DEF Stamps
  <2>3. mckpt'.seq = mckpt.seq
    BY <1>1, <1>7, <1>10
  <2>4. ASSUME NEW d \in Clients, mmem'.of[d].phase = "PROCESSING", ~mmem'.of[d].aborted
        PROVE  StampedFor(d) = {}
    <3>1. mmem.of[d].phase = "PROCESSING" /\ ~mmem.of[d].aborted
      BY <1>11, <2>4
    <3>2. ~mckpt.of[d].aborted /\ mckpt.of[d].phase # "DONE"
      BY <2>1, <3>1 DEF MergeInv, Saved, Emitting
    <3>3. mckpt.of[d].phase = "PROCESSING"
      BY <1>3, <3>2 DEF MergeMemory, MergeRecord
    <3> QED
      BY <1>8, <2>1, <3>2, <3>3 DEF Stamps
  <2>5. ASSUME NEW d \in Clients, Frozen(d)' PROVE StampedFor(d) = {}
    <3>1. M!Complete(mmem'.of[d])
      BY <1>19, <2>5
    <3>2. mmem'.of[d].phase = "PROCESSING" /\ mmem'.of[d].expected # M!Unknown
      BY <3>1 DEF M!Complete, M!Unknown
    <3>3. ~mmem'.of[d].aborted
      BY <1>17, <3>2 DEF Accumulated
    <3> QED
      BY <2>4, <3>2, <3>3
  <2>6. StampedOnce'
    BY <2>1 DEF Stamps, StampedOnce
  <2>7. \A d : StampedFor(d)' = StampedFor(d)
    BY DEF StampedFor
  <2>8. \A d : Whole(d)' = Whole(d)
    BY SameInput
  <2>9. \A m \in stamped :
          m.kind = "data" /\ m.client \in Clients /\ m.id \in {"merge"} \X Nat /\ m.row \in OutRows
    BY <2>1 DEF Stamps
  <2>10. \A d \in Clients : /\ \A m \in StampedFor(d) : m.row \in Whole(d)
                            /\ \A m, n \in StampedFor(d) : m.row = n.row => m = n
    BY <2>1 DEF Stamps
  <2>11. \A d \in Clients : /\ mckpt'.of[d].phase = "PROCESSING" /\ ~mckpt'.of[d].aborted
                            => StampedFor(d)' = {}
    BY <1>1, <2>4, <2>7
  <2>12. \A d \in Clients : Frozen(d)' => StampedFor(d)' = {}
    BY <2>5, <2>7
  <2>13. \A m \in stamped' : ~(m.id[2] > mckpt'.seq)
    BY <2>2, <2>3
  <2> QED
    BY <2>6, <2>7, <2>8, <2>9, <2>10, <2>11, <2>12, <2>13 DEF Stamps
<1> QED
  BY <1>12, <1>13, <1>14, <1>15, <1>16, <1>18, <1>21, <1>22 DEF MergeInv

-----------------------------------------------------------------------------
(* Steps of the merge that emit *)

LEMMA DataInAppend ==
  ASSUME NEW q, IsSeq(q), NEW x
  PROVE  DataIn(Append(q, x)) = DataIn(q) \cup (IF x.kind = "data" THEN {x} ELSE {})
<1> DEFINE S == {q[k] : k \in 1 .. Len(q)} \cup {x}
<1>1. Len(q) \in Nat /\ q = [k \in 1 .. Len(q) |-> q[k]]
  BY DEF IsSeq
<1>2. q \in [1 .. Len(q) -> S]
  BY <1>1
<1>3. q \in Seq(S) /\ x \in S
  BY <1>1, <1>2, SeqDef
<1> HIDE DEF S
<1>4. ToSet(Append(q, x)) = ToSet(q) \cup {x}
  BY <1>3, AppendRow
<1> QED
  BY <1>4 DEF DataIn

(* What holds while a client is emitted. *)
LEMMA WhileEmitting ==
  ASSUME MergeInv, mpc = "emit", NEW all, all = Emission(mclient),
         NEW sent, sent = Len(all) - Len(todo)
  PROVE  /\ mclient \in Clients /\ Frozen(mclient) /\ mmem.of = mckpt.of
         /\ all \in Seq(OutRows) /\ Len(all) \in Nat \ {0}
         /\ todo \in Seq(OutRows) /\ Len(todo) \in Nat /\ sent \in Nat
         /\ mmem.seq = mckpt.seq + sent /\ mckpt.seq \in Nat
         /\ \A i \in 1 .. Len(todo) : todo[i] = all[sent + i]
         /\ \A i \in 1 .. sent : Numbered(mclient, i) \in stamped
         /\ mtask \in {"eof", "start"}
<1>1. /\ mclient \in Clients /\ todo \in Seq(OutRows) /\ mckpt.seq \in Nat
      /\ mtask \in {"eof", "start"}
  BY DEF MergeInv, MergeTyped, MergeMemory, Tasks
<1>2. all \in Seq(OutRows) /\ Len(all) \in Nat \ {0} /\ Len(todo) \in Nat
  BY <1>1, EmissionTyped, LenProperties
<1>3. /\ Frozen(mclient) /\ mmem.of = mckpt.of
      /\ Len(todo) <= Len(all) /\ mmem.seq = mckpt.seq + sent
      /\ \A i \in 1 .. Len(todo) : todo[i] = all[sent + i]
      /\ \A i \in 1 .. sent : Numbered(mclient, i) \in stamped
  BY DEF MergeInv, Emitting
<1>4. sent \in Nat
  BY <1>2, <1>3
<1> QED
  BY <1>1, <1>2, <1>3, <1>4

(* The message that is sent is the next one of the frozen emission. *)
LEMMA SentMessage ==
  ASSUME MergeInv, M!SendMerged, IsSeq(link), DataIn(link) \subseteq stamped,
         stamped' = stamped \cup DataIn(link'),
         NEW all, all = Emission(mclient), NEW n, n = Len(all) - Len(todo) + 1,
         NEW x, x = Numbered(mclient, n)
  PROVE  /\ n \in 1 .. Len(all) /\ mmem'.seq = mckpt.seq + n
         /\ link' = Append(link, x) /\ stamped' = stamped \cup {x}
         /\ x.kind = "data" /\ x.client = mclient /\ x.id = <<"merge", mckpt.seq + n>>
         /\ x.row = all[n]
<1> DEFINE sent == Len(all) - Len(todo)
<1>1. /\ mpc = "emit" /\ todo # <<>> /\ mmem' = [mmem EXCEPT !.seq = @ + 1]
      /\ link' = Append(link, M!Data(mclient, <<"merge", mmem'.seq>>, Head(todo)))
  BY DEF M!SendMerged
<1>2. /\ all \in Seq(OutRows) /\ Len(all) \in Nat \ {0}
      /\ todo \in Seq(OutRows) /\ Len(todo) \in Nat /\ sent \in Nat
      /\ mmem.seq = mckpt.seq + sent /\ mckpt.seq \in Nat
      /\ \A i \in 1 .. Len(todo) : todo[i] = all[sent + i]
  BY <1>1, WhileEmitting
<1>3. Len(todo) >= 1
  BY <1>1, <1>2, EmptySeq
<1>4. n \in 1 .. Len(all) /\ n = sent + 1
  BY <1>2, <1>3
<1>5. mmem'.seq = mmem.seq + 1
  BY <1>1 DEF MergeInv, MergeTyped, MergeMemory
<1>6. mmem'.seq = mckpt.seq + n
  <2> HIDE DEF sent
  <2>1. mmem'.seq = (mckpt.seq + sent) + 1
    BY <1>2, <1>5
  <2>2. mckpt.seq \in Nat /\ sent \in Nat /\ n = sent + 1
    BY <1>2, <1>4
  <2> QED
    BY <2>1, <2>2
<1>7. Head(todo) = all[n]
  <2>1. 1 \in 1 .. Len(todo)
    BY <1>2, <1>3
  <2>2. Head(todo) = todo[1]
    BY <1>1, <1>2
  <2> QED
    BY <1>2, <1>4, <2>1, <2>2
<1>8. link' = Append(link, x)
  BY <1>1, <1>6, <1>7 DEF Numbered
<1>9. /\ x.kind = "data" /\ x.client = mclient /\ x.id = <<"merge", mckpt.seq + n>>
      /\ x.row = all[n]
  BY MessageFields DEF Numbered
<1>10. stamped' = stamped \cup {x}
  <2>1. DataIn(Append(link, x)) = DataIn(link) \cup {x}
    BY <1>9, DataInAppend
  <2> QED
    BY <1>8, <2>1
<1> QED
  BY <1>4, <1>6, <1>8, <1>9, <1>10

(* The loop of the emission stamps the next number of the shared counter;     *)
(* after a crash it stamps the same rows with the same numbers.               *)
LEMMA MergeSendMerged ==
  ASSUME MergeInv, M!SendMerged, IsSeq(link), DataIn(link) \subseteq stamped,
         stamped' = stamped \cup DataIn(link'), input' = input
  PROVE  MergeInv'
<1> DEFINE c == mclient
           all == Emission(mclient)
           sent == Len(all) - Len(todo)
           n == Len(all) - Len(todo) + 1
           x == Numbered(mclient, n)
<1>1. /\ mpc = "emit" /\ todo # <<>> /\ mmem' = [mmem EXCEPT !.seq = @ + 1] /\ todo' = Tail(todo)
      /\ UNCHANGED <<qin, mheld, mckpt, mdirty, mpc, mtask, mat, mclient>>
  BY DEF M!SendMerged
<1>2. /\ c \in Clients /\ Frozen(c) /\ mmem.of = mckpt.of
      /\ all \in Seq(OutRows) /\ Len(all) \in Nat \ {0}
      /\ todo \in Seq(OutRows) /\ Len(todo) \in Nat /\ sent \in Nat
      /\ mmem.seq = mckpt.seq + sent /\ mckpt.seq \in Nat
      /\ \A i \in 1 .. Len(todo) : todo[i] = all[sent + i]
      /\ \A i \in 1 .. sent : Numbered(c, i) \in stamped
  BY <1>1, WhileEmitting
<1>3. /\ n \in 1 .. Len(all) /\ mmem'.seq = mckpt.seq + n /\ stamped' = stamped \cup {x}
      /\ x.kind = "data" /\ x.client = mclient /\ x.id = <<"merge", mckpt.seq + n>>
      /\ x.row = all[n]
  BY SentMessage
<1>4. /\ mmem' \in MergeMemory /\ mmem'.of = mmem.of /\ mmem'.seen = mmem.seen
  BY <1>1 DEF MergeInv, MergeTyped, MergeMemory
<1>5. todo' \in Seq(OutRows) /\ Len(todo') = Len(todo) - 1 /\ \A i \in 1 .. Len(todo) - 1 : todo'[i] = todo[i + 1]
  BY <1>1, <1>2, HeadTailProperties
<1>6. MergeTyped'
  BY <1>1, <1>4, <1>5 DEF MergeInv, MergeTyped
<1>7. \A s \in Sides : MergeQueue(s)'
  BY <1>1, <1>4, QueuesKept
<1>8. Saved(mmem, mckpt, mdirty, mpc, mtask)'
  BY <1>1, <1>4 DEF MergeInv, Saved
<1>9. Event(qin[mat], mheld[mat], mpc, mtask, mclient)'
  BY <1>1 DEF MergeInv
<1>10. SeenWasQueued' /\ InputOK'
  BY <1>4, SameInput DEF MergeInv, SeenWasQueued
<1>11. \A d \in Clients : Accumulated(input, mckpt, d)' /\ Accumulated(input, mmem, d)'
  <2>1. \A d \in Clients : Accumulated(input, mckpt, d) /\ Accumulated(input, mmem, d)
    BY DEF MergeInv
  <2>2. \A d \in Clients : Accumulated(input, mmem', d)
    BY <1>4, <2>1, AccumulatedSame
  <2> QED
    BY <1>1, <2>1, <2>2
<1>12. /\ \A d : Frozen(d)' <=> Frozen(d)
       /\ \A d : Emission(d)' = Emission(d)
       /\ \A d, i : Numbered(d, i)' = Numbered(d, i)
  <2>1. \A d : Emission(d)' = Emission(d)
    BY <1>1 DEF Emission
  <2>2. \A d, i : Numbered(d, i)' = Numbered(d, i)
    BY <1>1, <2>1 DEF Numbered
  <2>3. \A d : Frozen(d)' <=> Frozen(d)
    BY <1>1 DEF Frozen
  <2> QED
    BY <2>1, <2>2, <2>3
<1> HIDE DEF x
<1>13. x = Numbered(c, n)
  BY DEF x
<1> HIDE DEF all
<1>14. Emission(mclient)' = all /\ mclient' = c /\ Emission(c) = all
  <2>1. Emission(mclient)' = Emission(mclient)
    BY <1>1 DEF Emission
  <2> QED
    BY <1>1, <2>1 DEF all
<1>15. Emitting'
  <2> DEFINE k == Len(all) - Len(todo')
  <2>1. Emitting
    BY DEF MergeInv
  <2>2. k = n /\ k = sent + 1 /\ Len(todo') <= Len(all) /\ mmem'.seq = mckpt.seq + k
    BY <1>2, <1>3, <1>5
  <2>3. ASSUME NEW i \in 1 .. Len(todo') PROVE todo'[i] = all[k + i]
    <3>1. i \in 1 .. Len(todo) - 1 /\ i + 1 \in 1 .. Len(todo) /\ sent + (i + 1) = k + i
      BY <1>2, <1>5, <2>2
    <3> QED
      BY <1>2, <1>5, <3>1
  <2>4. ASSUME NEW i \in 1 .. k PROVE Numbered(c, i) \in stamped'
    <3> HIDE DEF sent, n, k
    <3>1. i \in 1 .. sent \/ i = n
      BY <1>2, <2>2, <2>4
    <3> QED
      BY <1>2, <1>3, <1>13, <3>1
  <2> HIDE DEF k
  <2>5. Frozen(mclient)' /\ mmem'.of = mckpt'.of
    BY <1>1, <1>2, <1>4 DEF Frozen
  <2>6. \A i \in 1 .. k : Numbered(mclient, i)' \in stamped'
    <3>1. \A i : Numbered(mclient, i)' = Numbered(c, i)
      BY <1>1, <1>14 DEF Numbered
    <3> QED
      BY <2>4, <3>1
  <2>7. LET a == Emission(mclient)'
            j == Len(a) - Len(todo')
        IN  /\ Frozen(mclient)' /\ mmem'.of = mckpt'.of
            /\ Len(todo') <= Len(a) /\ mmem'.seq = mckpt'.seq + j
            /\ \A i \in 1 .. Len(todo') : todo'[i] = a[j + i]
            /\ \A i \in 1 .. j : Numbered(mclient, i)' \in stamped'
    BY <1>1, <1>14, <2>2, <2>3, <2>5, <2>6 DEF k
  <2>8. \A d, e \in Clients : Frozen(d)' /\ Frozen(e)' => d = e
    BY <1>12, <2>1 DEF Emitting
  <2>9. \A d \in Clients : mckpt'.of[d].phase = "DONE" => mmem'.of[d].phase = "DONE" \/ mmem'.of[d].aborted
    BY <2>5
  <2>10. mpc' = "emit" /\ ~(\A d \in Clients : ~Frozen(d)')
    BY <1>1, <1>2, <1>12
  <2>11. (\A d \in Clients : ~Frozen(d)') => mmem'.seq = mckpt'.seq
    BY <2>10
  <2>12. /\ mpc' \notin {"emit", "down"} => \A d \in Clients : ~M!Complete(mmem'.of[d])
         /\ \A d \in Clients : Frozen(d)' => mpc' \in {"emit", "down"}
    BY <2>10
  <2> QED
    BY <2>7, <2>8, <2>9, <2>11, <2>12 DEF Emitting
<1>16. Stamps'
  <2>1. Stamps /\ Emitting
    BY DEF MergeInv
  <2>2. \A d \in Clients : Frozen(d) => d = c
    BY <1>2, <2>1 DEF Emitting
  <2>3. ASSUME NEW m \in stamped, m.id[2] > mckpt.seq
        PROVE  m.client = c /\ \E i \in 1 .. Len(all) : m = Numbered(c, i)
    <3>1. m.client \in Clients /\ Frozen(m.client) /\ \E i \in 1 .. Len(Emission(m.client)) : m = Numbered(m.client, i)
      BY <2>1, <2>3 DEF Stamps
    <3>2. m.client = c
      BY <2>2, <3>1
    <3> QED
      BY <1>14, <3>1, <3>2
  <2>4. x.id[2] = mckpt.seq + n /\ x.id \in {"merge"} \X Nat /\ x.id[2] > mckpt.seq /\ x.row \in OutRows
    <3>1. mckpt.seq + n \in Nat /\ mckpt.seq + n > mckpt.seq
      BY <1>2, <1>3
    <3>2. all[n] \in OutRows
      BY <1>2, <1>3, ElementOfSeq
    <3> QED
      BY <1>3, <3>1, <3>2
  <2>5. ASSUME NEW m \in stamped, m.id = x.id PROVE m = x
    <3>1. m.id[2] > mckpt.seq
      BY <2>4, <2>5
    <3>2. PICK i \in 1 .. Len(all) : m = Numbered(c, i)
      BY <2>3, <3>1
    <3>3. m.id = <<"merge", mckpt.seq + i>>
      BY <3>2, MessageFields DEF Numbered
    <3>4. mckpt.seq + i = mckpt.seq + n
      BY <1>3, <2>5, <3>3
    <3>5. i = n
      <4> HIDE DEF n
      <4>1. mckpt.seq \in Int /\ i \in Int /\ n \in Int
        BY <1>2, <1>3, <3>2
      <4> QED
        BY <3>4, <4>1
    <3> QED
      BY <1>13, <3>2, <3>5
  <2>6. StampedOnce'
    <3>1. StampedOnce
      BY <2>1 DEF Stamps
    <3>2. \A m, k \in stamped' : m.id = k.id => m = k
      BY <1>3, <2>5, <3>1 DEF StampedOnce
    <3> QED
      BY <3>2 DEF StampedOnce
  <2>7. ToSet(all) = Whole(c) /\ IsInjective(all) /\ DOMAIN all = 1 .. Len(all) /\ ~mckpt.of[c].aborted
    BY <1>2, <1>14, EmissionWhole, LenProperties
  <2>8. x.row \in Whole(c)
    BY <1>3, <2>7 DEF ToSet
  <2>9. ASSUME NEW m \in stamped, m.client = c, m.row = x.row PROVE m = x
    <3>1. m.id[2] > mckpt.seq
      BY <1>2, <2>1, <2>9 DEF Stamps, StampedFor
    <3>2. PICK i \in 1 .. Len(all) : m = Numbered(c, i)
      BY <2>3, <3>1
    <3>3. m.row = all[i]
      BY <1>14, <3>2, MessageFields DEF Numbered
    <3>4. i = n
      BY <1>3, <2>7, <2>9, <3>2, <3>3 DEF IsInjective
    <3> QED
      BY <1>13, <3>2, <3>4
  <2>10. \A d : StampedFor(d)' = StampedFor(d) \cup (IF d = c THEN {x} ELSE {})
    BY <1>3 DEF StampedFor
  <2>11. \A d : Whole(d)' = Whole(d)
    BY SameInput
  <2>12. \A m \in stamped' :
          /\ m.kind = "data" /\ m.client \in Clients /\ m.id \in {"merge"} \X Nat /\ m.row \in OutRows
          /\ m.id[2] > mckpt'.seq =>
               Frozen(m.client)' /\ \E i \in 1 .. Len(Emission(m.client)') : m = Numbered(m.client, i)'
    <3> TAKE m \in stamped'
    <3>1. CASE m \in stamped
      <4>1. /\ m.kind = "data" /\ m.client \in Clients /\ m.id \in {"merge"} \X Nat /\ m.row \in OutRows
            /\ m.id[2] > mckpt.seq =>
                 Frozen(m.client) /\ \E i \in 1 .. Len(Emission(m.client)) : m = Numbered(m.client, i)
        BY <2>1, <3>1 DEF Stamps
      <4> QED
        BY <1>1, <1>12, <4>1
    <3>2. CASE m = x
      <4> HIDE DEF n
      <4>1. PICK d \in Clients : d = c
        BY <1>2
      <4>5. PICK j \in 1 .. Len(all) : j = n
        BY <1>3
      <4>2. Frozen(d)' /\ Emission(d)' = all /\ x = Numbered(d, j)' /\ x.client = d
        BY <1>2, <1>3, <1>12, <1>13, <1>14, <4>1, <4>5
      <4>3. \E i \in 1 .. Len(Emission(d)') : x = Numbered(d, i)'
        BY <4>2
      <4>4. m.client = d /\ m.kind = "data" /\ m.id \in {"merge"} \X Nat /\ m.row \in OutRows
        BY <1>3, <2>4, <3>2, <4>2
      <4> QED
        BY <3>2, <4>2, <4>3, <4>4
    <3> QED
      BY <1>3, <3>1, <3>2
  <2>13. ASSUME NEW d \in Clients
         PROVE  /\ mckpt'.of[d].phase = "PROCESSING" /\ ~mckpt'.of[d].aborted /\ ~Frozen(d)' => StampedFor(d)' = {}
                /\ Frozen(d)' => \A m \in StampedFor(d)' : m.id[2] > mckpt'.seq
                /\ \A m \in StampedFor(d)' : m.row \in Whole(d)'
                /\ \A m, k \in StampedFor(d)' : m.row = k.row => m = k
    <3>1. /\ mckpt.of[d].phase = "PROCESSING" /\ ~mckpt.of[d].aborted /\ ~Frozen(d) => StampedFor(d) = {}
          /\ Frozen(d) => \A m \in StampedFor(d) : m.id[2] > mckpt.seq
          /\ \A m \in StampedFor(d) : m.row \in Whole(d)
          /\ \A m, k \in StampedFor(d) : m.row = k.row => m = k
      BY <2>1 DEF Stamps
    <3>2. CASE d # c
      <4>1. StampedFor(d)' = StampedFor(d) /\ Whole(d)' = Whole(d) /\ (Frozen(d)' <=> Frozen(d)) /\ mckpt' = mckpt
        BY <1>1, <1>12, <2>10, <2>11, <3>2
      <4> QED
        BY <3>1, <4>1
    <3>3. CASE d = c
      <4>1. /\ StampedFor(d)' = StampedFor(d) \cup {x} /\ Whole(d)' = Whole(d)
            /\ Frozen(d)' /\ Frozen(d) /\ mckpt' = mckpt
        BY <1>1, <1>2, <1>12, <2>10, <2>11, <3>3
      <4>2. \A m \in StampedFor(d) : m \in stamped /\ m.client = c
        BY <3>3 DEF StampedFor
      <4>3. \A m, k \in StampedFor(d)' : m.row = k.row => m = k
        BY <2>9, <3>1, <4>1, <4>2
      <4>4. \A m \in StampedFor(d)' : m.row \in Whole(d)' /\ m.id[2] > mckpt'.seq
        BY <2>4, <2>8, <3>1, <3>3, <4>1
      <4> QED
        BY <4>1, <4>3, <4>4
    <3> QED
      BY <3>2, <3>3
  <2> QED
    BY <2>6, <2>12, <2>13 DEF Stamps
<1> QED
  BY <1>6, <1>7, <1>8, <1>9, <1>10, <1>11, <1>15, <1>16 DEF MergeInv

(* report_sent: the client is DONE in memory, and its EOF follows what it announces. *)
LEMMA MergeAnnounce ==
  ASSUME MergeInv, M!Announce, stamped' = stamped, input' = input
  PROVE  MergeInv'
<1> DEFINE c == mclient
           all == Emission(mclient)
           r == [mmem.of[mclient] EXCEPT !.phase = "DONE"]
<1>1. /\ mpc = "emit" /\ todo = <<>> /\ mmem' = [mmem EXCEPT !.of[mclient].phase = "DONE"]
      /\ mpc' = CASE mtask = "data" -> M!AfterData(M!HeldAcks) [] mtask = "start" -> "recheck"
                  [] OTHER -> "save"
      /\ UNCHANGED <<qin, mheld, mckpt, mdirty, mtask, mat, mclient, todo>>
  BY DEF M!Announce
<1>2. /\ c \in Clients /\ Frozen(c) /\ mmem.of = mckpt.of /\ Len(all) \in Nat \ {0}
      /\ Len(todo) \in Nat
      /\ mmem.seq = mckpt.seq + (Len(all) - Len(todo)) /\ mckpt.seq \in Nat
      /\ \A i \in 1 .. Len(all) - Len(todo) : Numbered(c, i) \in stamped
      /\ mtask \in {"eof", "start"}
  BY <1>1, WhileEmitting
<1>3. Len(todo) = 0
  BY <1>1
<1>4. /\ mmem.seq = mckpt.seq + Len(all)
      /\ \A i \in 1 .. Len(all) : Numbered(c, i) \in stamped
  <2> HIDE DEF all
  <2>1. Len(all) - Len(todo) = Len(all)
    BY <1>2, <1>3
  <2> QED
    BY <1>2, <2>1
<1>5. mpc' \in {"recheck", "save"} /\ (mtask = "eof" => mpc' = "save")
  BY <1>1, <1>2
<1>6. mmem \in MergeMemory /\ mmem.of[c] \in MergeRecord
  BY <1>2 DEF MergeInv, MergeTyped, MergeMemory
<1>7. /\ r \in MergeRecord /\ r.phase = "DONE" /\ r.aborted = mmem.of[c].aborted
      /\ r.counts = mmem.of[c].counts /\ r.expected = mmem.of[c].expected
  BY <1>6 DEF MergeRecord
<1>8. mmem' = With(mmem, c, r)
  BY <1>1 DEF With
<1> HIDE DEF r
<1>9. /\ mmem' \in MergeMemory /\ mmem'.seen = mmem.seen /\ mmem'.seq = mmem.seq
      /\ mmem'.of[c] = r /\ \A d \in Clients : d # c => mmem'.of[d] = mmem.of[d]
  BY <1>2, <1>6, <1>7, <1>8, MergeRecordChanged
<1>10. MergeTyped'
  <2>1. mpc' \in DOMAIN Tasks \ {"respond"} /\ mtask' \in Tasks[mpc']
    BY <1>1, <1>2, <1>5 DEF Tasks
  <2> QED
    BY <1>1, <1>9, <2>1 DEF MergeInv, MergeTyped
<1>11. \A s \in Sides : MergeQueue(s)'
  BY <1>1, <1>9, QueuesKept
<1>12. Saved(mmem, mckpt, mdirty, mpc, mtask)'
  <2>1. Saved(mmem, mckpt, mdirty, "emit", mtask)
    BY <1>1 DEF MergeInv
  <2>2. \A d \in Clients : mmem'.of[d].aborted = mmem.of[d].aborted
    BY <1>7, <1>9
  <2> QED
    BY <1>1, <1>5, <1>9, <2>1, <2>2 DEF Saved
<1>13. Event(qin[mat], mheld[mat], mpc, mtask, mclient)'
  BY <1>1, <1>2, <1>5 DEF MergeInv, Event, Handling
<1>14. SeenWasQueued' /\ InputOK'
  BY <1>9, SameInput DEF MergeInv, SeenWasQueued
<1>15. ~mmem.of[c].aborted
  BY <1>2, EmissionWhole
<1>16. \A d \in Clients : Accumulated(input, mckpt, d)' /\ Accumulated(input, mmem, d)'
  <2>1. \A d \in Clients : Accumulated(input, mckpt, d) /\ Accumulated(input, mmem, d)
    BY DEF MergeInv
  <2>2. ASSUME NEW d \in Clients, d # c PROVE Accumulated(input, mmem', d)
    BY <1>9, <2>1, <2>2, AccumulatedSame
  <2>3. Accumulated(input, mmem', c)
    BY <1>2, <1>7, <1>9, <1>15, <2>1 DEF Accumulated, SeenAll
  <2> QED
    BY <1>1, <2>1, <2>2, <2>3
<1>17. /\ \A d : Frozen(d)' <=> Frozen(d)
       /\ \A d : Emission(d)' = Emission(d)
       /\ \A d, i : Numbered(d, i)' = Numbered(d, i)
       /\ Stamps'
  BY <1>1, SameCheckpoint DEF MergeInv
<1>18. Emitting'
  <2>1. Emitting
    BY DEF MergeInv
  <2>2. \A d \in Clients : Frozen(d) => d = c
    BY <1>2, <2>1 DEF Emitting
  <2>3. ASSUME NEW d \in Clients PROVE ~M!Complete(mmem'.of[d])
    <3>1. CASE d = c
      BY <1>7, <1>9, <3>1 DEF M!Complete
    <3>2. CASE d # c
      BY <1>2, <1>9, <2>2, <3>2 DEF Frozen
    <3> QED
      BY <3>1, <3>2
  <2>4. \A d, e \in Clients : Frozen(d)' /\ Frozen(e)' => d = e
    BY <1>17, <2>1 DEF Emitting
  <2>5. (\A d \in Clients : ~Frozen(d)') => mmem'.seq = mckpt'.seq
    BY <1>2, <1>17
  <2>6. ASSUME NEW d \in Clients, Frozen(d)'
        PROVE  /\ mmem'.seq = mckpt'.seq + Len(Emission(d)') /\ mmem'.of[d].phase = "DONE"
               /\ \A i \in 1 .. Len(Emission(d)') : Numbered(d, i)' \in stamped'
    <3>1. d = c
      BY <1>17, <2>2, <2>6
    <3>2. Emission(d)' = all /\ \A i : Numbered(d, i)' = Numbered(c, i)
      BY <1>17, <3>1
    <3> QED
      BY <1>1, <1>4, <1>7, <1>9, <3>1, <3>2
  <2>7. \A d \in Clients : mckpt'.of[d].phase = "DONE" => mmem'.of[d].phase = "DONE" \/ mmem'.of[d].aborted
    BY <1>1, <1>2, <1>7, <1>9
  <2>8. mpc' # "emit" /\ mpc' # "free" /\ mpc' \in {"recheck", "free", "save"} /\ mtask' \in {"eof", "start"}
    BY <1>1, <1>2, <1>5
  <2> QED
    BY <2>3, <2>4, <2>5, <2>6, <2>7, <2>8 DEF Emitting
<1> QED
  BY <1>10, <1>11, <1>12, <1>13, <1>14, <1>16, <1>17, <1>18 DEF MergeInv

(* What holds of memory and the checkpoint when neither changes, nor the thread. *)
LEMMA MergeSame ==
  ASSUME MergeInv, DOMAIN qin' = Sides,
         UNCHANGED <<mheld, mmem, mckpt, mdirty, mpc, mtask, mat, mclient, todo, input, stamped>>
  PROVE  /\ InputOK' /\ MergeTyped' /\ SeenWasQueued' /\ Emitting' /\ Stamps'
         /\ Saved(mmem, mckpt, mdirty, mpc, mtask)'
         /\ \A c \in Clients : Accumulated(input, mckpt, c)' /\ Accumulated(input, mmem, c)'
<1>1. /\ \A c : Frozen(c)' <=> Frozen(c)
      /\ \A c : Emission(c)' = Emission(c)
      /\ \A c, i : Numbered(c, i)' = Numbered(c, i)
      /\ Stamps' /\ InputOK'
  BY SameCheckpoint, SameInput DEF MergeInv
<1>2. MergeTyped' /\ SeenWasQueued'
  BY DEF MergeInv, MergeTyped, SeenWasQueued
<1>3. /\ Saved(mmem, mckpt, mdirty, mpc, mtask)'
      /\ \A c \in Clients : Accumulated(input, mckpt, c)' /\ Accumulated(input, mmem, c)'
  BY DEF MergeInv
<1>4. Emission(mclient)' = Emission(mclient) /\ (Frozen(mclient)' <=> Frozen(mclient))
      /\ \A i : Numbered(mclient, i)' = Numbered(mclient, i)
  BY DEF Emission, Frozen, Numbered
<1>5. Emitting'
  <2>1. Emitting
    BY DEF MergeInv
  <2> QED
    BY <1>1, <1>4, <2>1 DEF Emitting
<1> QED
  BY <1>1, <1>2, <1>3, <1>5

(* Steps of the join leave the merge alone. *)
LEMMA MergeUntouched ==
  ASSUME MergeInv,
         UNCHANGED <<qin, mheld, mmem, mckpt, mdirty, mpc, mtask, mat, mclient, todo, input, stamped>>
  PROVE  MergeInv'
<1>1. DOMAIN qin' = Sides
  BY DEF MergeInv, MergeTyped
<1>2. \A s \in Sides : MergeQueue(s)'
  BY DEF MergeInv, MergeQueue
<1>3. Event(qin[mat], mheld[mat], mpc, mtask, mclient)'
  BY DEF MergeInv
<1> QED
  BY <1>1, <1>2, <1>3, MergeSame DEF MergeInv

(* start: what is emitted again is the frozen emission, from its first message. *)
LEMMA MergeRecheck ==
  ASSUME MergeInv, M!Recheck, stamped' = stamped, input' = input
  PROVE  MergeInv'
<1>1. /\ mpc \in {"down", "recheck"}
      /\ UNCHANGED <<qin, mheld, mmem, mckpt, mdirty, mtask, mat>>
  BY DEF M!Recheck
<1>2. /\ mtask = "start" /\ mmem \in MergeMemory /\ MergeTyped /\ mckpt.seq \in Nat
  BY <1>1 DEF MergeInv, MergeTyped, Tasks, MergeMemory
<1>3. /\ \A d : Frozen(d)' <=> Frozen(d)
      /\ \A d : Emission(d)' = Emission(d)
      /\ \A d, i : Numbered(d, i)' = Numbered(d, i)
      /\ Stamps' /\ InputOK' /\ SeenWasQueued'
  BY <1>1, SameCheckpoint, SameInput DEF MergeInv, SeenWasQueued
<1>4. \A d \in Clients : Accumulated(input, mckpt, d)' /\ Accumulated(input, mmem, d)'
  BY <1>1 DEF MergeInv
<1>5. Saved(mmem, mckpt, mdirty, mpc, mtask) /\ Emitting
  BY DEF MergeInv
<1>6. \A s \in Sides : MergeQueue(s)'
  BY <1>1, QueuesKept
<1>0. \A t : M!Replays(t) = {t}
  BY DEF M!Replays, MergeInv, InputOK, UseCase2
<1>7. CASE \E c \in Clients :
             /\ M!Complete(mmem.of[c])
             /\ mclient' = c /\ todo' \in M!Replays(M!Merged(mmem.of[c])) /\ mpc' = "emit"
  <2>1. PICK c \in Clients : /\ M!Complete(mmem.of[c])
                             /\ mclient' = c /\ todo' = M!Merged(mmem.of[c]) /\ mpc' = "emit"
    BY <1>0, <1>7
  <2>2. mpc = "down" /\ mmem = mckpt
    BY <1>1, <1>5, <2>1 DEF Emitting, Saved
  <2>3. Frozen(c) /\ todo' = Emission(c)
    BY <2>1, <2>2 DEF Frozen, Emission
  <2>4. todo' \in Seq(OutRows) /\ Len(todo') \in Nat
    BY <2>3, EmissionTyped
  <2>5. MergeTyped'
    <3>1. mpc' \in DOMAIN Tasks \ {"respond"} /\ mtask' \in Tasks[mpc']
      BY <1>1, <1>2, <2>1 DEF Tasks
    <3> QED
      BY <1>1, <1>2, <2>1, <2>4, <3>1 DEF MergeTyped
  <2>6. Saved(mmem, mckpt, mdirty, mpc, mtask)'
    BY <1>1, <1>2, <1>5, <2>1, <2>2 DEF Saved
  <2>7. Event(qin[mat], mheld[mat], mpc, mtask, mclient)'
    BY <1>1, <1>2, <2>1 DEF Event, Handling
  <2>8. Emitting'
    <3>1. Emission(mclient)' = todo' /\ Frozen(mclient)'
      <4>1. Emission(mclient)' = M!Merged(mckpt'.of[c]) /\ (Frozen(mclient)' <=> M!Complete(mckpt'.of[c]))
        BY <2>1 DEF Emission, Frozen
      <4> QED
        BY <1>1, <2>1, <2>2, <4>1
    <3>2. Len(todo') - Len(todo') = 0 /\ mmem'.seq = mckpt'.seq + 0 /\ 1 .. 0 = {}
      BY <1>1, <1>2, <2>2, <2>4
    <3>3. LET a == Emission(mclient)'
              k == Len(a) - Len(todo')
          IN  /\ Frozen(mclient)' /\ mmem'.of = mckpt'.of
              /\ Len(todo') <= Len(a) /\ mmem'.seq = mckpt'.seq + k
              /\ \A i \in 1 .. Len(todo') : todo'[i] = a[k + i]
              /\ \A i \in 1 .. k : Numbered(mclient, i)' \in stamped'
      BY <1>1, <2>2, <2>4, <3>1, <3>2
    <3>4. \A d, e \in Clients : Frozen(d)' /\ Frozen(e)' => d = e
      BY <1>3, <1>5 DEF Emitting
    <3>5. \A d \in Clients : mckpt'.of[d].phase = "DONE" => mmem'.of[d].phase = "DONE" \/ mmem'.of[d].aborted
      BY <1>1, <2>2
    <3>6. (\A d \in Clients : ~Frozen(d)') => mmem'.seq = mckpt'.seq
      BY <1>1, <2>2
    <3> QED
      BY <2>1, <3>3, <3>4, <3>5, <3>6 DEF Emitting
  <2> QED
    BY <1>3, <1>4, <1>6, <2>5, <2>6, <2>7, <2>8 DEF MergeInv
<1>8. CASE /\ \A c \in Clients : ~M!Complete(mmem.of[c])
           /\ mpc' = "free" /\ UNCHANGED <<mclient, todo>>
  <2>1. MergeTyped'
    <3>1. mpc' \in DOMAIN Tasks \ {"respond"} /\ mtask' \in Tasks[mpc']
      BY <1>1, <1>2, <1>8 DEF Tasks
    <3> QED
      BY <1>1, <1>2, <1>8, <3>1 DEF MergeTyped
  <2>2. Saved(mmem, mckpt, mdirty, mpc, mtask)'
    BY <1>1, <1>2, <1>5, <1>8 DEF Saved
  <2>3. Event(qin[mat], mheld[mat], mpc, mtask, mclient)'
    BY <1>1, <1>2, <1>8 DEF Event, Handling
  <2>4. mpc = "down" => \A d \in Clients : ~Frozen(d)
    BY <1>5, <1>8 DEF Saved, Frozen
  <2>5. Emitting'
    BY <1>1, <1>2, <1>3, <1>5, <1>8, <2>4 DEF Emitting
  <2> QED
    BY <1>3, <1>4, <1>6, <2>1, <2>2, <2>3, <2>5 DEF MergeInv
<1> QED
  BY <1>7, <1>8 DEF M!Recheck

(* The record of a client whose rows and counts were let go. *)
LEMMA FreedRecord ==
  ASSUME NEW r \in MergeRecord
  PROVE  LET u == M!Freed(r) IN
         /\ u \in MergeRecord /\ u.phase = r.phase /\ u.aborted = r.aborted
         /\ u.expected = r.expected /\ \A s \in Sides : u.counts[s] = M!Unknown
<1>1. /\ M!FreshClient.rows \in [Sides -> Seq(Rows)] /\ M!NoCounts \in [Sides -> Int]
      /\ \A s \in Sides : M!NoCounts[s] = M!Unknown
  BY DEF M!FreshClient, M!NoCounts, M!Unknown, Sides
<1> QED
  BY <1>1 DEF M!Freed, MergeRecord

(* _free: an emitted client's rows go, and nothing else. *)
LEMMA MergeFree ==
  ASSUME MergeInv, M!Free, stamped' = stamped, input' = input
  PROVE  MergeInv'
<1> DEFINE rec(c) == IF mmem.of[c].phase = "DONE" /\ (mtask = "start" \/ c = mclient)
                     THEN M!Freed(mmem.of[c]) ELSE mmem.of[c]
<1>1. /\ mpc = "free" /\ mmem' = [mmem EXCEPT !.of = [c \in Clients |-> rec(c)]]
      /\ mpc' = IF mtask = "start" THEN "save" ELSE "done"
      /\ UNCHANGED <<qin, mheld, mckpt, mdirty, mtask, mat, mclient, todo>>
  BY DEF M!Free
<1>2. /\ mtask \in {"eof", "start"} /\ mmem \in MergeMemory /\ MergeTyped
      /\ \A c \in Clients : mmem.of[c] \in MergeRecord
  BY <1>1 DEF MergeInv, MergeTyped, Tasks, MergeMemory
<1>3. ASSUME NEW c \in Clients
      PROVE  /\ rec(c) \in MergeRecord /\ rec(c).phase = mmem.of[c].phase
             /\ rec(c).aborted = mmem.of[c].aborted /\ rec(c).expected = mmem.of[c].expected
             /\ \/ rec(c) = mmem.of[c]
                \/ mmem.of[c].phase = "DONE" /\ \A s \in Sides : rec(c).counts[s] = M!Unknown
  BY <1>2, FreedRecord
<1> HIDE DEF rec
<1>4. /\ mmem' \in MergeMemory /\ mmem'.seen = mmem.seen /\ mmem'.seq = mmem.seq
      /\ \A c \in Clients : mmem'.of[c] = rec(c)
  BY <1>1, <1>2, <1>3 DEF MergeMemory
<1>5. MergeTyped'
  <2>1. mpc' \in DOMAIN Tasks \ {"respond"} /\ mtask' \in Tasks[mpc']
    BY <1>1, <1>2 DEF Tasks
  <2> QED
    BY <1>1, <1>2, <1>4, <2>1 DEF MergeTyped
<1>6. \A s \in Sides : MergeQueue(s)'
  BY <1>1, <1>4, QueuesKept
<1>7. Saved(mmem, mckpt, mdirty, mpc, mtask)'
  <2>1. Saved(mmem, mckpt, mdirty, "free", mtask)
    BY <1>1 DEF MergeInv
  <2>2. \A d \in Clients : mmem'.of[d].aborted = mmem.of[d].aborted
    BY <1>3, <1>4
  <2>3. mpc' # "down" /\ ~mdirty /\ mdirty' = mdirty /\ mckpt' = mckpt
    BY <1>1, <2>1 DEF Saved
  <2> QED
    BY <1>4, <2>1, <2>2, <2>3 DEF Saved
<1>8. Event(qin[mat], mheld[mat], mpc, mtask, mclient)'
  BY <1>1, <1>2 DEF MergeInv, Event, Handling
<1>9. SeenWasQueued' /\ InputOK'
  BY <1>4, SameInput DEF MergeInv, SeenWasQueued
<1>10. \A d \in Clients : Accumulated(input, mckpt, d)' /\ Accumulated(input, mmem, d)'
  <2>1. \A d \in Clients : Accumulated(input, mckpt, d) /\ Accumulated(input, mmem, d)
    BY DEF MergeInv
  <2>2. ASSUME NEW d \in Clients PROVE Accumulated(input, mmem', d)
    <3>1. CASE rec(d) = mmem.of[d]
      BY <1>4, <2>1, <3>1, AccumulatedSame
    <3>2. CASE mmem.of[d].phase = "DONE" /\ \A s \in Sides : rec(d).counts[s] = M!Unknown
      BY <1>3, <1>4, <2>1, <3>2 DEF Accumulated, SeenAll
    <3> QED
      BY <1>3, <3>1, <3>2
  <2> QED
    BY <1>1, <2>1, <2>2
<1>11. /\ \A d : Frozen(d)' <=> Frozen(d)
       /\ \A d : Emission(d)' = Emission(d)
       /\ \A d, i : Numbered(d, i)' = Numbered(d, i)
       /\ Stamps'
  BY <1>1, SameCheckpoint DEF MergeInv
<1>12. Emitting'
  <2>1. Emitting
    BY DEF MergeInv
  <2>2. \A d \in Clients : ~M!Complete(mmem'.of[d])
    <3>1. \A d \in Clients : ~M!Complete(mmem.of[d])
      BY <1>1, NotComplete
    <3> QED
      BY <1>3, <1>4, <3>1 DEF M!Complete
  <2>3. \A d \in Clients : mmem'.of[d].phase = mmem.of[d].phase /\ mmem'.of[d].aborted = mmem.of[d].aborted
    BY <1>3, <1>4
  <2>4. ASSUME NEW d \in Clients, Frozen(d)'
        PROVE  /\ mpc' = "save" /\ mtask' = "start"
               /\ mmem'.seq = mckpt'.seq + Len(Emission(d)') /\ mmem'.of[d].phase = "DONE"
               /\ \A i \in 1 .. Len(Emission(d)') : Numbered(d, i)' \in stamped'
    BY <1>1, <1>2, <1>4, <1>11, <2>1, <2>3, <2>4 DEF Emitting
  <2>5. (\A d \in Clients : ~Frozen(d)') => mmem'.seq = mckpt'.seq
    BY <1>1, <1>4, <1>11, <2>1 DEF Emitting
  <2>6. \A d, e \in Clients : Frozen(d)' /\ Frozen(e)' => d = e
    BY <1>11, <2>1 DEF Emitting
  <2>7. \A d \in Clients : mckpt'.of[d].phase = "DONE" => mmem'.of[d].phase = "DONE" \/ mmem'.of[d].aborted
    BY <1>1, <2>1, <2>3 DEF Emitting
  <2>8. mpc' # "emit"
    BY <1>1
  <2> QED
    BY <2>2, <2>4, <2>5, <2>6, <2>7, <2>8 DEF Emitting
<1> QED
  BY <1>5, <1>6, <1>7, <1>8, <1>9, <1>10, <1>11, <1>12 DEF MergeInv

(* The process dies: memory is what the checkpoint holds, and what it had taken is queued. *)
LEMMA MergeCrashes ==
  ASSUME MergeInv, M!Crash, stamped' = stamped, input' = input
  PROVE  MergeInv'
<1>1. /\ mheld' = [s \in Sides |-> 0] /\ mmem' = mckpt /\ mdirty' = FALSE
      /\ mpc' = "down" /\ mtask' = "start" /\ todo' = <<>>
      /\ UNCHANGED <<mckpt, mat, mclient>>
  BY DEF M!Crash, M!Restored, Sides, MergeInv, InputOK, UseCase2
<1>2. PICK k \in [Sides -> 0 .. M!HeldAcks] :
        /\ \A s \in Sides : k[s] <= mheld[s]
        /\ mpc = "ack" \/ \A s \in Sides : k[s] = 0
        /\ qin' = [s \in Sides |-> SubSeq(qin[s], k[s] + 1, Len(qin[s]))]
  BY DEF M!Crash, M!AckHeld, Sides
<1>3. MergeTyped /\ mckpt \in MergeMemory /\ mckpt.seen \subseteq mmem.seen /\ Emitting
  BY DEF MergeInv, MergeTyped, Saved
<1>4. MergeTyped'
  <2>1. mpc' \in DOMAIN Tasks \ {"respond"} /\ mtask' \in Tasks[mpc']
    BY <1>1 DEF Tasks
  <2>2. DOMAIN qin' = Sides /\ DOMAIN mheld' = Sides
    BY <1>1, <1>2
  <2>3. todo' \in Seq(OutRows)
    BY <1>1
  <2> QED
    BY <1>1, <1>3, <2>1, <2>2, <2>3 DEF MergeTyped
<1>5. ASSUME NEW s \in Sides PROVE MergeQueue(s)'
  <2>1. mheld[s] \in Nat
    BY DEF MergeInv, MergeQueue, Queue
  <2>2. k[s] \in 0 .. mheld[s] /\ (k[s] = 0 \/ mpc = "ack")
    BY <1>2, <2>1
  <2>3. /\ qin'[s] = SubSeq(qin[s], k[s] + 1, Len(qin[s])) /\ mheld'[s] = 0
        /\ mmem'.seen = mckpt.seen /\ mckpt' = mckpt
    BY <1>1, <1>2
  <2> QED
    BY <2>2, <2>3, MergeQueueAcked
<1>6. Saved(mmem, mckpt, mdirty, mpc, mtask)'
  BY <1>1 DEF Saved
<1>7. Event(qin[mat], mheld[mat], mpc, mtask, mclient)'
  BY <1>1 DEF Event, Handling
<1>8. SeenWasQueued' /\ InputOK'
  BY <1>1, <1>3, SameInput DEF MergeInv, SeenWasQueued
<1>9. \A d \in Clients : Accumulated(input, mckpt, d)' /\ Accumulated(input, mmem, d)'
  BY <1>1 DEF MergeInv
<1>10. (\A d : Frozen(d)' <=> Frozen(d)) /\ Stamps'
  BY <1>1, SameCheckpoint DEF MergeInv
<1>11. Emitting'
  BY <1>1, <1>3, <1>10 DEF Emitting
<1> QED
  BY <1>4, <1>5, <1>6, <1>7, <1>8, <1>9, <1>10, <1>11 DEF MergeInv

(* A message that came again, or an Abort, joins an input queue. *)
LEMMA MergeQueueGrows ==
  ASSUME MergeInv, NEW s \in Sides, NEW x, x \in ToSet(input[s]) \/ \E c \in Clients : x = M!Abort(c),
         qin'[s] = Append(qin[s], x), UNCHANGED <<mheld, mmem, mckpt, mpc, input>>
  PROVE  /\ MergeQueue(s)' /\ Len(qin'[s]) = Len(qin[s]) + 1
         /\ \A i \in 1 .. Len(qin[s]) : qin'[s][i] = qin[s][i]
<1>1. Queue(qin[s], mheld[s]) /\ Len(qin[s]) \in Nat
  BY DEF MergeInv, MergeQueue, Queue, IsSeq
<1>2. /\ Queue(qin'[s], mheld'[s])
      /\ \A i \in 1 .. Len(qin[s]) : qin'[s][i] = qin[s][i]
      /\ Len(qin'[s]) = Len(qin[s]) + 1 /\ qin'[s][Len(qin[s]) + 1] = x
  BY <1>1, QueueAppend
<1>3. ASSUME NEW i \in 1 .. Len(qin'[s])
      PROVE  \/ \E k \in 1 .. Len(qin[s]) : qin'[s][i] = qin[s][k]
             \/ qin'[s][i] \in ToSet(input[s])
             \/ \E c \in Clients : qin'[s][i] = M!Abort(c)
  <2>1. i \in 1 .. Len(qin[s]) \/ i = Len(qin[s]) + 1
    BY <1>1, <1>2
  <2> QED
    BY <1>2, <2>1
<1>4. ASSUME NEW m \in DataIn(input[s])
      PROVE  Covered(qin'[s], mheld'[s], m, mmem'.seen, mckpt'.seen, mckpt'.of[m.client].aborted)
  <2>1. Covered(qin[s], mheld[s], m, mmem.seen, mckpt.seen, mckpt.of[m.client].aborted)
    BY DEF MergeInv, MergeQueue
  <2>2. Covered(Append(qin[s], x), mheld[s], m, mmem.seen, mckpt.seen, mckpt.of[m.client].aborted)
    BY <1>1, <2>1, CoveredAppend
  <2> QED
    BY <2>2
<1>5. mpc' \in {"idle", "save", "ack"} \/ mheld'[s] = 0
  BY DEF MergeInv, MergeQueue
<1>6. MergeQueue(s)'
  BY <1>2, <1>3, <1>4, <1>5, MergeQueueFrom
<1> QED
  BY <1>2, <1>6

(* Messages behind the others do not disturb the event being handled. *)
LEMMA MergeInputsGrow ==
  ASSUME MergeInv, DOMAIN qin' = Sides, \A s \in Sides : MergeQueue(s)',
         \A s \in Sides : /\ Len(qin'[s]) \in Nat /\ Len(qin'[s]) >= Len(qin[s])
                          /\ \A i \in 1 .. Len(qin[s]) : qin'[s][i] = qin[s][i],
         UNCHANGED <<mheld, mmem, mckpt, mdirty, mpc, mtask, mat, mclient, todo, input, stamped>>
  PROVE  MergeInv'
<1>1. mat \in Sides /\ Queue(qin[mat], mheld[mat])
  BY DEF MergeInv, MergeTyped, MergeQueue
<1>2. mheld[mat] \in Nat /\ Len(qin[mat]) \in Nat
  BY <1>1 DEF Queue, IsSeq
<1>3. Event(qin[mat], mheld[mat], mpc, mtask, mclient)
  BY DEF MergeInv
<1>4. ASSUME Handling(mpc, mtask)
      PROVE  mheld[mat] < Len(qin'[mat]) /\ qin'[mat][mheld[mat] + 1] = qin[mat][mheld[mat] + 1]
  <2>1. mheld[mat] < Len(qin[mat])
    BY <1>3, <1>4 DEF Event
  <2>2. mheld[mat] + 1 \in 1 .. Len(qin[mat])
    BY <1>2, <2>1
  <2>3. Len(qin'[mat]) \in Nat /\ Len(qin'[mat]) >= Len(qin[mat])
    BY <1>1
  <2> QED
    BY <1>1, <1>2, <2>1, <2>2, <2>3
<1>5. Event(qin[mat], mheld[mat], mpc, mtask, mclient)'
  BY <1>3, <1>4 DEF Event
<1> QED
  BY <1>5, MergeSame DEF MergeInv

(* A message of an input comes again. *)
LEMMA MergeResend ==
  ASSUME MergeInv, NEW s \in Sides, NEW i \in DOMAIN input[s], Resend(s, i)
  PROVE  MergeInv'
<1>1. /\ qin' = [qin EXCEPT ![s] = Append(@, input[s][i])]
      /\ UNCHANGED <<mheld, mmem, mckpt, mdirty, mpc, mtask, mat, mclient, todo, input, stamped>>
  BY DEF Resend
<1>2. DOMAIN qin = Sides /\ input[s][i] \in ToSet(input[s])
  BY DEF MergeInv, MergeTyped, ToSet
<1>3. /\ DOMAIN qin' = Sides /\ qin'[s] = Append(qin[s], input[s][i])
      /\ \A t \in Sides : t # s => qin'[t] = qin[t]
  BY <1>1, <1>2
<1>4. ASSUME NEW t \in Sides
      PROVE  /\ MergeQueue(t)' /\ Len(qin'[t]) \in Nat /\ Len(qin'[t]) >= Len(qin[t])
             /\ \A k \in 1 .. Len(qin[t]) : qin'[t][k] = qin[t][k]
  <2>1. Len(qin[t]) \in Nat
    BY DEF MergeInv, MergeQueue, Queue, IsSeq
  <2>2. CASE t = s
    <3>1. /\ MergeQueue(t)' /\ Len(qin'[t]) = Len(qin[t]) + 1
          /\ \A k \in 1 .. Len(qin[t]) : qin'[t][k] = qin[t][k]
      BY <1>1, <1>2, <1>3, <2>2, MergeQueueGrows
    <3> QED
      BY <2>1, <3>1
  <2>3. CASE t # s
    <3>1. qin'[t] = qin[t]
      BY <1>3, <2>3
    <3>2. MergeQueue(t)'
      BY <1>1, <3>1 DEF MergeInv, MergeQueue
    <3> QED
      BY <2>1, <3>1, <3>2
  <2> QED
    BY <2>2, <2>3
<1> QED
  BY <1>1, <1>3, <1>4, MergeInputsGrow

(* A client drops: an Abort comes behind each of its inputs. *)
LEMMA MergeDrop ==
  ASSUME MergeInv, NEW c \in Clients, Drop(c)
  PROVE  MergeInv'
<1>1. /\ qin' = [s \in Sides |-> Append(qin[s], M!Abort(c))]
      /\ UNCHANGED <<mheld, mmem, mckpt, mdirty, mpc, mtask, mat, mclient, todo, input, stamped>>
  BY DEF Drop, Sides
<1>2. ASSUME NEW t \in Sides
      PROVE  /\ MergeQueue(t)' /\ Len(qin'[t]) \in Nat /\ Len(qin'[t]) >= Len(qin[t])
             /\ \A k \in 1 .. Len(qin[t]) : qin'[t][k] = qin[t][k]
  <2>1. Len(qin[t]) \in Nat
    BY DEF MergeInv, MergeQueue, Queue, IsSeq
  <2>2. qin'[t] = Append(qin[t], M!Abort(c))
    BY <1>1
  <2>3. /\ MergeQueue(t)' /\ Len(qin'[t]) = Len(qin[t]) + 1
        /\ \A k \in 1 .. Len(qin[t]) : qin'[t][k] = qin[t][k]
    BY <1>1, <2>2, MergeQueueGrows
  <2> QED
    BY <2>1, <2>3
<1> QED
  BY <1>1, <1>2, MergeInputsGrow

-----------------------------------------------------------------------------
(* Steps of the merge, as the join sees them *)

(* What the link holds. *)
LEMMA LinkMessages ==
  ASSUME JoinInv
  PROVE  /\ IsSeq(link) /\ Len(link) \in Nat /\ DOMAIN link = 1 .. Len(link) /\ jheld \in 0 .. Len(link)
         /\ \A i \in 1 .. Len(link) :
              /\ link[i].kind \in {"data", "eof", "abort"} /\ link[i].client \in Clients
              /\ link[i].kind = "data" => link[i] \in stamped
              /\ link[i].kind = "eof" => link[i].count \in Nat \ {0} /\ Final(link[i].client)
         /\ DataIn(link) \subseteq stamped
<1>1. LinkOK
  BY DEF JoinInv
<1>2. IsSeq(link) /\ jheld \in 0 .. Len(link)
  BY <1>1 DEF LinkOK, Queue
<1>3. Len(link) \in Nat /\ DOMAIN link = 1 .. Len(link)
  BY <1>2, SeqOfItself
<1>4. \A i \in 1 .. Len(link) :
        /\ link[i].kind \in {"data", "eof", "abort"} /\ link[i].client \in Clients
        /\ link[i].kind = "data" => link[i] \in stamped
        /\ link[i].kind = "eof" => link[i].count \in Nat \ {0} /\ Final(link[i].client)
  BY <1>1, <1>3 DEF LinkOK
<1>5. DataIn(link) \subseteq stamped
  BY <1>3, <1>4 DEF DataIn, ToSet
<1> QED
  BY <1>2, <1>3, <1>4, <1>5

(* Once a client's whole result is stamped nothing new is: a row is stamped once. *)
LEMMA FinalStays ==
  ASSUME Stamps, Stamps', input' = input, stamped \subseteq stamped', NEW c \in Clients, Final(c)
  PROVE  Final(c)' /\ StampedFor(c)' = StampedFor(c)
<1>1. StampedFor(c) \subseteq StampedFor(c)'
  BY DEF StampedFor
<1>2. Whole(c)' = Whole(c)
  BY SameInput
<1>3. \A m \in StampedFor(c)' : m.row \in Whole(c)
  BY <1>2 DEF Stamps
<1>4. \A m, n \in StampedFor(c)' : m.row = n.row => m = n
  BY DEF Stamps
<1>5. ASSUME NEW m \in StampedFor(c)' PROVE m \in StampedFor(c)
  <2>1. m.row \in RowsIn(StampedFor(c))
    BY <1>3 DEF Final
  <2>2. PICK n \in StampedFor(c) : n.row = m.row
    BY <2>1 DEF RowsIn
  <2> QED
    BY <1>1, <1>4, <2>2
<1>6. StampedFor(c)' = StampedFor(c)
  BY <1>1, <1>5
<1> QED
  BY <1>2, <1>6 DEF Final

(* The number of a message that was not stamped yet is not in the join's table. *)
LEMMA FreshUnseen ==
  ASSUME JoinSeen, StampedOnce', stamped \subseteq stamped', NEW m \in stamped', m \notin stamped
  PROVE  m.id \notin jmem.seen
<1>1. SUFFICES ASSUME m.id \in jmem.seen PROVE FALSE
  OBVIOUS
<1>2. PICK n \in stamped : n.id = m.id
  BY <1>1 DEF JoinSeen
<1> QED
  BY <1>2 DEF StampedOnce

(* The join's tables are about the messages it has seen, whatever else is stamped. *)
LEMMA JoinedGrows ==
  ASSUME NEW S, NEW T, NEW whole, NEW r, NEW seen, Joined(S, whole, r, seen), S \subseteq T,
         \A m \in T : m.id \in seen => m \in S, RowsIn(S) = whole => T = S
  PROVE  Joined(T, whole, r, seen)
<1>1. SeenIn(T, seen) = SeenIn(S, seen)
  BY DEF SeenIn
<1> QED
  BY <1>1 DEF Joined

(* The join's own state and the link are as before, but for one message more on the link. *)
LEMMA JoinReceives ==
  ASSUME MergeInv, MergeInv', JoinInv, input' = input,
         UNCHANGED <<jheld, jmem, jckpt, jdirty, jpc, jtask, jclient>>,
         stamped \subseteq stamped',
         NEW x, link' = Append(link, x),
         x.kind \in {"data", "eof", "abort"} /\ x.client \in Clients,
         x.kind = "data" => x \in stamped',
         x.kind = "eof" => x.count \in Nat \ {0} /\ Final(x.client),
         \A m \in stamped' : m \in stamped \/ m = x
  PROVE  JoinInv'
<1>1. Stamps /\ Stamps' /\ StampedOnce' /\ JoinSeen /\ LinkOK
  BY DEF MergeInv, JoinInv, Stamps
<1>2. \A c \in Clients : Final(c) => Final(c)' /\ StampedFor(c)' = StampedFor(c)
  BY <1>1, FinalStays
<1>3. \A c : Whole(c)' = Whole(c) /\ StampedFor(c) \subseteq StampedFor(c)'
  BY SameInput DEF StampedFor
<1>4. \A m \in stamped' : m \notin stamped => m.id \notin jmem.seen
  BY <1>1, FreshUnseen
<1>5. jckpt.seen \subseteq jmem.seen
  BY DEF JoinInv, Saved
<1>6. JoinTyped' /\ Responding' /\ Saved(jmem, jckpt, jdirty, jpc, jtask)'
  BY DEF JoinInv, JoinTyped, Responding
<1>7. JoinSeen'
  BY <1>1 DEF JoinSeen
<1>8. /\ IsSeq(link) /\ Len(link) \in Nat /\ jheld \in 0 .. Len(link)
      /\ \A i \in 1 .. Len(link) :
           /\ link[i].kind \in {"data", "eof", "abort"} /\ link[i].client \in Clients
           /\ link[i].kind = "data" => link[i] \in stamped
           /\ link[i].kind = "eof" => link[i].count \in Nat \ {0} /\ Final(link[i].client)
  BY LinkMessages
<1>9. Queue(link, jheld)
  BY <1>1 DEF LinkOK
<1>10. /\ Queue(link', jheld) /\ Len(link') = Len(link) + 1 /\ link'[Len(link) + 1] = x
       /\ \A i \in 1 .. Len(link) : link'[i] = link[i]
  BY <1>9, QueueAppend
<1>11. DOMAIN link' = 1 .. Len(link')
  BY <1>10, SeqOfItself DEF Queue
<1>12. ASSUME NEW i \in DOMAIN link'
       PROVE  /\ link'[i].kind \in {"data", "eof", "abort"} /\ link'[i].client \in Clients
              /\ link'[i].kind = "data" => link'[i] \in stamped'
              /\ link'[i].kind = "eof" => link'[i].count \in Nat \ {0} /\ Final(link[i].client)'
  <2>1. i \in 1 .. Len(link) \/ i = Len(link) + 1
    BY <1>8, <1>10, <1>11
  <2>2. CASE i \in 1 .. Len(link)
    <3>1. link'[i] = link[i]
      BY <1>10, <2>2
    <3>2. PICK c \in Clients : c = link[i].client
      BY <1>8, <2>2
    <3>3. link[i].kind = "eof" => Final(c)'
      BY <1>2, <1>8, <2>2, <3>2
    <3>4. (Final(link[i].client)' <=> Final(c)')
      BY <3>1, <3>2 DEF Final, StampedFor, Whole, RowsOf
    <3> QED
      BY <1>8, <2>2, <3>1, <3>3, <3>4
  <2>3. CASE i = Len(link) + 1
    <3>1. link'[i] = x
      BY <1>10, <2>3
    <3>2. PICK c \in Clients : c = x.client
      OBVIOUS
    <3>3. x.kind = "eof" => Final(c)'
      BY <1>2, <3>2
    <3>4. (Final(link[i].client)' <=> Final(c)')
      BY <3>1, <3>2 DEF Final, StampedFor, Whole, RowsOf
    <3> QED
      BY <3>1, <3>3, <3>4
  <2> QED
    BY <2>1, <2>2, <2>3
<1>13. ASSUME NEW m \in stamped'
       PROVE  Covered(link', jheld, m, jmem.seen, jckpt.seen, jckpt.of[m.client].aborted)
  <2>1. CASE m \in stamped
    <3>1. Covered(link, jheld, m, jmem.seen, jckpt.seen, jckpt.of[m.client].aborted)
      BY <1>1, <2>1 DEF LinkOK
    <3>2. Covered(Append(link, x), jheld, m, jmem.seen, jckpt.seen, jckpt.of[m.client].aborted)
      BY <1>9, <3>1, CoveredAppend
    <3> QED
      BY <3>2
  <2>2. CASE m \notin stamped
    <3>1. m = x /\ m.id \notin jmem.seen /\ m.id \notin jckpt.seen
      BY <1>4, <1>5, <2>2
    <3>2. m.kind = "data" /\ m.client \in Clients
      BY <1>1 DEF Stamps
    <3>3. ~Final(m.client)
      <4>1. PICK c \in Clients : c = m.client
        BY <3>2
      <4>2. m \in StampedFor(c)' /\ m \notin StampedFor(c)
        BY <2>2, <4>1 DEF StampedFor
      <4> QED
        BY <1>2, <4>1, <4>2
    <3>4. \A k \in jheld + 1 .. Len(link) : ~IsEof(link[k], m.client)
      BY <1>8, <3>3 DEF IsEof
    <3>5. Ahead(link', jheld, m)
      BY <1>9, <3>1, <3>2, <3>4, AheadFresh
    <3> QED
      BY <3>1, <3>5 DEF Covered
  <2> QED
    BY <2>1, <2>2
<1>14. LinkOK'
  <2>1. jpc \notin {"idle", "save", "ack"} => jheld = 0
    BY <1>1 DEF LinkOK
  <2> QED
    BY <1>10, <1>12, <1>13, <2>1 DEF LinkOK
<1>15. Event(link, jheld, jpc, jtask, jclient)'
  <2>1. Event(link, jheld, jpc, jtask, jclient)
    BY DEF JoinInv
  <2>2. ASSUME Handling(jpc, jtask)
        PROVE  jheld < Len(link') /\ link'[jheld + 1] = link[jheld + 1]
    <3>1. jheld < Len(link)
      BY <2>1, <2>2 DEF Event
    <3> QED
      BY <1>8, <1>10, <3>1
  <2> QED
    BY <2>1, <2>2 DEF Event
<1>16. ASSUME NEW c \in Clients
       PROVE  /\ Joined(StampedFor(c), Whole(c), jmem.of[c], jmem.seen)'
              /\ Joined(StampedFor(c), Whole(c), jckpt.of[c], jckpt.seen)'
  <2> DEFINE S == StampedFor(c)
             T == StampedFor(c)'
  <2>1. /\ Joined(S, Whole(c), jmem.of[c], jmem.seen)
        /\ Joined(S, Whole(c), jckpt.of[c], jckpt.seen)
    BY DEF JoinInv
  <2>2. S \subseteq T /\ (RowsIn(S) = Whole(c) => T = S) /\ Whole(c)' = Whole(c)
    BY <1>2, <1>3 DEF Final
  <2>3. \A m \in T : m.id \in jmem.seen => m \in S
    BY <1>4 DEF StampedFor
  <2>4. \A m \in T : m.id \in jckpt.seen => m \in S
    BY <1>5, <2>3
  <2> HIDE DEF S, T
  <2>5. /\ Joined(T, Whole(c), jmem.of[c], jmem.seen)
        /\ Joined(T, Whole(c), jckpt.of[c], jckpt.seen)
    BY <2>1, <2>2, <2>3, <2>4, JoinedGrows
  <2> QED
    BY <2>2, <2>5 DEF T
<1> QED
  BY <1>6, <1>7, <1>14, <1>15, <1>16 DEF JoinInv

(* Steps that put nothing on the link and do not touch the join. *)
LEMMA JoinUntouched ==
  ASSUME JoinInv, UNCHANGED <<input, stamped, link, jheld, jmem, jckpt, jdirty, jpc, jtask, jclient>>
  PROVE  JoinInv'
<1>1. \A c : Whole(c)' = Whole(c) /\ StampedFor(c)' = StampedFor(c)
  BY SameInput DEF StampedFor
<1>2. \A c : Final(c)' <=> Final(c)
  BY <1>1 DEF Final
<1>3. JoinTyped' /\ Responding' /\ JoinSeen'
  BY DEF JoinInv, JoinTyped, Responding, JoinSeen
<1>4. /\ Saved(jmem, jckpt, jdirty, jpc, jtask)' /\ Event(link, jheld, jpc, jtask, jclient)'
      /\ \A c \in Clients :
           /\ Joined(StampedFor(c), Whole(c), jmem.of[c], jmem.seen)'
           /\ Joined(StampedFor(c), Whole(c), jckpt.of[c], jckpt.seen)'
  BY <1>1 DEF JoinInv
<1>5. \A i : Final(link[i].client)' <=> Final(link[i].client)
  BY <1>1 DEF Final, StampedFor, Whole, RowsOf
<1>6. LinkOK'
  BY <1>5 DEF JoinInv, LinkOK
<1> QED
  BY <1>3, <1>4, <1>6 DEF JoinInv

(* The EOF that the merge sends follows its client's whole result. *)
LEMMA AnnouncedFinal ==
  ASSUME MergeInv, M!Announce
  PROVE  /\ mclient \in Clients /\ Final(mclient)
         /\ link' = Append(link, M!Eof(mclient, Len(Emission(mclient))))
         /\ Len(Emission(mclient)) \in Nat \ {0}
<1> DEFINE all == Emission(mclient)
<1>1. /\ mpc = "emit" /\ todo = <<>>
      /\ link' = Append(link, M!Eof(mclient, Len(M!Merged(mmem.of[mclient]))))
  BY DEF M!Announce
<1>2. /\ mclient \in Clients /\ Frozen(mclient) /\ mmem.of = mckpt.of /\ Len(all) \in Nat \ {0}
      /\ all \in Seq(OutRows)
      /\ \A i \in 1 .. Len(all) - Len(todo) : Numbered(mclient, i) \in stamped
  BY <1>1, WhileEmitting
<1>3. M!Merged(mmem.of[mclient]) = all
  BY <1>2 DEF Emission
<1>4. ToSet(all) = Whole(mclient) /\ DOMAIN all = 1 .. Len(all)
  BY <1>2, EmissionWhole, LenProperties
<1> HIDE DEF all
<1>5. \A i \in 1 .. Len(all) : Numbered(mclient, i) \in stamped
  BY <1>1, <1>2
<1>6. ASSUME NEW row \in Whole(mclient) PROVE row \in RowsIn(StampedFor(mclient))
  <2>1. PICK i \in 1 .. Len(all) : row = all[i]
    BY <1>4 DEF ToSet
  <2>2. Numbered(mclient, i).row = row /\ Numbered(mclient, i).client = mclient
    BY <2>1, MessageFields DEF Numbered, all
  <2>3. Numbered(mclient, i) \in StampedFor(mclient)
    BY <1>5, <2>2 DEF StampedFor
  <2> QED
    BY <2>2, <2>3 DEF RowsIn
<1>7. \A m \in StampedFor(mclient) : m.row \in Whole(mclient)
  BY <1>2 DEF MergeInv, Stamps
<1>8. Final(mclient)
  BY <1>6, <1>7 DEF Final, RowsIn
<1> QED
  BY <1>1, <1>2, <1>3, <1>8 DEF all

(* A step that sends no data stamps nothing. *)
LEMMA NothingStamped ==
  ASSUME JoinInv, stamped' = stamped \cup DataIn(link'),
         link' = link \/ \E x : link' = Append(link, x) /\ x.kind # "data"
  PROVE  stamped' = stamped
<1>1. IsSeq(link) /\ DataIn(link) \subseteq stamped
  BY LinkMessages
<1>2. CASE link' = link
  BY <1>1, <1>2
<1>3. CASE \E x : link' = Append(link, x) /\ x.kind # "data"
  <2>1. PICK x : link' = Append(link, x) /\ x.kind # "data"
    BY <1>3
  <2>2. DataIn(Append(link, x)) = DataIn(link)
    BY <1>1, <2>1, DataInAppend
  <2> QED
    BY <1>1, <2>1, <2>2
<1> QED
  BY <1>2, <1>3

(* One step of the merge's thread. *)
LEMMA MergeSteps ==
  ASSUME MergeInv, JoinInv, MergeStep
  PROVE  MergeInv' /\ JoinInv'
<1>1. /\ stamped' = stamped \cup DataIn(link') /\ input' = input
      /\ UNCHANGED <<jheld, jmem, jckpt, jdirty, jpc, jtask, jclient>>
  BY DEF MergeStep, joinVars, envVars
<1>2. IsSeq(link) /\ DataIn(link) \subseteq stamped
  BY LinkMessages
<1>3. CASE \E s \in Sides : M!IgnoreData(s) \/ M!ApplyData(s) \/ M!TakeEOF(s) \/ M!HandleAbort(s)
  <2>1. PICK s \in Sides : M!IgnoreData(s) \/ M!ApplyData(s) \/ M!TakeEOF(s) \/ M!HandleAbort(s)
    BY <1>3
  <2>2. link' = link
    BY <2>1 DEF M!IgnoreData, M!ApplyData, M!TakeEOF, M!HandleAbort
  <2>3. stamped' = stamped
    BY <1>1, <2>2, NothingStamped
  <2>4. MergeInv'
    BY <1>1, <2>1, <2>3, MergeIgnoreData, MergeApplyData, MergeTakeEOF, MergeHandleAbort
  <2> QED
    BY <1>1, <2>2, <2>3, <2>4, JoinUntouched
<1>4. CASE M!Save \/ M!Ack \/ M!HandleEOF \/ M!Free \/ M!Done \/ M!Recheck
  <2>1. link' = link
    BY <1>4 DEF M!Save, M!Ack, M!HandleEOF, M!Free, M!Done, M!Recheck
  <2>2. stamped' = stamped
    BY <1>1, <2>1, NothingStamped
  <2>3. MergeInv'
    BY <1>1, <1>4, <2>2, MergeSave, MergeAck, MergeHandleEOF, MergeFree, MergeDone, MergeRecheck
  <2> QED
    BY <1>1, <2>1, <2>2, <2>3, JoinUntouched
<1>5. CASE M!SendMerged
  <2> DEFINE x == Numbered(mclient, Len(Emission(mclient)) - Len(todo) + 1)
  <2>1. MergeInv'
    BY <1>1, <1>2, <1>5, MergeSendMerged
  <2>2. /\ link' = Append(link, x) /\ stamped' = stamped \cup {x} /\ x.kind = "data" /\ x.client = mclient
    BY <1>1, <1>2, <1>5, SentMessage
  <2>3. mclient \in Clients
    BY DEF MergeInv, MergeTyped
  <2> HIDE DEF x
  <2> QED
    BY <1>1, <2>1, <2>2, <2>3, JoinReceives
<1>6. CASE M!Announce
  <2> DEFINE x == M!Eof(mclient, Len(Emission(mclient)))
  <2>1. /\ mclient \in Clients /\ Final(mclient) /\ link' = Append(link, x)
        /\ Len(Emission(mclient)) \in Nat \ {0}
    BY <1>6, AnnouncedFinal
  <2>2. x.kind = "eof" /\ x.client = mclient /\ x.count = Len(Emission(mclient))
    BY MessageFields
  <2> HIDE DEF x
  <2>3. stamped' = stamped
    BY <1>1, <2>1, <2>2, NothingStamped
  <2>4. MergeInv'
    BY <1>1, <1>6, <2>3, MergeAnnounce
  <2> QED
    BY <1>1, <2>1, <2>2, <2>3, <2>4, JoinReceives
<1>7. CASE M!SendAbort
  <2> DEFINE x == M!Abort(mclient)
  <2>1. mclient \in Clients /\ link' = Append(link, x)
    BY <1>7 DEF M!SendAbort, MergeInv, MergeTyped
  <2>2. x.kind = "abort" /\ x.client = mclient
    BY MessageFields
  <2> HIDE DEF x
  <2>3. stamped' = stamped
    BY <1>1, <2>1, <2>2, NothingStamped
  <2>4. MergeInv'
    BY <1>1, <1>7, <2>3, MergeSendAbort
  <2> QED
    BY <1>1, <2>1, <2>2, <2>3, <2>4, JoinReceives
<1>8. M!Step
  BY DEF MergeStep
<1> QED
  BY <1>3, <1>4, <1>5, <1>6, <1>7, <1>8 DEF M!Step, Sides

(* A crash of the merge, a message that comes again, and a client that drops. *)
LEMMA FaultSteps ==
  ASSUME MergeInv, JoinInv,
         \/ MergeCrash
         \/ \E s \in Sides : \E i \in DOMAIN input[s] : Resend(s, i)
         \/ \E c \in Clients : Drop(c)
  PROVE  MergeInv' /\ JoinInv'
<1>1. CASE MergeCrash
  <2>1. /\ M!Crash /\ input' = input /\ stamped' = stamped
        /\ UNCHANGED <<jheld, jmem, jckpt, jdirty, jpc, jtask, jclient>>
    BY <1>1 DEF MergeCrash, joinVars, envVars
  <2>2. link' = link
    BY <2>1 DEF M!Crash
  <2> QED
    BY <2>1, <2>2, MergeCrashes, JoinUntouched
<1>2. ASSUME NEW s \in Sides, NEW i \in DOMAIN input[s], Resend(s, i) PROVE MergeInv' /\ JoinInv'
  <2>1. UNCHANGED <<input, stamped, link, jheld, jmem, jckpt, jdirty, jpc, jtask, jclient>>
    BY <1>2 DEF Resend, joinVars
  <2> QED
    BY <1>2, <2>1, MergeResend, JoinUntouched
<1>3. ASSUME NEW c \in Clients, Drop(c) PROVE MergeInv' /\ JoinInv'
  <2> DEFINE x == M!Abort(c)
  <2>1. /\ UNCHANGED <<input, stamped, jheld, jmem, jckpt, jdirty, jpc, jtask, jclient>>
        /\ link' = Append(link, x)
    BY <1>3 DEF Drop, joinVars
  <2>2. x.kind = "abort" /\ x.client = c
    BY MessageFields
  <2>3. MergeInv'
    BY <1>3, MergeDrop
  <2> HIDE DEF x
  <2> QED
    BY <2>1, <2>2, <2>3, JoinReceives
<1> QED
  BY <1>1, <1>2, <1>3

-----------------------------------------------------------------------------
(* Steps of the join *)

(* The messages of the link after a step are some that it held before. *)
LEMMA LinkFrom ==
  ASSUME JoinInv, UNCHANGED <<input, stamped>>, Queue(link', jheld'),
         \A i \in 1 .. Len(link') : \E k \in 1 .. Len(link) : link'[i] = link[k],
         \A m \in stamped :
           Covered(link', jheld', m, jmem'.seen, jckpt'.seen, jckpt'.of[m.client].aborted),
         jpc' \in {"idle", "save", "ack"} \/ jheld' = 0
  PROVE  LinkOK'
<1>1. \A c : Final(c)' <=> Final(c)
  BY SameInput DEF Final, StampedFor
<1>2. DOMAIN link' = 1 .. Len(link')
  BY SeqOfItself DEF Queue
<1>3. ASSUME NEW i \in DOMAIN link'
      PROVE  /\ link'[i].kind \in {"data", "eof", "abort"} /\ link'[i].client \in Clients
             /\ link'[i].kind = "data" => link'[i] \in stamped'
             /\ link'[i].kind = "eof" => link'[i].count \in Nat \ {0} /\ Final(link[i].client)'
  <2>1. PICK k \in 1 .. Len(link) : link'[i] = link[k]
    BY <1>2
  <2>2. /\ link[k].kind \in {"data", "eof", "abort"} /\ link[k].client \in Clients
        /\ link[k].kind = "data" => link[k] \in stamped
        /\ link[k].kind = "eof" => link[k].count \in Nat \ {0} /\ Final(link[k].client)
    BY LinkMessages
  <2>3. PICK c \in Clients : c = link[k].client
    BY <2>2
  <2>4. Final(link[i].client)' <=> Final(c)'
    BY <2>1, <2>3 DEF Final, StampedFor, Whole, RowsOf
  <2>5. link[k].kind = "eof" => Final(c)'
    BY <1>1, <2>2, <2>3
  <2> QED
    BY <2>1, <2>2, <2>4, <2>5
<1> QED
  BY <1>3 DEF LinkOK

(* The link is as it was, and so is what the tables say about it. *)
LEMMA LinkKept ==
  ASSUME JoinInv, UNCHANGED <<input, stamped, link, jheld>>,
         jmem'.seen = jmem.seen, jckpt'.seen = jckpt.seen,
         \A c \in Clients : jckpt'.of[c].aborted = jckpt.of[c].aborted,
         \A m \in stamped : m.client \in Clients,
         jpc \notin {"idle", "save", "ack"} \/ jpc' \in {"idle", "save", "ack"}
  PROVE  LinkOK'
<1>1. LinkOK
  BY DEF JoinInv
<1>2. Queue(link', jheld') /\ (jpc' \in {"idle", "save", "ack"} \/ jheld' = 0)
  BY <1>1 DEF LinkOK
<1>3. \A m \in stamped :
        Covered(link', jheld', m, jmem'.seen, jckpt'.seen, jckpt'.of[m.client].aborted)
  BY <1>1 DEF LinkOK
<1> QED
  BY <1>2, <1>3, LinkFrom

(* What the stamps say of messages, for the join. *)
LEMMA StampedMessages ==
  ASSUME MergeInv
  PROVE  /\ \A m \in stamped : /\ m.kind = "data" /\ m.client \in Clients /\ m.row \in OutRows
                               /\ m.id \in {"merge"} \X Nat
         /\ \A m, n \in stamped : m.id = n.id => m = n
         /\ \A c \in Clients : \A m, n \in StampedFor(c) : m.row = n.row => m = n
BY DEF MergeInv, Stamps, StampedOnce

(* Steps that change neither what was stamped nor the record and the table of a client. *)
LEMMA JoinedKept ==
  ASSUME JoinInv, UNCHANGED <<input, stamped>>, NEW c \in Clients
  PROVE  /\ StampedFor(c)' = StampedFor(c) /\ Whole(c)' = Whole(c)
         /\ jmem'.of[c] = jmem.of[c] /\ jmem'.seen = jmem.seen =>
              Joined(StampedFor(c), Whole(c), jmem.of[c], jmem.seen)'
         /\ jckpt'.of[c] = jckpt.of[c] /\ jckpt'.seen = jckpt.seen =>
              Joined(StampedFor(c), Whole(c), jckpt.of[c], jckpt.seen)'
<1>1. StampedFor(c)' = StampedFor(c) /\ Whole(c)' = Whole(c)
  BY SameInput DEF StampedFor
<1>2. /\ Joined(StampedFor(c), Whole(c), jmem.of[c], jmem.seen)
      /\ Joined(StampedFor(c), Whole(c), jckpt.of[c], jckpt.seen)
  BY DEF JoinInv
<1> QED
  BY <1>1, <1>2

(* The join's thread takes the first message that it does not hold. *)
LEMMA JoinTaking ==
  ASSUME JoinInv, NEW kind, J!CanTake(kind), NEW x, x = J!Waiting
  PROVE  /\ jpc = "idle" /\ x = link[jheld + 1] /\ x.kind = kind
         /\ Queue(link, jheld) /\ jheld < Len(link) /\ Len(link) \in Nat /\ jheld \in Nat
         /\ x.client \in Clients
         /\ kind = "data" => x \in stamped
<1>1. jpc = "idle" /\ jheld < Len(link) /\ x = link[jheld + 1] /\ x.kind = kind
  BY DEF J!CanTake, J!Waiting
<1>2. Queue(link, jheld) /\ Len(link) \in Nat /\ jheld \in Nat
  BY DEF JoinInv, LinkOK, Queue, IsSeq
<1>3. jheld + 1 \in 1 .. Len(link)
  BY <1>1, <1>2
<1>4. x.client \in Clients /\ (x.kind = "data" => x \in stamped)
  BY <1>1, <1>3, LinkMessages
<1> QED
  BY <1>1, <1>2, <1>4

(* handle_data: an aborted client's message or a duplicate leaves the queue. *)
LEMMA JoinIgnoreData ==
  ASSUME MergeInv, JoinInv, J!IgnoreData, UNCHANGED <<input, stamped>>
  PROVE  JoinInv'
<1> DEFINE x == J!Waiting
           h == jheld
<1>1. J!CanTake("data") /\ (jmem.of[x.client].aborted \/ x.id \in jmem.seen)
  BY DEF J!IgnoreData
<1>2. link' = RemoveAt(link, h + 1) /\ UNCHANGED <<jheld, jmem, jckpt, jdirty, jpc, jtask, jclient>>
  <2>1. link' = RemoveAt(link, h + 1)
    BY DEF J!IgnoreData, J!AckNow, J!RemoveAt, RemoveAt
  <2>2. jheld' = jheld /\ jmem' = jmem /\ jckpt' = jckpt /\ jdirty' = jdirty
    BY DEF J!IgnoreData
  <2>3. jpc' = jpc /\ jtask' = jtask /\ jclient' = jclient
    BY DEF J!IgnoreData, J!thread
  <2> QED
    BY <2>1, <2>2, <2>3
<1> HIDE DEF x
<1>3. /\ jpc = "idle" /\ x = link[h + 1] /\ x.kind = "data"
      /\ Queue(link, h) /\ h < Len(link) /\ Len(link) \in Nat /\ h \in Nat
      /\ x.client \in Clients /\ x \in stamped
  BY <1>1, JoinTaking DEF x
<1>4. LinkOK'
  <2>1. /\ Queue(link', h) /\ Len(link') = Len(link) - 1
        /\ \A i \in 1 .. h : link'[i] = link[i]
        /\ \A i \in h + 1 .. Len(link) - 1 : link'[i] = link[i + 1]
    BY <1>2, <1>3, QueueRemove
  <2>2. ASSUME NEW i \in 1 .. Len(link') PROVE \E k \in 1 .. Len(link) : link'[i] = link[k]
    <3>1. i \in 1 .. h \/ (i \in h + 1 .. Len(link) - 1 /\ i + 1 \in 1 .. Len(link))
      BY <1>3, <2>1
    <3>2. i \in 1 .. h => i \in 1 .. Len(link)
      BY <1>3
    <3> QED
      BY <2>1, <3>1, <3>2
  <2>3. ASSUME NEW m \in stamped
        PROVE  Covered(link', h, m, jmem.seen, jckpt.seen, jckpt.of[m.client].aborted)
    <3>1. Covered(link, h, m, jmem.seen, jckpt.seen, jckpt.of[m.client].aborted)
      BY DEF JoinInv, LinkOK
    <3>2. jmem.of[x.client].aborted => jckpt.of[x.client].aborted
      BY <1>3 DEF JoinInv, Saved
    <3>3. link[h + 1] = m => m.id \in jmem.seen \/ jckpt.of[m.client].aborted
      BY <1>1, <1>3, <3>2
    <3>4. jckpt.of[m.client].aborted \in BOOLEAN
      BY StampedMessages DEF JoinInv, JoinTyped, JoinMemory, JoinRecord
    <3> QED
      BY <1>2, <1>3, <3>1, <3>3, <3>4, CoveredRemove
  <2> QED
    BY <1>2, <1>3, <2>1, <2>2, <2>3, LinkFrom
<1>5. JoinTyped' /\ JoinSeen' /\ Responding'
  BY <1>2 DEF JoinInv, JoinTyped, JoinSeen, Responding
<1>6. Saved(jmem, jckpt, jdirty, jpc, jtask)'
  BY <1>2 DEF JoinInv
<1>7. Event(link, jheld, jpc, jtask, jclient)'
  BY <1>2, <1>3 DEF Event, Handling
<1>8. \A c \in Clients : /\ Joined(StampedFor(c), Whole(c), jmem.of[c], jmem.seen)'
                         /\ Joined(StampedFor(c), Whole(c), jckpt.of[c], jckpt.seen)'
  BY <1>2, JoinedKept
<1> QED
  BY <1>4, <1>5, <1>6, <1>7, <1>8 DEF JoinInv

(* dispatch flushes before an EOF is handled. *)
LEMMA JoinTakeEOF ==
  ASSUME MergeInv, JoinInv, J!TakeEOF, UNCHANGED <<input, stamped>>
  PROVE  JoinInv'
<1> DEFINE x == J!Waiting
<1>1. J!CanTake("eof")
  BY DEF J!TakeEOF
<1>2. /\ jpc' = "save" /\ jtask' = "flush" /\ jclient' = x.client
      /\ UNCHANGED <<link, jheld, jmem, jckpt, jdirty>>
  BY DEF J!TakeEOF
<1> HIDE DEF x
<1>3. /\ jpc = "idle" /\ x = link[jheld + 1] /\ x.kind = "eof"
      /\ jheld < Len(link) /\ x.client \in Clients
  BY <1>1, JoinTaking DEF x
<1>4. LinkOK'
  BY <1>2, LinkKept, StampedMessages
<1>5. JoinTyped' /\ JoinSeen' /\ Responding'
  BY <1>2, <1>3 DEF JoinInv, JoinTyped, JoinSeen, Responding, Tasks
<1>6. Saved(jmem, jckpt, jdirty, jpc, jtask)'
  <2>1. Saved(jmem, jckpt, jdirty, "idle", jtask)
    BY <1>3 DEF JoinInv
  <2> QED
    BY <1>2, <2>1 DEF Saved
<1>7. Event(link, jheld, jpc, jtask, jclient)'
  BY <1>2, <1>3 DEF Event
<1>8. \A c \in Clients : /\ Joined(StampedFor(c), Whole(c), jmem.of[c], jmem.seen)'
                         /\ Joined(StampedFor(c), Whole(c), jckpt.of[c], jckpt.seen)'
  BY <1>2, JoinedKept
<1> QED
  BY <1>4, <1>5, <1>6, <1>7, <1>8 DEF JoinInv

(* Acks reach the broker after a checkpoint covers them; a crash may cut the loop short. *)
LEMMA LinkAcked ==
  ASSUME MergeInv, JoinInv, UNCHANGED <<input, stamped>>, NEW k \in 0 .. jheld, k = 0 \/ jpc = "ack",
         jckpt' = jckpt, link' = SubSeq(link, k + 1, Len(link)), jheld' = 0, jmem'.seen = jckpt.seen
  PROVE  /\ LinkOK' /\ Len(link') = Len(link) - k
         /\ \A i \in 1 .. Len(link) - k : link'[i] = link[k + i]
<1>1. Queue(link, jheld) /\ Len(link) \in Nat /\ jheld \in 0 .. Len(link)
  BY DEF JoinInv, LinkOK, Queue, IsSeq
<1>2. /\ Queue(link', 0) /\ Len(link') = Len(link) - k
      /\ \A i \in 1 .. Len(link) - k : link'[i] = link[k + i]
  BY <1>1, QueueAck
<1>3. ASSUME NEW i \in 1 .. Len(link') PROVE \E j \in 1 .. Len(link) : link'[i] = link[j]
  <2>1. i \in 1 .. Len(link) - k /\ k + i \in 1 .. Len(link)
    BY <1>1, <1>2
  <2> QED
    BY <1>2, <2>1
<1>4. jckpt.seen \subseteq jmem.seen /\ (jpc = "ack" => jmem.seen = jckpt.seen)
  BY DEF JoinInv, Saved
<1>5. ASSUME NEW m \in stamped
      PROVE  Covered(link', 0, m, jckpt.seen, jckpt.seen, jckpt.of[m.client].aborted)
  <2>1. Covered(link, jheld, m, jmem.seen, jckpt.seen, jckpt.of[m.client].aborted)
    BY DEF JoinInv, LinkOK
  <2>2. m.kind = "data"
    BY StampedMessages
  <2>3. k = 0 \/ jmem.seen = jckpt.seen
    BY <1>4
  <2> QED
    BY <1>1, <1>4, <2>1, <2>2, <2>3, CoveredAck
<1>6. LinkOK'
  BY <1>2, <1>3, <1>5, LinkFrom
<1> QED
  BY <1>2, <1>6

(* The held messages are acked, and the thread goes on with its event. *)
LEMMA JoinAck ==
  ASSUME MergeInv, JoinInv, J!Ack, UNCHANGED <<input, stamped>>
  PROVE  JoinInv'
<1>1. /\ jpc = "ack" /\ link' = SubSeq(link, jheld + 1, Len(link)) /\ jheld' = 0
      /\ jpc' = CASE jtask = "flush" -> "handle" [] jtask = "eof" -> "free"
                  [] jtask = "abort" -> "done"   [] OTHER -> "idle"
      /\ UNCHANGED <<jmem, jckpt, jdirty, jtask, jclient>>
  BY DEF J!Ack
<1>2. jtask \in {"data", "start", "flush", "eof", "abort"} /\ jheld \in Nat /\ Len(link) \in Nat
  BY <1>1 DEF JoinInv, JoinTyped, Tasks, LinkOK, Queue, IsSeq
<1>3. \/ jtask = "flush" /\ jpc' = "handle"
      \/ jtask = "eof" /\ jpc' = "free"
      \/ jtask = "abort" /\ jpc' = "done"
      \/ jtask \in {"data", "start"} /\ jpc' = "idle"
  BY <1>1, <1>2
<1>4. Saved(jmem, jckpt, jdirty, "ack", jtask)
  BY <1>1 DEF JoinInv
<1>5. /\ LinkOK' /\ Len(link') = Len(link) - jheld
      /\ \A i \in 1 .. Len(link) - jheld : link'[i] = link[jheld + i]
  <2>1. jheld \in 0 .. jheld /\ jmem'.seen = jckpt.seen
    BY <1>1, <1>2, <1>4 DEF Saved
  <2> QED
    BY <1>1, <2>1, LinkAcked
<1>6. JoinTyped' /\ JoinSeen' /\ Responding'
  BY <1>1, <1>3 DEF JoinInv, JoinTyped, JoinSeen, Responding, Tasks
<1>7. Saved(jmem, jckpt, jdirty, jpc, jtask)'
  BY <1>1, <1>3, <1>4 DEF Saved
<1>8. Event(link, jheld, jpc, jtask, jclient)'
  <2>1. Event(link, jheld, "ack", jtask, jclient)
    BY <1>1 DEF JoinInv
  <2>2. CASE jtask \in {"flush", "eof", "abort"}
    <3>1. /\ jheld < Len(link) /\ link[jheld + 1].client = jclient
          /\ link[jheld + 1].kind = IF jtask = "abort" THEN "abort" ELSE "eof"
      BY <2>1, <2>2 DEF Event, Handling
    <3>2. 0 < Len(link') /\ link'[0 + 1] = link[jheld + 1]
      BY <1>2, <1>5, <3>1
    <3> QED
      BY <1>1, <3>1, <3>2 DEF Event
  <2>3. CASE jtask \in {"data", "start"}
    BY <1>1, <1>3, <2>3 DEF Event, Handling
  <2> QED
    BY <1>2, <2>2, <2>3
<1>9. \A c \in Clients : /\ Joined(StampedFor(c), Whole(c), jmem.of[c], jmem.seen)'
                         /\ Joined(StampedFor(c), Whole(c), jckpt.of[c], jckpt.seen)'
  BY <1>1, JoinedKept
<1> QED
  BY <1>5, <1>6, <1>7, <1>8, <1>9 DEF JoinInv

(* The process dies: memory is what the checkpoint holds. *)
LEMMA JoinCrashes ==
  ASSUME MergeInv, JoinInv, J!Crash, UNCHANGED <<input, stamped>>
  PROVE  JoinInv'
<1>1. /\ jheld' = 0 /\ jmem' = jckpt /\ jdirty' = FALSE
      /\ jpc' = "down" /\ jtask' = "start" /\ UNCHANGED <<jckpt, jclient>>
  BY DEF J!Crash, J!Restored, MergeInv, InputOK, UseCase2
<1>2. PICK k \in 0 .. jheld : (jpc = "ack" \/ k = 0) /\ link' = SubSeq(link, k + 1, Len(link))
  BY DEF J!Crash
<1>3. LinkOK'
  BY <1>1, <1>2, LinkAcked
<1>4. JoinTyped' /\ Responding'
  BY <1>1 DEF JoinInv, JoinTyped, Responding, Tasks
<1>5. JoinSeen'
  <2>1. jckpt.seen \subseteq jmem.seen
    BY DEF JoinInv, Saved
  <2> QED
    BY <1>1, <2>1 DEF JoinInv, JoinSeen
<1>6. Saved(jmem, jckpt, jdirty, jpc, jtask)'
  BY <1>1 DEF Saved
<1>7. Event(link, jheld, jpc, jtask, jclient)'
  BY <1>1 DEF Event, Handling
<1>8. ASSUME NEW c \in Clients
      PROVE  /\ Joined(StampedFor(c), Whole(c), jmem.of[c], jmem.seen)'
             /\ Joined(StampedFor(c), Whole(c), jckpt.of[c], jckpt.seen)'
  BY <1>1, JoinedKept
<1> QED
  BY <1>3, <1>4, <1>5, <1>6, <1>7, <1>8 DEF JoinInv

(* start on a restored checkpoint. *)
LEMMA JoinRestart ==
  ASSUME MergeInv, JoinInv, J!Restart, UNCHANGED <<input, stamped>>
  PROVE  JoinInv'
<1>1. jpc = "down" /\ jpc' = "free" /\ UNCHANGED <<link, jheld, jmem, jckpt, jdirty, jtask, jclient>>
  BY DEF J!Restart
<1>2. jtask = "start"
  BY <1>1 DEF JoinInv, JoinTyped, Tasks
<1>3. LinkOK'
  BY <1>1, LinkKept, StampedMessages
<1>4. JoinTyped' /\ JoinSeen' /\ Responding'
  BY <1>1, <1>2 DEF JoinInv, JoinTyped, JoinSeen, Responding, Tasks
<1>5. Saved(jmem, jckpt, jdirty, jpc, jtask)'
  <2>1. Saved(jmem, jckpt, jdirty, "down", jtask)
    BY <1>1 DEF JoinInv
  <2> QED
    BY <1>1, <2>1 DEF Saved
<1>6. Event(link, jheld, jpc, jtask, jclient)'
  BY <1>1, <1>2 DEF Event, Handling
<1>7. \A c \in Clients : /\ Joined(StampedFor(c), Whole(c), jmem.of[c], jmem.seen)'
                         /\ Joined(StampedFor(c), Whole(c), jckpt.of[c], jckpt.seen)'
  BY <1>1, JoinedKept
<1> QED
  BY <1>3, <1>4, <1>5, <1>6, <1>7 DEF JoinInv

(* A chunk goes to the client; the node's own state stays. *)
LEMMA JoinSendChunk ==
  ASSUME JoinInv, J!SendChunk, UNCHANGED <<input, stamped>>
  PROVE  JoinInv'
<1>1. UNCHANGED <<link, jheld, jmem, jckpt, jdirty, jpc, jtask, jclient>>
  BY DEF J!SendChunk
<1> QED
  BY <1>1, JoinUntouched

(* The event that was handled leaves the link. *)
LEMMA JoinDone ==
  ASSUME MergeInv, JoinInv, J!Done, UNCHANGED <<input, stamped>>
  PROVE  JoinInv'
<1>1. /\ jpc = "done" /\ link' = Tail(link) /\ jpc' = "idle" /\ jtask' = "none"
      /\ UNCHANGED <<jheld, jmem, jckpt, jdirty, jclient>>
  BY DEF J!Done
<1>2. jheld = 0 /\ Queue(link, 0) /\ Len(link) \in Nat
  BY <1>1 DEF JoinInv, LinkOK, Queue, IsSeq
<1>3. 0 < Len(link) /\ link[1].kind # "data"
  <2>1. 0 < Len(link) /\ link[0 + 1].kind = IF jtask = "abort" THEN "abort" ELSE "eof"
    BY <1>1, <1>2 DEF JoinInv, Event, Handling
  <2> QED
    BY <2>1
<1>4. LinkOK'
  <2>1. /\ Queue(link', 0) /\ Len(link') = Len(link) - 1
        /\ \A i \in 1 .. Len(link) - 1 : link'[i] = link[1 + i]
    BY <1>1, <1>2, <1>3, QueueTail
  <2>2. ASSUME NEW i \in 1 .. Len(link') PROVE \E k \in 1 .. Len(link) : link'[i] = link[k]
    <3>1. i \in 1 .. Len(link) - 1 /\ 1 + i \in 1 .. Len(link)
      BY <1>2, <2>1
    <3> QED
      BY <2>1, <3>1
  <2>3. ASSUME NEW m \in stamped
        PROVE  Covered(link', 0, m, jmem.seen, jckpt.seen, jckpt.of[m.client].aborted)
    <3>1. Covered(link, 0, m, jmem.seen, jckpt.seen, jckpt.of[m.client].aborted)
      BY <1>2 DEF JoinInv, LinkOK
    <3>2. m.kind = "data"
      BY StampedMessages
    <3> QED
      BY <1>1, <1>2, <1>3, <3>1, <3>2, CoveredTail
  <2> QED
    BY <1>1, <1>2, <2>1, <2>2, <2>3, LinkFrom
<1>5. JoinTyped' /\ JoinSeen' /\ Responding'
  BY <1>1 DEF JoinInv, JoinTyped, JoinSeen, Responding, Tasks
<1>6. Saved(jmem, jckpt, jdirty, jpc, jtask)'
  <2>1. Saved(jmem, jckpt, jdirty, "done", jtask)
    BY <1>1 DEF JoinInv
  <2> QED
    BY <1>1, <2>1 DEF Saved
<1>7. Event(link, jheld, jpc, jtask, jclient)'
  BY <1>1 DEF Event, Handling
<1>8. \A c \in Clients : /\ Joined(StampedFor(c), Whole(c), jmem.of[c], jmem.seen)'
                         /\ Joined(StampedFor(c), Whole(c), jckpt.of[c], jckpt.seen)'
  BY <1>1, JoinedKept
<1> QED
  BY <1>4, <1>5, <1>6, <1>7, <1>8 DEF JoinInv

(* _checkpoint_and_flush: a checkpoint covers all that is held. *)
LEMMA JoinSave ==
  ASSUME MergeInv, JoinInv, J!Save, UNCHANGED <<input, stamped>>
  PROVE  JoinInv'
<1>1. /\ jpc = "save"
      /\ jckpt' = IF jdirty \/ jtask \in {"eof", "abort", "start"} THEN jmem ELSE jckpt
      /\ jdirty' = FALSE /\ jpc' = "ack"
      /\ UNCHANGED <<link, jheld, jmem, jtask, jclient>>
  BY DEF J!Save
<1>2. jtask \in {"data", "start", "flush", "eof", "abort"} /\ jmem \in JoinMemory /\ jckpt \in JoinMemory
  BY <1>1 DEF JoinInv, JoinTyped, Tasks
<1>3. JoinTyped'
  <2>1. jpc' \in DOMAIN Tasks \ {"emit", "abort", "recheck"} /\ jtask' \in Tasks[jpc']
    BY <1>1, <1>2 DEF Tasks
  <2>2. jckpt' \in JoinMemory
    BY <1>1, <1>2
  <2> QED
    BY <1>1, <2>1, <2>2 DEF JoinInv, JoinTyped
<1>4. JoinSeen' /\ Responding'
  BY <1>1 DEF JoinInv, JoinSeen, Responding
<1>5. Saved(jmem, jckpt, jdirty, "save", jtask)
  BY <1>1 DEF JoinInv
<1>6. Saved(jmem, jckpt, jdirty, jpc, jtask)' /\ jckpt'.seen = jmem.seen
  BY <1>1, <1>5 DEF Saved
<1>7. Event(link, jheld, jpc, jtask, jclient)'
  BY <1>1 DEF JoinInv, Event, Handling
<1>8. LinkOK'
  <2>1. \A c \in Clients : jckpt.of[c].aborted => jckpt'.of[c].aborted
    BY <1>1, <1>5 DEF Saved
  <2>2. ASSUME NEW m \in stamped
        PROVE  Covered(link', jheld', m, jmem'.seen, jckpt'.seen, jckpt'.of[m.client].aborted)
    <3>1. Covered(link, jheld, m, jmem.seen, jckpt.seen, jckpt.of[m.client].aborted)
      BY DEF JoinInv, LinkOK
    <3>2. jckpt.of[m.client].aborted => jckpt'.of[m.client].aborted
      BY <2>1, StampedMessages
    <3>3. Covered(link, jheld, m, jmem.seen, jmem.seen, jckpt'.of[m.client].aborted)
      BY <3>1, <3>2, CoveredSave
    <3> QED
      BY <1>1, <1>6, <3>3
  <2>3. Queue(link', jheld') /\ jpc' \in {"idle", "save", "ack"}
    BY <1>1 DEF JoinInv, LinkOK
  <2>4. \A i \in 1 .. Len(link') : link'[i] = link[i] /\ i \in 1 .. Len(link)
    BY <1>1
  <2> QED
    BY <2>2, <2>3, <2>4, LinkFrom
<1>9. ASSUME NEW c \in Clients
      PROVE  /\ Joined(StampedFor(c), Whole(c), jmem.of[c], jmem.seen)'
             /\ Joined(StampedFor(c), Whole(c), jckpt.of[c], jckpt.seen)'
  BY <1>1, JoinedKept
<1> QED
  BY <1>3, <1>4, <1>6, <1>7, <1>8, <1>9 DEF JoinInv

(* Memory X of the join with the record r for client c, and a number seen. *)
LEMMA JoinMemoryChanged ==
  ASSUME NEW X \in JoinMemory, NEW c \in Clients, NEW r \in JoinRecord
  PROVE  LET Y == With(X, c, r) IN
         /\ Y \in JoinMemory /\ Y.seen = X.seen /\ Y.of[c] = r
         /\ \A d \in Clients : d # c => Y.of[d] = X.of[d]
<1>1. X.of \in [Clients -> JoinRecord] /\ X \in [of : [Clients -> JoinRecord], seen : SUBSET ({"merge"} \X Nat)]
  BY DEF JoinMemory
<1> DEFINE f == [X.of EXCEPT ![c] = r]
           Y == With(X, c, r)
<1>2. Y = [X EXCEPT !.of = f]
  BY DEF With
<1> HIDE DEF Y
<1>3. f \in [Clients -> JoinRecord] /\ f[c] = r /\ \A d \in Clients : d # c => f[d] = X.of[d]
  BY <1>1
<1> HIDE DEF f
<1>4. Y.of = f /\ Y.seen = X.seen
  BY <1>1, <1>2
<1>5. Y \in JoinMemory
  BY <1>1, <1>2, <1>3 DEF JoinMemory
<1> QED
  BY <1>3, <1>4, <1>5 DEF Y

(* The join's record of an aborted client: discard, counts.drop and mark_aborted. *)
LEMMA DroppedRecord ==
  ASSUME NEW r
  PROVE  /\ J!Dropped(r) \in JoinRecord /\ J!Dropped(r).aborted /\ J!Dropped(r).received = 0
         /\ J!Dropped(r).expected = J!Unknown
<1>1. <<>> \in Seq(OutRows)
  BY EmptySeq
<1>2. J!FreshClient \in JoinRecord /\ J!FreshClient.received = 0 /\ J!FreshClient.expected = J!Unknown
  BY <1>1 DEF J!FreshClient, J!Unknown, JoinRecord
<1>3. J!Dropped(r) = [J!FreshClient EXCEPT !.aborted = TRUE]
  BY DEF J!Dropped
<1>4. J!Dropped(r) \in JoinRecord
  BY <1>2, <1>3 DEF JoinRecord
<1>5. J!Dropped(r).aborted
  BY <1>2, <1>3 DEF JoinRecord
<1>6. /\ J!Dropped(r).received = J!FreshClient.received
      /\ J!Dropped(r).expected = J!FreshClient.expected
  BY <1>2, <1>3 DEF JoinRecord
<1> QED
  BY <1>2, <1>4, <1>5, <1>6

(* _on_abort: the client is over. *)
LEMMA JoinHandleAbort ==
  ASSUME MergeInv, JoinInv, J!HandleAbort, UNCHANGED <<input, stamped>>
  PROVE  JoinInv'
<1> DEFINE x == J!Waiting
           r == J!Dropped(jmem.of[x.client])
<1>1. J!CanTake("abort")
  BY DEF J!HandleAbort
<1>2. /\ jmem' = [jmem EXCEPT !.of[x.client] = r] /\ jdirty' = TRUE
      /\ jpc' = "save" /\ jtask' = "abort" /\ jclient' = x.client
      /\ UNCHANGED <<link, jheld, jckpt>>
  BY DEF J!HandleAbort
<1>3. /\ jpc = "idle" /\ x = link[jheld + 1] /\ x.kind = "abort"
      /\ jheld < Len(link) /\ x.client \in Clients
  BY <1>1, JoinTaking
<1>4. r \in JoinRecord /\ r.aborted /\ r.received = 0 /\ r.expected = J!Unknown
  BY DroppedRecord
<1>5. jmem' = With(jmem, x.client, r)
  BY <1>2 DEF With
<1> HIDE DEF r, x
<1>6. /\ jmem' \in JoinMemory /\ jmem'.seen = jmem.seen /\ jmem'.of[x.client] = r
      /\ \A d \in Clients : d # x.client => jmem'.of[d] = jmem.of[d]
  <2>1. jmem \in JoinMemory
    BY DEF JoinInv, JoinTyped
  <2> QED
    BY <1>3, <1>4, <1>5, <2>1, JoinMemoryChanged
<1>7. LinkOK'
  BY <1>2, <1>6, LinkKept, StampedMessages
<1>8. JoinTyped' /\ JoinSeen' /\ Responding'
  BY <1>2, <1>3, <1>6 DEF JoinInv, JoinTyped, JoinSeen, Responding, Tasks
<1>9. Saved(jmem, jckpt, jdirty, jpc, jtask)'
  <2>1. Saved(jmem, jckpt, jdirty, "idle", jtask)
    BY <1>3 DEF JoinInv
  <2>2. \A d \in Clients : jmem.of[d].aborted => jmem'.of[d].aborted
    BY <1>4, <1>6
  <2> QED
    BY <1>2, <1>6, <2>1, <2>2 DEF Saved
<1>10. Event(link, jheld, jpc, jtask, jclient)'
  BY <1>2, <1>3 DEF Event
<1>11. ASSUME NEW c \in Clients
       PROVE  /\ Joined(StampedFor(c), Whole(c), jmem.of[c], jmem.seen)'
              /\ Joined(StampedFor(c), Whole(c), jckpt.of[c], jckpt.seen)'
  <2>1. Joined(StampedFor(c), Whole(c), jckpt.of[c], jckpt.seen)'
    BY <1>2, JoinedKept
  <2>2. CASE c = x.client
    <3>1. Joined(StampedFor(c)', Whole(c)', r, jmem'.seen)
      BY <1>4 DEF Joined
    <3> QED
      BY <1>6, <2>1, <2>2, <3>1
  <2>3. CASE c # x.client
    BY <1>6, <2>1, <2>3, JoinedKept
  <2> QED
    BY <2>2, <2>3
<1> QED
  BY <1>7, <1>8, <1>9, <1>10, <1>11 DEF JoinInv

(* The client's record with the count that its EOF announces. *)
Expecting(r, n) == [r EXCEPT !.expected = n]

(* The join stores the announced total and nothing else.                      *)
LEMMA ExpectingRecord ==
  ASSUME NEW r \in JoinRecord, NEW n \in Nat
  PROVE  LET u == Expecting(r, n) IN
         /\ u \in JoinRecord /\ u.expected = n /\ u.rows = r.rows /\ u.received = r.received
         /\ u.finalized = r.finalized /\ u.aborted = r.aborted
BY DEF Expecting, JoinRecord

(* An EOF at the head of the link finds all that it announces in the dedup table. *)
LEMMA JoinEofCounts ==
  ASSUME MergeInv, JoinInv, jpc = "handle"
  PROVE  /\ jheld = 0 /\ jtask = "flush" /\ jclient \in Clients /\ link[1].count \in Nat \ {0}
         /\ 0 < Len(link) /\ link[1].client = jclient /\ link[1].kind = "eof"
         /\ Final(jclient)
         /\ ~jmem.of[jclient].aborted => \A m \in StampedFor(jclient) : m.id \in jmem.seen
<1>1. jtask = "flush" /\ jclient \in Clients
  BY DEF JoinInv, JoinTyped, Tasks
<1>2. jheld = 0 /\ Queue(link, 0) /\ Len(link) \in Nat
  BY DEF JoinInv, LinkOK, Queue, IsSeq
<1>3. 0 < Len(link) /\ link[0 + 1].client = jclient /\ link[0 + 1].kind = "eof"
  BY <1>1, <1>2 DEF JoinInv, Event, Handling
<1>4. link[1].client = jclient /\ link[1].kind = "eof" /\ 1 \in 1 .. Len(link)
  BY <1>2, <1>3
<1>5. link[1].count \in Nat \ {0} /\ Final(link[1].client)
  BY <1>4, LinkMessages
<1>6. Final(jclient)
  BY <1>4, <1>5
<1>7. ASSUME ~jmem.of[jclient].aborted, NEW m \in StampedFor(jclient) PROVE m.id \in jmem.seen
  <2>1. m \in stamped /\ m.client = jclient
    BY DEF StampedFor
  <2>2. ~jckpt.of[m.client].aborted
    BY <1>1, <1>7, <2>1 DEF JoinInv, Saved
  <2>3. Covered(link, 0, m, jmem.seen, jckpt.seen, jckpt.of[m.client].aborted)
    BY <1>2, <2>1 DEF JoinInv, LinkOK
  <2>4. IsEof(link[1], m.client)
    BY <1>4, <2>1 DEF IsEof
  <2> QED
    BY <1>2, <1>3, <2>2, <2>3, <2>4, EofFindsAll
<1> QED
  BY <1>1, <1>2, <1>3, <1>4, <1>5, <1>6, <1>7

(* _on_eof: the count is set, and finds all that it announces; an aborted client has none. *)
LEMMA JoinHandleEOF ==
  ASSUME MergeInv, JoinInv, J!HandleEOF, UNCHANGED <<input, stamped>>
  PROVE  JoinInv'
<1> DEFINE c == jclient
           n == link[1].count
           old == jmem.of[jclient]
           r == Expecting(old, n)
<1>1. /\ jpc = "handle" /\ jmem' = With(jmem, c, r)
      /\ jpc' = IF J!Finalizes(r) THEN "respond" ELSE "done"
      /\ jtask' = "eof" /\ UNCHANGED <<link, jheld, jckpt, jdirty, jclient>>
  BY DEF J!HandleEOF, With, Expecting
<1>2. /\ jheld = 0 /\ c \in Clients /\ n \in Nat \ {0}
      /\ 0 < Len(link) /\ link[1].client = c /\ link[1].kind = "eof"
      /\ Final(c)
      /\ ~old.aborted => \A m \in StampedFor(c) : m.id \in jmem.seen
  BY <1>1, JoinEofCounts
<1>3. jmem \in JoinMemory /\ old \in JoinRecord
  BY <1>2 DEF JoinInv, JoinTyped, JoinMemory
<1>4. /\ r \in JoinRecord /\ r.expected = n /\ r.rows = old.rows /\ r.received = old.received
      /\ r.finalized = old.finalized /\ r.aborted = old.aborted
  BY <1>2, <1>3, ExpectingRecord
<1> HIDE DEF r
<1>5. /\ jmem' \in JoinMemory /\ jmem'.seen = jmem.seen /\ jmem'.of[c] = r
      /\ \A d \in Clients : d # c => jmem'.of[d] = jmem.of[d]
  BY <1>1, <1>2, <1>3, <1>4, JoinMemoryChanged
<1>6. jpc' \in {"respond", "done"}
  BY <1>1
<1>7. LinkOK'
  BY <1>1, <1>5, LinkKept, StampedMessages
<1>8. JoinTyped' /\ JoinSeen'
  BY <1>1, <1>2, <1>5, <1>6 DEF JoinInv, JoinTyped, JoinSeen, Tasks
<1>9. Joined(StampedFor(c), Whole(c), old, jmem.seen)
  BY <1>2 DEF JoinInv
<1>10. n >= 1 /\ n # J!Unknown /\ n \in Nat
  BY <1>2 DEF J!Unknown
<1>11. Joined(StampedFor(c), Whole(c), r, jmem.seen)
  <2> HIDE DEF n, old
  <2> QED
    BY <1>2, <1>4, <1>9, <1>10 DEF Joined, Final
<1>12. J!Finalizes(r) => ~r.aborted /\ ~r.finalized /\ r.expected # J!Unknown
  <2> HIDE DEF n, old
  <2>1. r.aborted => r.received = 0
    BY <1>11 DEF Joined
  <2> QED
    BY <1>4, <1>10, <2>1 DEF J!Finalizes
<1>13. Responding'
  <2>1. jpc' = "respond" => ~jmem'.of[c].aborted /\ ~jmem'.of[c].finalized /\ jmem'.of[c].expected # J!Unknown
    BY <1>1, <1>5, <1>12
  <2> QED
    BY <1>1, <2>1 DEF Responding
<1>14. Saved(jmem, jckpt, jdirty, jpc, jtask)'
  <2>1. Saved(jmem, jckpt, jdirty, "handle", jtask)
    BY <1>1 DEF JoinInv
  <2>2. \A d \in Clients : jmem'.of[d].aborted = jmem.of[d].aborted
    BY <1>4, <1>5
  <2> QED
    BY <1>1, <1>5, <1>6, <2>1, <2>2 DEF Saved
<1>15. Event(link, jheld, jpc, jtask, jclient)'
  <2>1. 0 < Len(link) /\ link[0 + 1].client = c /\ link[0 + 1].kind = "eof"
    BY <1>2
  <2> QED
    BY <1>1, <1>2, <2>1 DEF Event
<1>16. ASSUME NEW d \in Clients
       PROVE  /\ Joined(StampedFor(d), Whole(d), jmem.of[d], jmem.seen)'
              /\ Joined(StampedFor(d), Whole(d), jckpt.of[d], jckpt.seen)'
  <2>1. Joined(StampedFor(d), Whole(d), jckpt.of[d], jckpt.seen)'
    BY <1>1, JoinedKept
  <2>2. StampedFor(d)' = StampedFor(d) /\ Whole(d)' = Whole(d)
    BY JoinedKept
  <2>3. CASE d = c
    BY <1>5, <1>11, <2>1, <2>2, <2>3
  <2>4. CASE d # c
    BY <1>5, <2>1, <2>4, JoinedKept
  <2> QED
    BY <2>3, <2>4
<1> QED
  BY <1>7, <1>8, <1>13, <1>14, <1>15, <1>16 DEF JoinInv

(* The client's record when its response is out. *)
Finalized(r) == [r EXCEPT !.finalized = TRUE, !.expected = J!Unknown, !.received = 0]

(* Marking a client finalized clears its rows and counts, and keeps a         *)
(* tombstone.                                                                 *)
LEMMA FinalizedRecord ==
  ASSUME NEW r \in JoinRecord
  PROVE  LET u == Finalized(r) IN
         u \in JoinRecord /\ u.finalized /\ u.received = 0 /\ u.aborted = r.aborted
<1> DEFINE u == Finalized(r)
<1> DEFINE v == [r EXCEPT !.finalized = TRUE]
           w == [v EXCEPT !.expected = J!Unknown]
<1>1. u = [w EXCEPT !.received = 0]
  BY DEF Finalized
<1>2. v \in JoinRecord /\ v.finalized /\ v.aborted = r.aborted
  BY DEF JoinRecord
<1> HIDE DEF v
<1>3. w \in JoinRecord /\ w.finalized = v.finalized /\ w.aborted = v.aborted
  <2>1. v \in JoinRecord /\ J!Unknown \in Int
    BY <1>2 DEF J!Unknown
  <2> QED
    BY <2>1 DEF JoinRecord
<1> HIDE DEF u, w
<1>4. u \in JoinRecord /\ u.finalized = w.finalized /\ u.aborted = w.aborted /\ u.received = 0
  BY <1>1, <1>3 DEF JoinRecord
<1>5. u.finalized
  BY <1>2, <1>3, <1>4
<1> QED
  BY <1>2, <1>3, <1>4, <1>5 DEF u

(* mark_finalized: the whole result was seen, and the handler goes on to save that. *)
LEMMA JoinFinalize ==
  ASSUME MergeInv, JoinInv, J!Finalize, UNCHANGED <<input, stamped>>
  PROVE  JoinInv'
<1> DEFINE c == jclient
           old == jmem.of[jclient]
           r == Finalized(old)
<1>1. /\ jpc = "respond" /\ jpc' = IF jtask = "data" THEN "stuck" ELSE "save"
      /\ jmem' = [jmem EXCEPT !.of[jclient].finalized = TRUE,
                              !.of[jclient].expected = J!Unknown, !.of[jclient].received = 0]
      /\ UNCHANGED <<link, jheld, jckpt, jdirty, jtask, jclient>>
  BY DEF J!Finalize
<1>2. jtask = "eof" /\ c \in Clients /\ jmem \in JoinMemory /\ old \in JoinRecord
  BY <1>1 DEF JoinInv, JoinTyped, JoinMemory, Tasks
<1>3. jmem' = With(jmem, c, r) /\ jpc' = "save"
  BY <1>1, <1>2 DEF With, Finalized, JoinMemory, JoinRecord
<1>4. r \in JoinRecord /\ r.finalized /\ r.received = 0 /\ r.aborted = old.aborted
  BY <1>2, FinalizedRecord
<1> HIDE DEF r
<1>5. /\ jmem' \in JoinMemory /\ jmem'.seen = jmem.seen /\ jmem'.of[c] = r
      /\ \A d \in Clients : d # c => jmem'.of[d] = jmem.of[d]
  BY <1>2, <1>3, <1>4, JoinMemoryChanged
<1>6. LinkOK'
  BY <1>1, <1>3, <1>5, LinkKept, StampedMessages
<1>7. JoinTyped' /\ JoinSeen' /\ Responding'
  BY <1>1, <1>2, <1>3, <1>5 DEF JoinInv, JoinTyped, JoinSeen, Responding, Tasks
<1>8. ~old.aborted /\ old.expected # J!Unknown
  BY <1>1 DEF JoinInv, Responding
<1>9. Joined(StampedFor(c), Whole(c), r, jmem.seen)
  <2>1. Joined(StampedFor(c), Whole(c), old, jmem.seen)
    BY <1>2 DEF JoinInv
  <2> HIDE DEF old
  <2> QED
    BY <1>4, <1>8, <2>1 DEF Joined
<1>10. Saved(jmem, jckpt, jdirty, jpc, jtask)'
  <2>1. Saved(jmem, jckpt, jdirty, "respond", jtask)
    BY <1>1 DEF JoinInv
  <2>2. \A d \in Clients : jmem'.of[d].aborted = jmem.of[d].aborted
    BY <1>4, <1>5
  <2> QED
    BY <1>1, <1>3, <1>5, <2>1, <2>2 DEF Saved
<1>11. Event(link, jheld, jpc, jtask, jclient)'
  BY <1>1, <1>2, <1>3 DEF JoinInv, Event, Handling
<1>12. ASSUME NEW d \in Clients
       PROVE  /\ Joined(StampedFor(d), Whole(d), jmem.of[d], jmem.seen)'
              /\ Joined(StampedFor(d), Whole(d), jckpt.of[d], jckpt.seen)'
  <2>1. Joined(StampedFor(d), Whole(d), jckpt.of[d], jckpt.seen)'
    BY <1>1, JoinedKept
  <2>2. StampedFor(d)' = StampedFor(d) /\ Whole(d)' = Whole(d)
    BY JoinedKept
  <2>3. CASE d = c
    BY <1>5, <1>9, <2>1, <2>2, <2>3
  <2>4. CASE d # c
    BY <1>5, <2>1, <2>4, JoinedKept
  <2> QED
    BY <2>3, <2>4
<1> QED
  BY <1>6, <1>7, <1>10, <1>11, <1>12 DEF JoinInv

(* discard: the rows of finalized clients go, and nothing else. *)
LEMMA JoinFree ==
  ASSUME MergeInv, JoinInv, J!Free, UNCHANGED <<input, stamped>>
  PROVE  JoinInv'
<1> DEFINE rec(c) == IF jmem.of[c].finalized /\ (jtask = "start" \/ c = jclient)
                     THEN [jmem.of[c] EXCEPT !.rows = <<>>] ELSE jmem.of[c]
<1>1. /\ jpc = "free" /\ jmem' = [jmem EXCEPT !.of = [c \in Clients |-> rec(c)]]
      /\ jpc' = IF jtask = "start" THEN "save" ELSE "done"
      /\ UNCHANGED <<link, jheld, jckpt, jdirty, jtask, jclient>>
  BY DEF J!Free
<1>2. /\ jtask \in {"eof", "start"} /\ jmem \in JoinMemory
      /\ \A c \in Clients : jmem.of[c] \in JoinRecord
  BY <1>1 DEF JoinInv, JoinTyped, Tasks, JoinMemory
<1>3. ASSUME NEW c \in Clients
      PROVE  /\ rec(c) \in JoinRecord /\ rec(c).aborted = jmem.of[c].aborted
             /\ rec(c).expected = jmem.of[c].expected /\ rec(c).received = jmem.of[c].received
             /\ rec(c).finalized = jmem.of[c].finalized
             /\ rec(c) = jmem.of[c] \/ jmem.of[c].finalized
  <2>1. <<>> \in Seq(OutRows) /\ jmem.of[c] \in JoinRecord
    BY <1>2, EmptySeq
  <2> QED
    BY <2>1 DEF JoinRecord
<1> HIDE DEF rec
<1>4. /\ jmem' \in JoinMemory /\ jmem'.seen = jmem.seen
      /\ \A c \in Clients : jmem'.of[c] = rec(c)
  BY <1>1, <1>2, <1>3 DEF JoinMemory
<1>5. LinkOK'
  BY <1>1, <1>4, LinkKept, StampedMessages
<1>6. JoinTyped' /\ JoinSeen' /\ Responding'
  BY <1>1, <1>2, <1>4 DEF JoinInv, JoinTyped, JoinSeen, Responding, Tasks
<1>7. Saved(jmem, jckpt, jdirty, jpc, jtask)'
  <2>1. Saved(jmem, jckpt, jdirty, "free", jtask)
    BY <1>1 DEF JoinInv
  <2>2. \A d \in Clients : jmem'.of[d].aborted = jmem.of[d].aborted
    BY <1>3, <1>4
  <2>3. jpc' # "down" /\ ~jdirty /\ jdirty' = jdirty /\ jckpt' = jckpt
    BY <1>1, <2>1 DEF Saved
  <2> QED
    BY <1>4, <2>1, <2>2, <2>3 DEF Saved
<1>8. Event(link, jheld, jpc, jtask, jclient)'
  BY <1>1, <1>2 DEF JoinInv, Event, Handling
<1>9. ASSUME NEW d \in Clients
      PROVE  /\ Joined(StampedFor(d), Whole(d), jmem.of[d], jmem.seen)'
             /\ Joined(StampedFor(d), Whole(d), jckpt.of[d], jckpt.seen)'
  <2>1. Joined(StampedFor(d), Whole(d), jckpt.of[d], jckpt.seen)'
    BY <1>1, JoinedKept
  <2>2. StampedFor(d)' = StampedFor(d) /\ Whole(d)' = Whole(d)
    BY JoinedKept
  <2>3. Joined(StampedFor(d), Whole(d), jmem.of[d], jmem.seen)
    BY DEF JoinInv
  <2>4. Joined(StampedFor(d), Whole(d), rec(d), jmem.seen)
    BY <1>3, <2>3 DEF Joined
  <2> QED
    BY <1>4, <2>1, <2>2, <2>4
<1> QED
  BY <1>5, <1>6, <1>7, <1>8, <1>9 DEF JoinInv

(* The record of a client to which a partial result was joined. *)
Received(r, row) == [r EXCEPT !.rows = Append(@, row), !.received = @ + 1]

(* The join appends a row and counts it.                                      *)
LEMMA ReceivedRecord ==
  ASSUME NEW r \in JoinRecord, NEW row \in OutRows
  PROVE  LET u == Received(r, row) IN
         /\ u \in JoinRecord /\ u.rows = Append(r.rows, row) /\ u.received = r.received + 1
         /\ u.expected = r.expected /\ u.finalized = r.finalized /\ u.aborted = r.aborted
<1>1. r.rows \in Seq(OutRows) /\ r.received \in Nat
  BY DEF JoinRecord
<1> DEFINE a == Append(r.rows, row)
           k == r.received + 1
           u == Received(r, row)
<1>2. a \in Seq(OutRows) /\ k \in Nat
  BY <1>1, AppendRow
<1>3. u = [r EXCEPT !.rows = a, !.received = k]
  BY DEF Received
<1> HIDE DEF a, k, u
<1>4. /\ u \in JoinRecord /\ u.rows = a /\ u.received = k
      /\ u.expected = r.expected /\ u.finalized = r.finalized /\ u.aborted = r.aborted
  BY <1>2, <1>3 DEF JoinRecord
<1> QED
  BY <1>4 DEF a, k, u

(* Memory of the join with a record changed and one number more seen. *)
LEMMA JoinMemorySeen ==
  ASSUME NEW X \in JoinMemory, NEW c \in Clients, NEW r \in JoinRecord, NEW id \in {"merge"} \X Nat
  PROVE  LET Y == WithSeen(X, c, r, id) IN
         /\ Y \in JoinMemory /\ Y.seen = X.seen \cup {id} /\ Y.of[c] = r
         /\ \A d \in Clients : d # c => Y.of[d] = X.of[d]
<1>1. /\ X.of \in [Clients -> JoinRecord] /\ X.seen \in SUBSET ({"merge"} \X Nat)
      /\ X \in [of : [Clients -> JoinRecord], seen : SUBSET ({"merge"} \X Nat)]
  BY DEF JoinMemory
<1> DEFINE f == [X.of EXCEPT ![c] = r]
           g == X.seen \cup {id}
           Y == WithSeen(X, c, r, id)
<1>2. Y = [X EXCEPT !.of = f, !.seen = g]
  BY DEF WithSeen
<1> HIDE DEF Y
<1>3. /\ f \in [Clients -> JoinRecord] /\ f[c] = r
      /\ \A d \in Clients : d # c => f[d] = X.of[d]
      /\ g \in SUBSET ({"merge"} \X Nat)
  BY <1>1
<1> HIDE DEF f
<1>4. Y.of = f /\ Y.seen = g
  BY <1>1, <1>2
<1>5. Y \in JoinMemory
  BY <1>1, <1>2, <1>3 DEF JoinMemory
<1> QED
  BY <1>3, <1>4, <1>5 DEF Y

(* A message that was not seen finds its client open: no EOF of it can have come yet. *)
LEMMA JoinedReceives ==
  ASSUME NEW S, NEW whole, NEW r \in JoinRecord, NEW seen, Joined(S, whole, r, seen),
         NEW x \in S, x.id \notin seen, x.row \in OutRows, ~r.aborted,
         \A m \in S : m.id = x.id => m = x, \A m \in S : m.row = x.row => m = x
  PROVE  /\ r.expected = J!Unknown /\ ~r.finalized
         /\ Joined(S, whole, Received(r, x.row), seen \cup {x.id})
<1>1. r.expected = J!Unknown /\ ~r.finalized
  BY DEF Joined
<1>2. /\ r.received = Len(r.rows) /\ IsInjective(r.rows)
      /\ ToSet(r.rows) = RowsIn(SeenIn(S, seen)) /\ r.rows \in Seq(OutRows)
  BY <1>1 DEF Joined, JoinRecord
<1> DEFINE u == Received(r, x.row)
<1>3. /\ u.rows = Append(r.rows, x.row) /\ u.received = r.received + 1
      /\ u.expected = r.expected /\ u.finalized = r.finalized /\ u.aborted = r.aborted
  BY ReceivedRecord
<1> HIDE DEF u
<1>4. x.row \notin ToSet(r.rows)
  BY <1>2 DEF RowsIn, SeenIn
<1>5. /\ Len(u.rows) = Len(r.rows) + 1 /\ ToSet(u.rows) = ToSet(r.rows) \cup {x.row} /\ IsInjective(u.rows)
  BY <1>2, <1>3, <1>4, AppendRow
<1>6. SeenIn(S, seen \cup {x.id}) = SeenIn(S, seen) \cup {x}
  BY DEF SeenIn
<1>7. ToSet(u.rows) = RowsIn(SeenIn(S, seen \cup {x.id}))
  BY <1>2, <1>5, <1>6 DEF RowsIn
<1>8. u.received = Len(u.rows)
  BY <1>2, <1>3, <1>5
<1>9. Joined(S, whole, u, seen \cup {x.id})
  BY <1>1, <1>3, <1>5, <1>7, <1>8 DEF Joined
<1> QED
  BY <1>1, <1>9 DEF u

(* The tables of another client do not know the number. *)
LEMMA JoinedOther ==
  ASSUME NEW S, NEW whole, NEW r, NEW seen, Joined(S, whole, r, seen),
         NEW id, \A m \in S : m.id # id
  PROVE  Joined(S, whole, r, seen \cup {id})
<1>1. SeenIn(S, seen \cup {id}) = SeenIn(S, seen)
  BY DEF SeenIn
<1> QED
  BY <1>1 DEF Joined

(* _on_data inside handle_data: a partial result is joined once, and finalizes nothing. *)
LEMMA JoinApplyData ==
  ASSUME MergeInv, JoinInv, J!ApplyData, UNCHANGED <<input, stamped>>
  PROVE  JoinInv'
<1> DEFINE x == J!Waiting
           c == x.client
           old == jmem.of[x.client]
           r == Received(jmem.of[x.client], x.row)
<1>1. /\ J!CanTake("data") /\ ~r.aborted /\ x.id \notin jmem.seen
      /\ jmem' = WithSeen(jmem, c, r, x.id) /\ jclient' = c
      /\ jpc' = IF J!Finalizes(r) THEN "respond"
                ELSE IF jheld + 1 >= CheckpointEvery THEN "save" ELSE "idle"
      /\ jheld' = jheld + 1 /\ jdirty' = TRUE /\ jtask' = "data" /\ UNCHANGED <<link, jckpt>>
  BY DEF J!ApplyData, Received, WithSeen
<1> HIDE DEF x
<1>2. /\ jpc = "idle" /\ x = link[jheld + 1] /\ x.kind = "data"
      /\ Queue(link, jheld) /\ jheld < Len(link) /\ Len(link) \in Nat /\ jheld \in Nat
      /\ c \in Clients /\ x \in stamped
  BY <1>1, JoinTaking DEF x
<1>3. /\ x.row \in OutRows /\ x.id \in {"merge"} \X Nat
      /\ \A m \in stamped : m.id = x.id => m = x
      /\ x \in StampedFor(c) /\ \A m \in StampedFor(c) : m.row = x.row => m = x
  <2>1. x \in StampedFor(c)
    BY <1>2 DEF StampedFor
  <2> QED
    BY <1>2, <2>1, StampedMessages
<1>4. jmem \in JoinMemory /\ old \in JoinRecord
  BY <1>2 DEF JoinInv, JoinTyped, JoinMemory
<1>5. r \in JoinRecord /\ r.expected = old.expected /\ r.aborted = old.aborted
  BY <1>3, <1>4, ReceivedRecord
<1>6. old.expected = J!Unknown /\ Joined(StampedFor(c), Whole(c), r, jmem.seen \cup {x.id})
  <2>1. Joined(StampedFor(c), Whole(c), old, jmem.seen) /\ ~old.aborted
    BY <1>1, <1>2, <1>5 DEF JoinInv
  <2>2. \A m \in StampedFor(c) : m.id = x.id => m = x
    BY <1>3 DEF StampedFor
  <2> HIDE DEF old
  <2>3. old.expected = J!Unknown /\ Joined(StampedFor(c), Whole(c), Received(old, x.row), jmem.seen \cup {x.id})
    BY <1>1, <1>3, <1>4, <2>1, <2>2, JoinedReceives
  <2> QED
    BY <2>3 DEF old
<1> HIDE DEF r, old
<1>7. jpc' \in {"idle", "save"}
  BY <1>1, <1>5, <1>6 DEF J!Finalizes
<1>8. /\ jmem' \in JoinMemory /\ jmem'.seen = jmem.seen \cup {x.id} /\ jmem'.of[c] = r
      /\ \A d \in Clients : d # c => jmem'.of[d] = jmem.of[d]
  BY <1>1, <1>2, <1>3, <1>4, <1>5, JoinMemorySeen
<1>9. LinkOK'
  <2>1. Queue(link, jheld + 1)
    BY <1>2, QueueTake
  <2>2. ASSUME NEW m \in stamped
        PROVE  Covered(link', jheld', m, jmem'.seen, jckpt'.seen, jckpt'.of[m.client].aborted)
    <3>1. Covered(link, jheld, m, jmem.seen, jckpt.seen, jckpt.of[m.client].aborted)
      BY DEF JoinInv, LinkOK
    <3>2. m.id = x.id => m = x
      BY <1>3
    <3>3. Covered(link, jheld + 1, m, jmem.seen \cup {x.id}, jckpt.seen, jckpt.of[m.client].aborted)
      BY <1>2, <3>1, <3>2, CoveredTake
    <3> QED
      BY <1>1, <1>8, <3>3
  <2>3. \A i \in 1 .. Len(link') : link'[i] = link[i] /\ i \in 1 .. Len(link)
    BY <1>1
  <2> QED
    BY <1>1, <1>7, <2>1, <2>2, <2>3, LinkFrom
<1>10. JoinTyped' /\ Responding'
  BY <1>1, <1>2, <1>7, <1>8 DEF JoinInv, JoinTyped, Responding, Tasks
<1>11. JoinSeen'
  BY <1>2, <1>8 DEF JoinInv, JoinSeen
<1>12. Saved(jmem, jckpt, jdirty, jpc, jtask)'
  <2>1. Saved(jmem, jckpt, jdirty, "idle", jtask)
    BY <1>2 DEF JoinInv
  <2>2. \A d \in Clients : jmem'.of[d].aborted = jmem.of[d].aborted
    BY <1>5, <1>8 DEF old
  <2>3. jpc' # "down"
    BY <1>7
  <2> QED
    BY <1>1, <1>7, <1>8, <2>1, <2>2, <2>3 DEF Saved
<1>13. Event(link, jheld, jpc, jtask, jclient)'
  BY <1>1, <1>7 DEF Event, Handling
<1>14. ASSUME NEW d \in Clients
       PROVE  /\ Joined(StampedFor(d), Whole(d), jmem.of[d], jmem.seen)'
              /\ Joined(StampedFor(d), Whole(d), jckpt.of[d], jckpt.seen)'
  <2>1. Joined(StampedFor(d), Whole(d), jckpt.of[d], jckpt.seen)'
    BY <1>1, JoinedKept
  <2>2. StampedFor(d)' = StampedFor(d) /\ Whole(d)' = Whole(d)
    BY JoinedKept
  <2>3. CASE d = c
    BY <1>6, <1>8, <2>1, <2>2, <2>3
  <2>4. CASE d # c
    <3>1. Joined(StampedFor(d), Whole(d), jmem.of[d], jmem.seen)
      BY DEF JoinInv
    <3>2. \A m \in StampedFor(d) : m.id # x.id
      BY <1>3, <2>4 DEF StampedFor
    <3>3. Joined(StampedFor(d), Whole(d), jmem.of[d], jmem.seen \cup {x.id})
      BY <3>1, <3>2, JoinedOther
    <3> QED
      BY <1>8, <2>1, <2>2, <2>4, <3>3
  <2> QED
    BY <2>3, <2>4
<1> QED
  BY <1>9, <1>10, <1>11, <1>12, <1>13, <1>14 DEF JoinInv

(* One step of the join's thread, or its crash. *)
LEMMA JoinSteps ==
  ASSUME MergeInv, JoinInv, JoinStep \/ JoinCrash
  PROVE  MergeInv' /\ JoinInv'
<1>1. /\ UNCHANGED <<qin, mheld, mmem, mckpt, mdirty, mpc, mtask, mat, mclient, todo, input, stamped>>
      /\ J!Step \/ J!Crash
  BY DEF JoinStep, JoinCrash, mergeVars, envVars
<1>2. MergeInv'
  BY <1>1, MergeUntouched
<1>3. UNCHANGED <<input, stamped>>
  BY <1>1
<1>4. CASE J!Step
  BY <1>3, <1>4, JoinIgnoreData, JoinApplyData, JoinTakeEOF, JoinHandleAbort, JoinSave, JoinAck,
     JoinHandleEOF, JoinSendChunk, JoinFinalize, JoinFree, JoinDone, JoinRestart, <1>2 DEF J!Step
<1>5. CASE J!Crash
  BY <1>2, <1>3, <1>5, JoinCrashes
<1> QED
  BY <1>1, <1>4, <1>5

-----------------------------------------------------------------------------
(* The invariant *)

Inv == MergeInv /\ JoinInv

(* Every step of the merge, the join, the broker and the client preserves the *)
(* invariant.                                                                 *)
LEMMA InvStep == Inv /\ [Next]_vars => Inv'
<1> SUFFICES ASSUME MergeInv, JoinInv, [Next]_vars PROVE MergeInv' /\ JoinInv'
  BY DEF Inv
<1>1. CASE MergeStep
  BY <1>1, MergeSteps
<1>2. CASE JoinStep \/ JoinCrash
  BY <1>2, JoinSteps
<1>3. CASE \/ MergeCrash
           \/ \E s \in Sides : \E i \in DOMAIN input[s] : Resend(s, i)
           \/ \E c \in Clients : Drop(c)
  BY <1>3, FaultSteps
<1>4. CASE UNCHANGED vars
  <2>1. /\ UNCHANGED <<qin, mheld, mmem, mckpt, mdirty, mpc, mtask, mat, mclient, todo, input, stamped>>
        /\ UNCHANGED <<link, jheld, jmem, jckpt, jdirty, jpc, jtask, jclient>>
    BY <1>4 DEF vars, mergeVars, joinVars, envVars
  <2> QED
    BY <2>1, MergeUntouched, JoinUntouched
<1> QED
  BY <1>1, <1>2, <1>3, <1>4 DEF Next, Sides

(* Both nodes keep the invariant, in every behaviour of the composition. *)
THEOREM MergeJoinInvariant == UseCase2 /\ Spec => []Inv
<1>1. UseCase2 /\ Init => Inv
  BY MergeInit, JoinInit DEF Inv
<1>2. Inv /\ [Next]_vars => Inv'
  BY InvStep
<1> QED
  BY <1>1, <1>2, PTL DEF Spec

(* StampingMOM: a number of the output counter stands for one message. *)
THEOREM StampedOnceHolds == UseCase2 /\ Spec => []StampedOnce
<1>1. Inv => StampedOnce
  BY DEF Inv, MergeInv, Stamps
<1> QED
  BY <1>1, MergeJoinInvariant, PTL

(* _on_data never finalizes: the flush would wait for the lock that it holds. *)
THEOREM NeverStuckHolds == UseCase2 /\ Spec => []NeverStuck
<1>1. Inv => NeverStuck
  BY DEF Inv, JoinInv, JoinTyped, NeverStuck, Tasks
<1> QED
  BY <1>1, MergeJoinInvariant, PTL

(* mark_aborted: no chunk goes to a client whose tombstone the join has saved. *)
THEOREM SilentAfterAbortHolds == UseCase2 /\ Spec => SilentAfterAbort
<1> DEFINE P == \A c \in Clients : jckpt.of[c].aborted => responses'[c] = responses[c]
<1>1. ASSUME Inv, [Next]_vars PROVE [P]_vars
  <2> SUFFICES ASSUME NEW c \in Clients, jckpt.of[c].aborted PROVE responses'[c] = responses[c]
    OBVIOUS
  <2>1. CASE J!SendChunk
    <3>1. jpc = "respond" /\ responses' = [responses EXCEPT ![jclient] = Append(@, Head(chunks))]
      BY <2>1 DEF J!SendChunk
    <3>2. ~jmem.of[jclient].aborted /\ jclient \in Clients
      BY <1>1, <3>1 DEF Inv, JoinInv, JoinTyped, Responding
    <3>3. jmem.of[c].aborted
      BY <1>1 DEF Inv, JoinInv, Saved
    <3> QED
      BY <3>1, <3>2, <3>3
  <2>2. CASE ~J!SendChunk
    <3>1. responses' = responses
      BY <1>1, <2>2
      DEF Next, MergeStep, JoinStep, MergeCrash, JoinCrash, Resend, Drop, joinVars, vars,
          J!Step, J!Crash, J!IgnoreData, J!ApplyData, J!TakeEOF, J!HandleAbort, J!Save, J!Ack,
          J!HandleEOF, J!Finalize, J!Free, J!Done, J!Restart
    <3> QED
      BY <3>1
  <2> QED
    BY <2>1, <2>2
<1> QED
  BY <1>1, MergeJoinInvariant, PTL DEF Spec, SilentAfterAbort

(* A sequence of different rows is as long as its set of rows is large. *)
LEMMA InjectiveLength ==
  ASSUME NEW S, NEW q \in Seq(S), IsInjective(q)
  PROVE  IsFiniteSet(ToSet(q)) /\ Cardinality(ToSet(q)) = Len(q)
<1> DEFINE D == 1 .. Len(q)
           T == ToSet(q)
<1>1. Len(q) \in Nat /\ DOMAIN q = D /\ q = [k \in D |-> q[k]]
  BY LenProperties
<1>2. q \in [D -> T] /\ \A y \in T : \E k \in D : q[k] = y
  BY <1>1 DEF ToSet
<1> HIDE DEF T
<1>3. q \in Bijection(D, T)
  BY <1>2 DEF Bijection, Injection, Surjection, IsInjective
<1>4. ExistsBijection(D, T)
  BY <1>3 DEF ExistsBijection
<1>5. IsFiniteSet(D) /\ Cardinality(D) = Len(q)
  <2>1. PICK n \in Nat : n = Len(q)
    BY <1>1
  <2>2. 1 \in Int /\ n \in Int
    OBVIOUS
  <2>3. IsFiniteSet(1 .. n) /\ Cardinality(1 .. n) = IF 1 > n THEN 0 ELSE n - 1 + 1
    BY <2>2, FS_Interval
  <2> QED
    BY <2>1, <2>3
<1> HIDE DEF D
<1> QED
  BY <1>4, <1>5, FS_Bijection DEF T

(* A client's whole result is finite. *)
LEMMA WholeFinite ==
  ASSUME InputOK, NEW c \in Clients
  PROVE  IsFiniteSet(Whole(c)) /\ Cardinality(Whole(c)) \in Nat
<1> DEFINE q == input["right"]
           P == DataAt(q, c)
           f == [i \in P |-> q[i].row]
           R == RowsOf("right", c)
<1>1. IsSeq(q)
  BY DEF InputOK, Sides, M!Sides
<1>2. DOMAIN q = 1 .. Len(q) /\ Len(q) \in Nat
  BY <1>1, SeqOfItself
<1>3. P \subseteq 1 .. Len(q)
  BY <1>2 DEF DataAt
<1>4. IsFiniteSet(P)
  <2>1. IsFiniteSet(1 .. Len(q))
    BY <1>2, FS_Interval
  <2> QED
    BY <1>3, <2>1, FS_Subset
<1>5. R = {q[i].row : i \in P}
  BY DEF RowsOf
<1> HIDE DEF R, P, q
<1>6. f \in Surjection(P, R)
  BY <1>5 DEF Surjection
<1>7. IsFiniteSet(R)
  BY <1>4, <1>6, FS_Surjection
<1>8. IsFiniteSet(Whole(c))
  <2> DEFINE W == {row \in R : KeyOf[row] \in RowsOf("left", c)}
  <2>1. IsFiniteSet(W)
    BY <1>7, FS_Subset
  <2>2. IsFiniteSet({"empty"})
    BY FS_Singleton
  <2>3. Whole(c) = IF W = {} /\ AtLeastOne THEN {"empty"} ELSE W
    BY DEF Whole, R
  <2> QED
    BY <2>1, <2>2, <2>3
<1> QED
  BY <1>8, FS_CardinalityType

(* What a client's table holds is at most its whole result, each row once. *)
LEMMA ReceivedBounded ==
  ASSUME Inv, NEW c \in Clients
  PROVE  jmem.of[c].received \in 0 .. Cardinality(Whole(c))
<1> DEFINE r == jmem.of[c]
           n == Cardinality(Whole(c))
<1>1. IsFiniteSet(Whole(c)) /\ n \in Nat
  BY WholeFinite DEF Inv, MergeInv
<1>2. /\ Joined(StampedFor(c), Whole(c), r, jmem.seen) /\ r \in JoinRecord
  BY DEF Inv, JoinInv, JoinTyped, JoinMemory
<1> HIDE DEF r
<1>3. CASE r.aborted \/ r.finalized
  <2>1. r.received = 0
    BY <1>2, <1>3 DEF Joined
  <2> QED
    BY <1>1, <2>1 DEF r
<1>4. CASE ~r.aborted /\ ~r.finalized
  <2>1. /\ r.received = Len(r.rows) /\ IsInjective(r.rows) /\ r.rows \in Seq(OutRows)
        /\ ToSet(r.rows) = RowsIn(SeenIn(StampedFor(c), jmem.seen))
    BY <1>2, <1>4 DEF Joined, JoinRecord
  <2>2. \A m \in StampedFor(c) : m.row \in Whole(c)
    BY DEF Inv, MergeInv, Stamps
  <2>3. ToSet(r.rows) \subseteq Whole(c)
    BY <2>1, <2>2 DEF RowsIn, SeenIn
  <2>4. Cardinality(ToSet(r.rows)) <= n
    BY <1>1, <2>3, FS_Subset
  <2>5. Cardinality(ToSet(r.rows)) = Len(r.rows) /\ Len(r.rows) \in Nat
    BY <2>1, InjectiveLength, LenProperties
  <2> QED
    BY <1>1, <2>1, <2>4, <2>5 DEF r
<1> QED
  BY <1>3, <1>4

(* Held messages are in the queues and no table of either node holds what was not sent. *)
THEOREM MergeJoinTypeCorrect == UseCase2 /\ Spec => []TypeOK
<1>1. ASSUME Inv PROVE TypeOK
  <2>1. \A s \in M!Sides : mheld[s] \in 0 .. Len(qin[s])
    BY <1>1 DEF Inv, MergeInv, MergeQueue, Queue, Sides
  <2>2. jheld \in 0 .. Len(link) /\ jmem.seen \subseteq {m.id : m \in stamped}
    BY <1>1 DEF Inv, JoinInv, LinkOK, Queue, JoinSeen
  <2>3. mmem.seen \subseteq {m.id : m \in DataIn(input["left"]) \cup DataIn(input["right"])}
    BY <1>1 DEF Inv, MergeInv, SeenWasQueued
  <2>4. mmem.seq \in Nat /\ mckpt.seq <= mmem.seq
    BY <1>1, CounterAhead DEF Inv
  <2>5. \A c \in Clients : jmem.of[c].received \in 0 .. Cardinality(Whole(c))
    BY <1>1, ReceivedBounded
  <2> QED
    BY <2>1, <2>2, <2>3, <2>4, <2>5 DEF TypeOK
<1> QED
  BY <1>1, MergeJoinInvariant, PTL

(* get_responses is called on the client's whole merged result, each row of it once. *)
THEOREM AnswersWhole == UseCase2 /\ Spec => []AnswersWholeResult
<1>1. ASSUME Inv PROVE AnswersWholeResult
  <2> SUFFICES ASSUME jpc = "respond"
               PROVE  LET rows == jmem.of[jclient].rows IN
                      ToSet(rows) = Whole(jclient) /\ Len(rows) = Cardinality(Whole(jclient))
    BY DEF AnswersWholeResult
  <2> DEFINE r == jmem.of[jclient]
             S == StampedFor(jclient)
  <2>1. jclient \in Clients /\ r \in JoinRecord /\ Joined(S, Whole(jclient), r, jmem.seen)
    BY <1>1 DEF Inv, JoinInv, JoinTyped, JoinMemory
  <2>2. ~r.aborted /\ ~r.finalized /\ r.expected # J!Unknown
    BY <1>1 DEF Inv, JoinInv, Responding
  <2> HIDE DEF r
  <2>3. /\ RowsIn(S) = Whole(jclient) /\ \A m \in S : m.id \in jmem.seen
        /\ IsInjective(r.rows) /\ ToSet(r.rows) = RowsIn(SeenIn(S, jmem.seen))
        /\ r.rows \in Seq(OutRows)
    BY <2>1, <2>2 DEF Joined, JoinRecord
  <2>4. SeenIn(S, jmem.seen) = S
    BY <2>3 DEF SeenIn
  <2>5. ToSet(r.rows) = Whole(jclient)
    BY <2>3, <2>4
  <2>6. Cardinality(ToSet(r.rows)) = Len(r.rows)
    BY <2>3, InjectiveLength
  <2> QED
    BY <2>5, <2>6 DEF r
<1> QED
  BY <1>1, MergeJoinInvariant, PTL
=============================================================================
