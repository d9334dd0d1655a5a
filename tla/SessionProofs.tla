--------------------------- MODULE SessionProofs ---------------------------
(***************************************************************************)
(* One session of client and gateway: the responses arrive whole and in    *)
(* order, every shard's EOF announces what the shard holds, and the EOF of *)
(* the transactions finds on the shards every line that the split of the   *)
(* file gives to a worker, for every file, number of workers, shards, use  *)
(* cases and chunks, whatever the interleaving of the threads, with        *)
(* crashes of the client, shutdowns of the gateway and timeouts.           *)
(***************************************************************************)
EXTENDS Session, FiniteSetTheorems, SequenceTheorems, TLAPS

USE DEF joinVars

Msgs == ResponseMsgs \cup {HelloAckMsg}

(* A message is the HelloAck or a response. *)
LEMMA MsgTypes ==
  /\ \A m \in ResponseMsgs : m.type = "response" /\ m.uc \in UseCases /\ m.nth \in Nat /\ m # HelloAckMsg
  /\ HelloAckMsg.type = "helloAck"
<1>1. HelloAckMsg.type = "helloAck"
  BY DEF HelloAckMsg
<1>2. \A m \in ResponseMsgs : m.type = "response" /\ m.uc \in UseCases /\ m.nth \in Nat
  BY DEF ResponseMsgs
<1> QED
  BY <1>1, <1>2

-----------------------------------------------------------------------------
(* The chunks in a queue of messages *)

(* Taking the first message: if it is one of u it is u's smallest chunk. *)
LEMMA TakeFirst ==
  ASSUME NEW q \in Seq(Msgs), q # <<>>, NEW u, InOrder(q, u)
  PROVE  /\ Head(q) \in Msgs /\ Head(q) = q[1] /\ Tail(q) \in Seq(Msgs) /\ InOrder(Tail(q), u)
         /\ Head(q).type = "response" /\ Head(q).uc = u =>
              /\ Head(q).nth \in ChunksOf(q, u)
              /\ \A c \in ChunksOf(q, u) : c = Head(q).nth \/ Head(q).nth < c
              /\ ChunksOf(Tail(q), u) = ChunksOf(q, u) \ {Head(q).nth}
         /\ ~(Head(q).type = "response" /\ Head(q).uc = u) => ChunksOf(Tail(q), u) = ChunksOf(q, u)
<1>1. /\ Head(q) \in Msgs /\ Head(q) = q[1] /\ Tail(q) \in Seq(Msgs) /\ Len(Tail(q)) = Len(q) - 1
      /\ \A i \in 1 .. Len(Tail(q)) : Tail(q)[i] = q[i + 1]
      /\ Len(q) \in Nat /\ Len(q) >= 1 /\ DOMAIN q = 1 .. Len(q) /\ DOMAIN Tail(q) = 1 .. Len(Tail(q))
  BY HeadTailProperties, EmptySeq, LenProperties
<1> DEFINE h == Head(q)
           t == Tail(q)
<1> HIDE DEF h, t
<1>2. \A i \in DOMAIN t : i + 1 \in DOMAIN q /\ i + 1 # 1 /\ t[i] = q[i + 1] /\ i \in Nat
  BY <1>1 DEF t
<1>3. \A i \in DOMAIN q : i # 1 => i - 1 \in DOMAIN t /\ t[i - 1] = q[i]
  <2> SUFFICES ASSUME NEW i \in DOMAIN q, i # 1 PROVE i - 1 \in DOMAIN t /\ t[i - 1] = q[i]
    OBVIOUS
  <2>1. i - 1 \in 1 .. Len(t) /\ (i - 1) + 1 = i
    BY <1>1 DEF t
  <2> QED
    BY <1>1, <2>1 DEF t
<1>4. InOrder(t, u)
  <2> SUFFICES ASSUME NEW i \in ResponsesAt(t, u), NEW j \in ResponsesAt(t, u), i < j
               PROVE  t[i].nth < t[j].nth
    BY DEF InOrder
  <2>1. i + 1 \in ResponsesAt(q, u) /\ j + 1 \in ResponsesAt(q, u) /\ i + 1 < j + 1
    BY <1>2 DEF ResponsesAt
  <2> QED
    BY <1>2, <2>1 DEF InOrder, ResponsesAt
<1>5. ChunksOf(t, u) = {q[i].nth : i \in ResponsesAt(q, u) \ {1}}
  <2>1. ASSUME NEW i \in ResponsesAt(t, u) PROVE \E j \in ResponsesAt(q, u) \ {1} : q[j].nth = t[i].nth
    <3>1. i + 1 \in ResponsesAt(q, u) \ {1} /\ q[i + 1] = t[i]
      BY <1>2 DEF ResponsesAt
    <3> QED
      BY <3>1
  <2>2. ASSUME NEW i \in ResponsesAt(q, u) \ {1} PROVE \E j \in ResponsesAt(t, u) : t[j].nth = q[i].nth
    <3>1. i - 1 \in ResponsesAt(t, u) /\ t[i - 1] = q[i]
      BY <1>3 DEF ResponsesAt
    <3> QED
      BY <3>1
  <2> QED
    BY <2>1, <2>2 DEF ChunksOf
<1>6. ASSUME h.type = "response" /\ h.uc = u
      PROVE  /\ h.nth \in ChunksOf(q, u)
             /\ \A c \in ChunksOf(q, u) : c = h.nth \/ h.nth < c
             /\ ChunksOf(t, u) = ChunksOf(q, u) \ {h.nth}
  <2>1. 1 \in ResponsesAt(q, u) /\ q[1] = h
    BY <1>1, <1>6 DEF ResponsesAt, h
  <2>2. \A i \in ResponsesAt(q, u) \ {1} : h.nth < q[i].nth /\ q[i].nth \in Nat /\ h.nth \in Nat
    <3> SUFFICES ASSUME NEW i \in ResponsesAt(q, u) \ {1}
                 PROVE  h.nth < q[i].nth /\ q[i].nth \in Nat /\ h.nth \in Nat
      OBVIOUS
    <3>1. 1 < i /\ q[i] \in Msgs /\ h \in Msgs
      BY <1>1, ElementOfSeq DEF ResponsesAt, h
    <3>2. h.nth \in Nat /\ q[i].nth \in Nat
      BY <1>6, <3>1, MsgTypes DEF Msgs, ResponsesAt
    <3> QED
      BY <2>1, <3>1, <3>2 DEF InOrder
  <2>3. \A i \in ResponsesAt(q, u) \ {1} : q[i].nth # h.nth
    BY <2>2
  <2> QED
    BY <1>5, <2>1, <2>2, <2>3 DEF ChunksOf
<1>7. ASSUME ~(h.type = "response" /\ h.uc = u) PROVE ChunksOf(t, u) = ChunksOf(q, u)
  <2>1. 1 \notin ResponsesAt(q, u)
    BY <1>1, <1>7 DEF ResponsesAt, h
  <2> QED
    BY <1>5, <2>1 DEF ChunksOf
<1> QED
  BY <1>1, <1>4, <1>6, <1>7 DEF h, t

(* Putting one behind the others. *)
LEMMA PutLast ==
  ASSUME NEW q \in Seq(Msgs), NEW m \in Msgs, NEW u, InOrder(q, u)
  PROVE  /\ Append(q, m) \in Seq(Msgs)
         /\ m.type = "response" /\ m.uc = u =>
              /\ ChunksOf(Append(q, m), u) = ChunksOf(q, u) \cup {m.nth}
              /\ (\A c \in ChunksOf(q, u) : c < m.nth) => InOrder(Append(q, m), u)
         /\ ~(m.type = "response" /\ m.uc = u) =>
              ChunksOf(Append(q, m), u) = ChunksOf(q, u) /\ InOrder(Append(q, m), u)
<1> DEFINE a == Append(q, m)
           k == Len(q) + 1
<1>1. /\ a \in Seq(Msgs) /\ Len(a) = k /\ a[k] = m /\ \A i \in 1 .. Len(q) : a[i] = q[i]
      /\ Len(q) \in Nat /\ DOMAIN q = 1 .. Len(q) /\ DOMAIN a = 1 .. k
  BY AppendProperties, LenProperties
<1>2. /\ \A i \in DOMAIN q : i \in DOMAIN a /\ a[i] = q[i] /\ i < k /\ i # k
      /\ \A i \in DOMAIN a : i = k \/ i \in DOMAIN q
      /\ k \in DOMAIN a /\ \A i \in DOMAIN a : ~(k < i)
  BY <1>1
<1> HIDE DEF a, k
<1>3. CASE m.type = "response" /\ m.uc = u
  <2>1. ResponsesAt(a, u) = ResponsesAt(q, u) \cup {k}
    BY <1>1, <1>2, <1>3 DEF ResponsesAt
  <2>2. \A i \in ResponsesAt(q, u) : a[i] = q[i] /\ i \in DOMAIN q
    BY <1>2 DEF ResponsesAt
  <2>3. ChunksOf(a, u) = ChunksOf(q, u) \cup {m.nth}
    BY <1>1, <2>1, <2>2 DEF ChunksOf
  <2>4. ASSUME \A c \in ChunksOf(q, u) : c < m.nth PROVE InOrder(a, u)
    <3> SUFFICES ASSUME NEW i \in ResponsesAt(a, u), NEW j \in ResponsesAt(a, u), i < j
                 PROVE  a[i].nth < a[j].nth
      BY DEF InOrder
    <3>1. i # k /\ i \in ResponsesAt(q, u)
      BY <1>2, <2>1 DEF ResponsesAt
    <3>2. CASE j = k
      <4>1. q[i].nth \in ChunksOf(q, u)
        BY <3>1 DEF ChunksOf
      <4> QED
        BY <1>1, <2>2, <2>4, <3>1, <3>2, <4>1
    <3>3. CASE j # k
      BY <2>1, <2>2, <3>1, <3>3 DEF InOrder
    <3> QED
      BY <3>2, <3>3
  <2> QED
    BY <1>1, <1>3, <2>3, <2>4 DEF a
<1>4. CASE ~(m.type = "response" /\ m.uc = u)
  <2>1. ResponsesAt(a, u) = ResponsesAt(q, u)
    BY <1>1, <1>2, <1>4 DEF ResponsesAt
  <2>2. \A i \in ResponsesAt(q, u) : a[i] = q[i]
    BY <1>2 DEF ResponsesAt
  <2> QED
    BY <1>1, <1>4, <2>1, <2>2 DEF ChunksOf, InOrder, a
<1> QED
  BY <1>3, <1>4

(* Two queues, one behind the other. *)
LEMMA PutBehind ==
  ASSUME NEW q \in Seq(Msgs), NEW r \in Seq(Msgs), NEW u, InOrder(q, u), InOrder(r, u),
         \A c \in ChunksOf(q, u), d \in ChunksOf(r, u) : c < d
  PROVE  ChunksOf(q \o r, u) = ChunksOf(q, u) \cup ChunksOf(r, u) /\ InOrder(q \o r, u)
<1> DEFINE b == q \o r
           n == Len(q)
<1>1. /\ b \in Seq(Msgs) /\ Len(b) = n + Len(r) /\ n \in Nat /\ Len(r) \in Nat
      /\ \A i \in 1 .. n + Len(r) : b[i] = IF i <= n THEN q[i] ELSE r[i - n]
      /\ DOMAIN b = 1 .. n + Len(r) /\ DOMAIN q = 1 .. n /\ DOMAIN r = 1 .. Len(r)
  BY ConcatProperties, LenProperties
<1> HIDE DEF b, n
<1>2. \A i \in DOMAIN q : i \in DOMAIN b /\ b[i] = q[i] /\ i <= n
  BY <1>1
<1>3. \A i \in DOMAIN r : i + n \in DOMAIN b /\ b[i + n] = r[i] /\ i + n > n
  <2> SUFFICES ASSUME NEW i \in DOMAIN r PROVE i + n \in DOMAIN b /\ b[i + n] = r[i] /\ i + n > n
    OBVIOUS
  <2>1. i + n \in 1 .. n + Len(r) /\ ~(i + n <= n) /\ (i + n) - n = i
    BY <1>1
  <2>2. b[i + n] = r[(i + n) - n]
    BY <1>1, <2>1
  <2> QED
    BY <1>1, <2>1, <2>2
<1>4. \A i \in DOMAIN b : i \in DOMAIN q \/ (i - n \in DOMAIN r /\ b[i] = r[i - n] /\ i > n)
  BY <1>1
<1>5. ChunksOf(b, u) = ChunksOf(q, u) \cup ChunksOf(r, u)
  <2>1. ASSUME NEW i \in ResponsesAt(b, u) PROVE b[i].nth \in ChunksOf(q, u) \cup ChunksOf(r, u)
    <3>1. CASE i \in DOMAIN q
      <4>1. i \in ResponsesAt(q, u) /\ b[i] = q[i]
        BY <1>2, <3>1 DEF ResponsesAt
      <4> QED
        BY <4>1 DEF ChunksOf
    <3>2. CASE i \notin DOMAIN q
      <4>1. i - n \in ResponsesAt(r, u) /\ b[i] = r[i - n]
        BY <1>4, <3>2 DEF ResponsesAt
      <4> QED
        BY <4>1 DEF ChunksOf
    <3> QED
      BY <3>1, <3>2
  <2>2. ASSUME NEW i \in ResponsesAt(q, u) PROVE q[i].nth \in ChunksOf(b, u)
    <3>1. i \in ResponsesAt(b, u) /\ b[i] = q[i]
      BY <1>2 DEF ResponsesAt
    <3> QED
      BY <3>1 DEF ChunksOf
  <2>3. ASSUME NEW i \in ResponsesAt(r, u) PROVE r[i].nth \in ChunksOf(b, u)
    <3>1. i + n \in ResponsesAt(b, u) /\ b[i + n] = r[i]
      BY <1>3 DEF ResponsesAt
    <3> QED
      BY <3>1 DEF ChunksOf
  <2>4. /\ \A c : c \in ChunksOf(b, u) <=> \E i \in ResponsesAt(b, u) : c = b[i].nth
        /\ \A c : c \in ChunksOf(q, u) <=> \E i \in ResponsesAt(q, u) : c = q[i].nth
        /\ \A c : c \in ChunksOf(r, u) <=> \E i \in ResponsesAt(r, u) : c = r[i].nth
    BY DEF ChunksOf
  <2> QED
    BY <2>1, <2>2, <2>3, <2>4
<1>6. InOrder(b, u)
  <2> SUFFICES ASSUME NEW i \in ResponsesAt(b, u), NEW j \in ResponsesAt(b, u), i < j
               PROVE  b[i].nth < b[j].nth
    BY DEF InOrder
  <2>1. i \in DOMAIN b /\ j \in DOMAIN b
    BY DEF ResponsesAt
  <2>2. CASE i \in DOMAIN q /\ j \in DOMAIN q
    BY <1>2, <2>2 DEF InOrder, ResponsesAt
  <2>3. CASE i \in DOMAIN q /\ j \notin DOMAIN q
    <3>1. i \in ResponsesAt(q, u) /\ b[i] = q[i] /\ j - n \in ResponsesAt(r, u) /\ b[j] = r[j - n]
      BY <1>2, <1>4, <2>3 DEF ResponsesAt
    <3>2. q[i].nth \in ChunksOf(q, u) /\ r[j - n].nth \in ChunksOf(r, u)
      BY <3>1 DEF ChunksOf
    <3> QED
      BY <3>1, <3>2
  <2>4. CASE i \notin DOMAIN q
    <3>1. i - n \in ResponsesAt(r, u) /\ b[i] = r[i - n] /\ i > n
      BY <1>4, <2>4 DEF ResponsesAt
    <3>2. j \notin DOMAIN q
      BY <1>1, <2>1, <3>1
    <3>3. j - n \in ResponsesAt(r, u) /\ b[j] = r[j - n] /\ i - n < j - n
      BY <1>1, <1>4, <2>1, <3>1, <3>2 DEF ResponsesAt
    <3> QED
      BY <3>1, <3>3 DEF InOrder
  <2> QED
    BY <2>2, <2>3, <2>4
<1> QED
  BY <1>5, <1>6 DEF b

-----------------------------------------------------------------------------
(* The handshake *)

(* A use case reads a stream, so it cannot answer before anything is sent. *)
LEMMA NothingYet ==
  ASSUME shard = DeclaredShards, NEW u \in UseCases
  PROVE  ~\A s \in Needs[u] : HasEOF(s)
<1>0. Needs[u] \subseteq Streams /\ Needs[u] # {}
  BY SessionAssumption
<1>1. PICK s \in Streams : s \in Needs[u]
  BY <1>0
<1>2. 1 \in 1 .. Shards[s] /\ shard[s][1] = <<>>
  BY SessionAssumption, <1>1 DEF DeclaredShards
<1>3. ~HasEOF(s)
  BY <1>2 DEF HasEOF
<1> QED
  BY <1>1, <1>3

(* The client's steps keep the order of the handshake. *)
LEMMA ClientHandshake ==
  ASSUME ResponseInv, ClientNext
  PROVE  HandshakeOK'
<1>0. HandshakeOK
  BY DEF ResponseInv
<1>1. CASE Connect
  BY <1>0, <1>1 DEF HandshakeOK, Connect
<1>2. CASE ConnectGivesUp
  BY <1>0, <1>2 DEF HandshakeOK, ConnectGivesUp, gateVars
<1>3. CASE SendHello
  BY <1>0, <1>3 DEF HandshakeOK, SendHello, gateVars
<1>4. CASE RecvHelloAck
  BY <1>0, <1>4 DEF HandshakeOK, RecvHelloAck, gateVars
<1>5. CASE \E w \in 1..Workers : WorkerPut(w)
  BY <1>0, <1>5 DEF HandshakeOK, WorkerPut, gateVars
<1>6. CASE SendTransactions
  BY <1>0, <1>6 DEF HandshakeOK, SendTransactions, gateVars
<1>7. CASE SendTransactionsEOF
  BY <1>0, <1>7 DEF HandshakeOK, SendTransactionsEOF, gateVars
<1>8. CASE SendAccounts
  BY <1>0, <1>8 DEF HandshakeOK, SendAccounts, gateVars
<1>9. CASE RecvResponse
  BY <1>0, <1>9 DEF HandshakeOK, RecvResponse, gateVars
<1>10. CASE ConnectionEnded
  BY <1>0, <1>10 DEF HandshakeOK, ConnectionEnded, gateVars
<1> QED
  BY <1>1, <1>2, <1>3, <1>4, <1>5, <1>6, <1>7, <1>8, <1>9, <1>10 DEF ClientNext

(* The reader thread's steps keep it. *)
LEMMA ReaderHandshake ==
  ASSUME ResponseInv, ReaderNext
  PROVE  HandshakeOK'
<1>0. HandshakeOK
  BY DEF ResponseInv
<1>1. CASE RecvHello
  BY <1>0, <1>1 DEF HandshakeOK, RecvHello, Recv, Register, clientVars
<1>2. CASE SendHelloAck
  <2>1. /\ reader = "helloAck" /\ reader' = "trans" /\ responder' = "starting" /\ responder = "none"
        /\ g2c = <<>> /\ client' = client /\ client \notin {"start", "connected", "trans", "accs", "wait", "done"}
        /\ g2c' = IF Gone THEN g2c ELSE Append(g2c, HelloAckMsg)
    BY <1>0, <1>2 DEF HandshakeOK, SendHelloAck, Send, HelloAckMsg, clientVars
  <2>2. client = "ack" => g2c' # <<>> /\ g2c'[1] = HelloAckMsg
    BY <2>1 DEF Gone
  <2> QED
    BY <1>0, <2>1, <2>2 DEF HandshakeOK
<1>3. CASE HandshakeFails
  BY <1>0, <1>3 DEF HandshakeOK, HandshakeFails, Teardown, Unregister, StopConsuming, Close, clientVars
<1>4. CASE ReaderFails
  BY <1>0, <1>4 DEF HandshakeOK, ReaderFails, Streams, clientVars
<1>5. CASE Abort
  BY <1>0, <1>5 DEF HandshakeOK, Abort, Teardown, Unregister, StopConsuming, Close, Streams, clientVars
<1>6. CASE \E s \in Streams : Forward(s)
  BY <1>0, <1>6 DEF HandshakeOK, Forward, Recv, Streams, clientVars
<1>7. CASE \E s \in Streams : ForwardEOF(s)
  BY <1>0, <1>7 DEF HandshakeOK, ForwardEOF, Recv, Streams, clientVars
<1> QED
  BY <1>1, <1>2, <1>3, <1>4, <1>5, <1>6, <1>7 DEF ReaderNext

(* The response thread, the pipeline and the faults keep it. *)
LEMMA OtherHandshake ==
  ASSUME ResponseInv, ResponderNext \/ JoinNext \/ ClientLeaves \/ Shutdown
  PROVE  HandshakeOK'
<1>0. HandshakeOK /\ WireOK
  BY DEF ResponseInv
<1>1. CASE StartConsuming
  BY <1>0, <1>1 DEF HandshakeOK, StartConsuming, clientVars
<1>2. CASE DeliverResponse
  <2>1. /\ responder = "consuming" /\ UNCHANGED <<client, responder, reader, closed, shard, emitted, c2g>>
        /\ responses # <<>> /\ g2c' = IF Gone THEN g2c ELSE Append(g2c, Head(responses))
    BY <1>2 DEF DeliverResponse, Send, clientVars, gateVars
  <2>2. ASSUME client = "ack" PROVE g2c' # <<>> /\ g2c'[1] = HelloAckMsg
    <3>1. g2c # <<>> /\ g2c[1] = HelloAckMsg /\ g2c' = Append(g2c, Head(responses))
      BY <1>0, <2>1, <2>2 DEF HandshakeOK, Gone
    <3>2. g2c \in Seq(Msgs) /\ Head(responses) \in Msgs
      BY <1>0, <2>1, HeadTailProperties DEF WireOK, Msgs
    <3>3. Len(g2c) \in Nat \ {0}
      BY <3>1, <3>2, EmptySeq
    <3>4. Len(g2c') = Len(g2c) + 1 /\ g2c'[1] = g2c[1] /\ g2c' \in Seq(Msgs)
      BY <3>1, <3>2, <3>3, AppendProperties
    <3> QED
      BY <3>1, <3>3, <3>4, EmptySeq
  <2> QED
    BY <1>0, <2>1, <2>2 DEF HandshakeOK
<1>3. CASE DeliveryFails
  BY <1>0, <1>3 DEF HandshakeOK, DeliveryFails, Teardown, Unregister, StopConsuming, Close, clientVars
<1>4. CASE CloseResponses
  BY <1>0, <1>4 DEF HandshakeOK, CloseResponses, clientVars
<1>5. CASE JoinNext
  <2>1. PICK u \in UseCases : Respond(u) \/ Finalize(u) \/ JoinCrash(u)
    BY <1>5 DEF JoinNext
  <2>2. CASE Respond(u)
    <3>1. responder # "none"
      BY <1>0, <2>2, NothingYet DEF HandshakeOK, Respond
    <3>2. UNCHANGED <<client, responder, reader, closed, shard, g2c, c2g>>
      BY <2>2 DEF Respond, clientVars, gateVars
    <3> QED
      BY <1>0, <3>1, <3>2 DEF HandshakeOK
  <2>3. CASE Finalize(u) \/ JoinCrash(u)
    BY <1>0, <2>3 DEF HandshakeOK, Finalize, JoinCrash, clientVars, gateVars
  <2> QED
    BY <2>1, <2>2, <2>3
<1>6. CASE ClientLeaves
  BY <1>0, <1>6 DEF HandshakeOK, ClientLeaves, gateVars
<1>7. CASE Shutdown
  BY <1>0, <1>7 DEF HandshakeOK, Shutdown, Unregister, StopConsuming, Close, clientVars
<1> QED
  BY <1>1, <1>2, <1>3, <1>4, <1>5, <1>6, <1>7 DEF ResponderNext

-----------------------------------------------------------------------------
(* The way of a response *)

(* Steps that touch neither the socket to the client, nor the queue, nor the file. *)
QuietNow ==
  /\ UNCHANGED <<g2c, responses, written, emitted>> /\ (closed => closed') /\ (Gone => Gone')
  /\ client' = "done" => client = "done"
  /\ client = "ack" => client' = "ack" \/ g2c = <<>>

(* They are the sends of the client, the reader's steps but for the          *)
(* HelloAck, and the ends of the session.                                    *)
LEMMA QuietSteps ==
  ASSUME HandshakeOK,
         \/ Connect \/ ConnectGivesUp \/ SendHello \/ (\E w \in 1..Workers : WorkerPut(w))
         \/ SendTransactions \/ SendTransactionsEOF \/ SendAccounts \/ ConnectionEnded
         \/ RecvHello \/ HandshakeFails \/ ReaderFails \/ Abort
         \/ (\E s \in Streams : Forward(s) \/ ForwardEOF(s))
         \/ StartConsuming \/ DeliveryFails \/ Shutdown
         \/ (\E u \in UseCases : Finalize(u) \/ JoinCrash(u))
  PROVE  QuietNow
<1> USE DEF QuietNow, Gone, clientVars, gateVars
<1>1. CASE Connect \/ ConnectGivesUp \/ SendHello \/ (\E w \in 1..Workers : WorkerPut(w))
  BY <1>1 DEF Connect, ConnectGivesUp, SendHello, WorkerPut, HandshakeOK
<1>2. CASE SendTransactions \/ SendTransactionsEOF \/ SendAccounts
  BY <1>2 DEF SendTransactions, SendTransactionsEOF, SendAccounts
<1>3. CASE ConnectionEnded
  BY <1>3 DEF ConnectionEnded
<1>4. CASE RecvHello \/ ReaderFails
  BY <1>4 DEF RecvHello, ReaderFails
<1>7. CASE HandshakeFails
  BY <1>7 DEF HandshakeFails, Teardown, Close
<1>8. CASE Abort
  <2>1. UNCHANGED <<g2c, responses, written, emitted, client>>
    BY <1>8 DEF Abort
  <2>2. closed' = closed \/ closed' = TRUE
    BY <1>8 DEF Abort, Teardown, Close
  <2> QED
    BY <2>1, <2>2
<1>5. CASE \E s \in Streams : Forward(s) \/ ForwardEOF(s)
  <2>1. UNCHANGED <<g2c, responses, written, emitted, client, closed>>
    <3>1. PICK s \in Streams : Forward(s) \/ ForwardEOF(s)
      BY <1>5
    <3>2. CASE Forward(s)
      BY <3>2 DEF Forward
    <3>3. CASE ForwardEOF(s)
      BY <3>3 DEF ForwardEOF
    <3> QED
      BY <3>1, <3>2, <3>3
  <2> QED
    BY <2>1
<1>6. CASE StartConsuming \/ DeliveryFails \/ Shutdown
  <2>1. UNCHANGED <<g2c, responses, written, emitted, client>>
    BY <1>6 DEF StartConsuming, DeliveryFails, Shutdown
  <2>2. closed' = closed \/ closed' = TRUE
    BY <1>6 DEF StartConsuming, DeliveryFails, Shutdown, Teardown, Close
  <2> QED
    BY <2>1, <2>2
<1>9. CASE \E u \in UseCases : Finalize(u) \/ JoinCrash(u)
  BY <1>9 DEF Finalize, JoinCrash
<1> QED
  BY <1>1, <1>2, <1>3, <1>4, <1>5, <1>6, <1>7, <1>8, <1>9

(* They leave the chunks where they are. *)
LEMMA QuietChunks ==
  ASSUME ResponseInv, QuietNow
  PROVE  WireOK' /\ \A u \in UseCases : ChunksOK(u)'
<1>1. WireOK'
  <2>1. \A i \in DOMAIN g2c : g2c # <<>>
    OBVIOUS
  <2> QED
    BY <2>1 DEF ResponseInv, WireOK, QuietNow
<1>2. ASSUME NEW u \in UseCases PROVE ChunksOK(u)'
  <2>1. ChunksOK(u)
    BY DEF ResponseInv
  <2>2. /\ g2c' = g2c /\ responses' = responses /\ written' = written /\ emitted' = emitted
        /\ (~closed' => ~closed) /\ (~Gone' => ~Gone)
        /\ client' = "done" => client = "done"
    BY DEF QuietNow
  <2> QED
    BY <2>1, <2>2 DEF ChunksOK
<1> QED
  BY <1>1, <1>2

(* Moving the first of several queues' chunks along: facts about numbers. *)
LEMMA NextChunk ==
  ASSUME NEW lo \in Nat, NEW hi \in Nat, NEW c \in lo + 1 .. hi,
         \A d \in lo + 1 .. hi : d = c \/ c < d
  PROVE  c = lo + 1 /\ (lo + 1 .. hi) \ {c} = lo + 2 .. hi /\ lo + 1 <= hi
<1>1. lo + 1 \in lo + 1 .. hi
  OBVIOUS
<1>2. c = lo + 1
  BY <1>1
<1> QED
  BY <1>2

(* Numbers of messages, published and written. *)
LEMMA Lengths ==
  ASSUME ResponseInv, NEW u \in UseCases
  PROVE  Len(emitted[u]) \in Nat /\ Len(written[u]) \in Nat /\ ChunksOK(u) /\ PublishedOK(u)
<1>1. emitted[u] \in Seq(1..Chunks) /\ written[u] \in Seq(Nat) /\ ChunksOK(u) /\ PublishedOK(u)
  BY DEF ResponseInv, PublishedInv, ChunksOK, PublishedOK
<1> QED
  BY <1>1, LenProperties

(* The HelloAck is sent to a client that waits for nothing else. *)
LEMMA SendHelloAckChunks ==
  ASSUME ResponseInv, SendHelloAck
  PROVE  WireOK' /\ \A u \in UseCases : ChunksOK(u)'
<1>0. /\ HandshakeOK /\ WireOK /\ reader = "helloAck" /\ responder = "none" /\ g2c = <<>>
      /\ client \notin {"start", "connected", "trans", "accs", "wait", "done"}
      /\ UNCHANGED <<client, responses, written, emitted, closed>>
      /\ g2c' = IF Gone THEN g2c ELSE Append(g2c, HelloAckMsg)
  BY DEF ResponseInv, HandshakeOK, SendHelloAck, Send, HelloAckMsg, clientVars
<1>1. g2c \in Seq(Msgs) /\ HelloAckMsg \in Msgs
  BY <1>0 DEF WireOK, Msgs
<1>2. WireOK'
  <2>1. CASE Gone
    BY <1>0, <2>1 DEF WireOK
  <2>2. CASE ~Gone
    <3>1. g2c' = Append(<<>>, HelloAckMsg) /\ g2c' \in Seq(Msgs) /\ Len(g2c') = 1
      BY <1>0, <1>1, <2>2, AppendProperties, EmptySeq
    <3>2. DOMAIN g2c' = 1 .. 1
      BY <3>1, LenProperties
    <3>3. client = "ack"
      BY <1>0, <2>2 DEF Gone, HandshakeOK
    <3> QED
      BY <1>0, <3>1, <3>2, <3>3 DEF WireOK, Msgs
  <2> QED
    BY <2>1, <2>2
<1>3. ASSUME NEW u \in UseCases PROVE ChunksOK(u)'
  <2>1. ChunksOK(u) /\ HelloAckMsg.type # "response"
    BY MsgTypes DEF ResponseInv
  <2>2. ChunksOf(g2c', u) = ChunksOf(g2c, u) /\ InOrder(g2c', u)
    BY <1>0, <1>1, <2>1, PutLast DEF ChunksOK
  <2> QED
    BY <1>0, <2>1, <2>2 DEF ChunksOK, Gone
<1> QED
  BY <1>2, <1>3

(* The client takes the HelloAck, which is the first message on the wire. *)
LEMMA RecvHelloAckChunks ==
  ASSUME ResponseInv, RecvHelloAck
  PROVE  WireOK' /\ \A u \in UseCases : ChunksOK(u)'
<1>0. /\ HandshakeOK /\ WireOK /\ client = "ack" /\ client' = "trans" /\ g2c # <<>> /\ g2c' = Tail(g2c)
      /\ UNCHANGED <<responses, written, emitted, closed>> /\ g2c \in Seq(Msgs)
  BY DEF ResponseInv, RecvHelloAck, gateVars, WireOK, Msgs
<1>1. g2c[1] = HelloAckMsg
  BY <1>0 DEF HandshakeOK
<1>2. /\ Head(g2c) = g2c[1] /\ g2c' \in Seq(Msgs) /\ Len(g2c') = Len(g2c) - 1
      /\ \A i \in 1 .. Len(g2c') : g2c'[i] = g2c[i + 1]
      /\ Len(g2c) \in Nat /\ DOMAIN g2c = 1 .. Len(g2c) /\ DOMAIN g2c' = 1 .. Len(g2c')
  BY <1>0, HeadTailProperties, LenProperties
<1>3. WireOK'
  <2>1. ASSUME NEW i \in DOMAIN g2c' PROVE g2c'[i] # HelloAckMsg
    <3>1. i + 1 \in DOMAIN g2c /\ i + 1 # 1 /\ g2c'[i] = g2c[i + 1]
      BY <1>2
    <3> QED
      BY <1>0, <3>1 DEF WireOK
  <2> QED
    BY <1>0, <1>2, <2>1 DEF WireOK, Msgs
<1>4. ASSUME NEW u \in UseCases PROVE ChunksOK(u)'
  <2>1. ChunksOK(u) /\ Head(g2c).type # "response"
    BY <1>1, <1>2, MsgTypes DEF ResponseInv
  <2>2. ChunksOf(g2c', u) = ChunksOf(g2c, u) /\ InOrder(g2c', u)
    BY <1>0, <2>1, TakeFirst DEF ChunksOK
  <2> QED
    BY <1>0, <2>1, <2>2 DEF ChunksOK, Gone
<1> QED
  BY <1>3, <1>4

(* A file of the chunks 1 .. k and the next chunk is one of 1 .. k + 1. *)
LEMMA CountedAppend ==
  ASSUME NEW w \in Seq(Nat), Counted(w)
  PROVE  LET v == Append(w, Len(w) + 1) IN
         v \in Seq(Nat) /\ Len(v) = Len(w) + 1 /\ Counted(v)
<1> DEFINE v == Append(w, Len(w) + 1)
<1>1. Len(w) \in Nat /\ Len(w) + 1 \in Nat /\ \A i \in 1 .. Len(w) : w[i] = i
  BY LenProperties DEF Counted
<1>2. /\ v \in Seq(Nat) /\ Len(v) = Len(w) + 1 /\ v[Len(w) + 1] = Len(w) + 1
      /\ \A i \in 1 .. Len(w) : v[i] = w[i]
  BY <1>1, AppendProperties
<1>3. v = [i \in 1 .. Len(v) |-> v[i]]
  BY <1>2, LenProperties
<1> HIDE DEF v
<1>4. \A i \in 1 .. Len(v) : v[i] = i
  BY <1>1, <1>2
<1>5. Counted(v)
  BY <1>3, <1>4 DEF Counted
<1> QED
  BY <1>2, <1>5 DEF v

(* The client appends the next chunk of its use case. *)
LEMMA RecvResponseChunks ==
  ASSUME ResponseInv, RecvResponse
  PROVE  WireOK' /\ \A u \in UseCases : ChunksOK(u)'
<1> DEFINE h == Head(g2c)
<1>0. /\ HandshakeOK /\ WireOK /\ client = "wait" /\ g2c # <<>> /\ g2c' = Tail(g2c)
      /\ UNCHANGED <<responses, emitted, closed>> /\ g2c \in Seq(Msgs)
      /\ written' = [written EXCEPT ![h.uc] = Append(written[h.uc], h.nth)]
      /\ client' = IF Completed(written') = UseCases THEN "done" ELSE client
  BY DEF ResponseInv, RecvResponse, gateVars, WireOK, Msgs
<1>1. /\ h \in Msgs /\ h = g2c[1] /\ g2c' \in Seq(Msgs) /\ Len(g2c') = Len(g2c) - 1
      /\ \A i \in 1 .. Len(g2c') : g2c'[i] = g2c[i + 1]
      /\ Len(g2c) \in Nat /\ Len(g2c) >= 1
      /\ DOMAIN g2c = 1 .. Len(g2c) /\ DOMAIN g2c' = 1 .. Len(g2c')
  BY <1>0, HeadTailProperties, LenProperties, EmptySeq
<1>2. \A i \in DOMAIN g2c : g2c[i] # HelloAckMsg
  BY <1>0 DEF WireOK
<1>3. WireOK'
  <2>1. ASSUME NEW i \in DOMAIN g2c' PROVE g2c'[i] # HelloAckMsg
    <3>1. i + 1 \in DOMAIN g2c /\ g2c'[i] = g2c[i + 1]
      BY <1>1
    <3> QED
      BY <1>2, <3>1
  <2> QED
    BY <1>0, <1>1, <2>1 DEF WireOK, Msgs
<1>4. h \in ResponseMsgs /\ h.type = "response" /\ h.uc \in UseCases
  BY <1>1, <1>2, MsgTypes DEF Msgs
<1> HIDE DEF h
<1>5. ASSUME NEW u \in UseCases
      PROVE  /\ written'[u] \in Seq(Nat) /\ Counted(written'[u])
             /\ InOrder(g2c', u) /\ Len(written'[u]) <= Len(emitted[u])
             /\ \E n \in Len(written'[u]) .. Len(emitted[u]) :
                  /\ ChunksOf(g2c', u) = Len(written'[u]) + 1 .. n
                  /\ ~closed => ChunksOf(responses, u) = n + 1 .. Len(emitted[u])
  <2>1. ChunksOK(u) /\ Len(emitted[u]) \in Nat /\ Len(written[u]) \in Nat /\ ~Gone
    BY <1>0, Lengths DEF Gone
  <2>2. PICK n \in Len(written[u]) .. Len(emitted[u]) :
          /\ ChunksOf(g2c, u) = Len(written[u]) + 1 .. n
          /\ ~closed => ChunksOf(responses, u) = n + 1 .. Len(emitted[u])
    BY <2>1 DEF ChunksOK
  <2>3. /\ InOrder(g2c, u) /\ written[u] \in Seq(Nat) /\ Counted(written[u])
        /\ Len(written[u]) <= Len(emitted[u])
    BY <2>1 DEF ChunksOK
  <2>4. Len(written[u]) \in Nat /\ n \in Nat /\ Len(emitted[u]) \in Nat
    BY <2>1, <2>2
  <2>5. CASE u # h.uc
    <3>1. written'[u] = written[u]
      BY <1>0, <2>5
    <3>2. ChunksOf(g2c', u) = ChunksOf(g2c, u) /\ InOrder(g2c', u)
      BY <1>0, <2>3, <2>5, TakeFirst DEF h
    <3> QED
      BY <2>2, <2>3, <3>1, <3>2
  <2>6. CASE u = h.uc
    <3>1. /\ h.nth \in ChunksOf(g2c, u) /\ \A c \in ChunksOf(g2c, u) : c = h.nth \/ h.nth < c
          /\ ChunksOf(g2c', u) = ChunksOf(g2c, u) \ {h.nth} /\ InOrder(g2c', u)
      BY <1>0, <1>4, <2>3, <2>6, TakeFirst DEF h
    <3>2. /\ h.nth = Len(written[u]) + 1 /\ Len(written[u]) + 1 <= n
          /\ ChunksOf(g2c', u) = Len(written[u]) + 2 .. n
      BY <2>2, <2>4, <3>1, NextChunk
    <3>3. written'[u] = Append(written[u], Len(written[u]) + 1)
      <4>1. u \in DOMAIN written
        BY <1>0, <2>6 DEF WireOK
      <4> QED
        BY <1>0, <2>6, <3>2, <4>1
    <3>4. written'[u] \in Seq(Nat) /\ Len(written'[u]) = Len(written[u]) + 1 /\ Counted(written'[u])
      BY <2>3, <3>3, CountedAppend
    <3>5. /\ n \in Len(written'[u]) .. Len(emitted[u]) /\ ChunksOf(g2c', u) = Len(written'[u]) + 1 .. n
          /\ Len(written'[u]) <= Len(emitted[u])
      BY <2>2, <2>4, <3>2, <3>4
    <3> QED
      BY <2>2, <2>3, <3>1, <3>4, <3>5
  <2> QED
    BY <2>5, <2>6
<1>6. ASSUME NEW u \in UseCases, client' = "done"
      PROVE  \E i \in 1 .. Len(written'[u]) : emitted[u][i] = Chunks
  <2>1. Completed(written') = UseCases
    BY <1>0, <1>6
  <2>2. PICK i \in DOMAIN written'[u] : emitted[u][written'[u][i]] = Chunks
    BY <2>1 DEF Completed
  <2>3. DOMAIN written'[u] = 1 .. Len(written'[u]) /\ written'[u][i] = i
    BY <1>5, <2>2, LenProperties DEF Counted
  <2> QED
    BY <2>2, <2>3
<1>7. ASSUME NEW u \in UseCases PROVE ChunksOK(u)'
  <2>1. InOrder(responses, u) /\ ChunksOf(responses, u) \subseteq 1 .. Len(emitted[u])
    BY DEF ResponseInv, ChunksOK
  <2> QED
    BY <1>0, <1>5, <1>6, <2>1 DEF ChunksOK
<1> QED
  BY <1>3, <1>7

(* A client that leaves takes what is on the wire with it. *)
LEMMA ClientLeavesChunks ==
  ASSUME ResponseInv, ClientLeaves
  PROVE  WireOK' /\ \A u \in UseCases : ChunksOK(u)'
<1>0. /\ client' = "left" /\ g2c' = <<>> /\ UNCHANGED <<responses, written, emitted, closed>>
  BY DEF ClientLeaves, gateVars
<1>1. WireOK'
  BY <1>0, EmptySeq DEF ResponseInv, WireOK
<1>2. ASSUME NEW u \in UseCases PROVE ChunksOK(u)'
  <2>1. ChunksOK(u)
    BY DEF ResponseInv
  <2>2. ResponsesAt(g2c', u) = {}
    BY <1>0 DEF ResponsesAt
  <2>3. InOrder(g2c', u) /\ Gone'
    BY <1>0, <2>2 DEF InOrder, Gone
  <2> QED
    BY <1>0, <2>1, <2>3 DEF ChunksOK
<1> QED
  BY <1>1, <1>2

(* The response queue is deleted after the socket was closed. *)
LEMMA CloseResponsesChunks ==
  ASSUME ResponseInv, CloseResponses
  PROVE  WireOK' /\ \A u \in UseCases : ChunksOK(u)'
<1>0. /\ closed /\ closed' = closed /\ responses' = <<>> /\ UNCHANGED <<client, g2c, written, emitted>>
  BY DEF CloseResponses, clientVars, ResponseInv, HandshakeOK
<1>1. WireOK'
  BY <1>0, EmptySeq DEF ResponseInv, WireOK
<1>2. ASSUME NEW u \in UseCases PROVE ChunksOK(u)'
  <2>1. ChunksOK(u)
    BY DEF ResponseInv
  <2>2. ResponsesAt(responses', u) = {}
    BY <1>0 DEF ResponsesAt
  <2>3. ChunksOf(responses', u) = {} /\ InOrder(responses', u)
    BY <2>2 DEF ChunksOf, InOrder
  <2> QED
    BY <1>0, <2>1, <2>3 DEF ChunksOK, Gone
<1> QED
  BY <1>1, <1>2

(* Every run of the join begins with the first chunk, and sends what comes   *)
(* before a chunk before it.                                                 *)
LEMMA RespondPublishes ==
  ASSUME ResponseInv, NEW v \in UseCases, Respond(v)
  PROVE  PublishedInv'
<1>8. DOMAIN next' = UseCases /\ DOMAIN restarts' = UseCases
  BY DEF Respond, ResponseInv, PublishedInv
<1> SUFFICES ASSUME NEW u \in UseCases PROVE PublishedOK(u)'
  BY <1>8 DEF PublishedInv
<1> DEFINE e == emitted[v]
           f == Append(e, next[v])
           k == Len(e) + 1
<1>0. /\ next[v] <= Chunks /\ emitted' = [emitted EXCEPT ![v] = f]
      /\ next' = [next EXCEPT ![v] = next[v] + 1] /\ restarts' = restarts
      /\ DOMAIN emitted = UseCases /\ DOMAIN next = UseCases
  BY DEF Respond, ResponseInv, WireOK, PublishedInv
<1>1. CASE u # v
  <2>1. emitted'[u] = emitted[u] /\ next'[u] = next[u] /\ PublishedOK(u)
    BY <1>0, <1>1, Lengths
  <2> QED
    BY <1>0, <2>1 DEF PublishedOK
<1>2. CASE u = v
  <2>1. /\ PublishedOK(v) /\ e \in Seq(1..Chunks) /\ Len(e) \in Nat /\ next[v] \in 1 .. Chunks
        /\ emitted'[v] = f /\ next'[v] = next[v] + 1 /\ restarts[v] \in Nat /\ Chunks \in Nat
    BY <1>0, Lengths, SessionAssumption DEF PublishedOK
  <2>2. /\ f \in Seq(1..Chunks) /\ Len(f) = k /\ f[k] = next[v]
        /\ \A i \in 1 .. Len(e) : f[i] = e[i]
    BY <2>1, AppendProperties
  <2>6. k = Len(e) + 1 /\ \A i \in 1 .. k : i \in 1 .. Len(e) \/ i = k
    BY <2>1
  <2> HIDE DEF e, f, k
  <2>3. ASSUME NEW i \in 1 .. k, NEW c \in 1 .. f[i] PROVE \E j \in 1 .. i : f[j] = c
    <3>1. CASE i <= Len(e)
      <4>1. i \in 1 .. Len(e) /\ c \in 1 .. e[i]
        BY <2>1, <2>2, <2>3, <2>6, <3>1
      <4>2. PICK j \in 1 .. i : e[j] = c
        BY <2>1, <4>1 DEF PublishedOK, e
      <4>3. j \in 1 .. Len(e)
        BY <2>1, <4>1, <4>2
      <4> QED
        BY <2>2, <4>2, <4>3
    <3>2. CASE i = k /\ c = next[v]
      BY <2>1, <2>2, <2>6, <3>2
    <3>3. CASE i = k /\ c # next[v]
      <4>1. c \in 1 .. next[v] - 1 /\ next[v] > 1
        BY <2>1, <2>2, <2>3, <3>3
      <4>2. Len(e) > 0 /\ e[Len(e)] = next[v] - 1
        BY <2>1, <4>1 DEF PublishedOK, e
      <4>3. Len(e) \in 1 .. Len(e) /\ c \in 1 .. e[Len(e)]
        BY <2>1, <4>1, <4>2
      <4>4. PICK j \in 1 .. Len(e) : e[j] = c
        BY <2>1, <4>3 DEF PublishedOK, e
      <4>5. j \in 1 .. i
        BY <2>1, <2>6, <3>3, <4>4
      <4> QED
        BY <2>2, <4>4, <4>5
    <3>4. i <= Len(e) \/ i = k
      BY <2>1, <2>3, <2>6
    <3> QED
      BY <3>1, <3>2, <3>3, <3>4
  <2>4. ASSUME restarts[v] = 0 PROVE Counted(f) /\ Len(f) = next'[v] - 1
    <3>1. Counted(e) /\ Len(e) = next[v] - 1
      BY <2>1, <2>4 DEF PublishedOK, e
    <3>2. \A i \in 1 .. Len(e) : e[i] = i
      BY <3>1 DEF Counted
    <3>3. \A i \in 1 .. Len(f) : f[i] = i
      <4>1. f[k] = k
        BY <2>1, <2>2, <2>6, <3>1
      <4> QED
        BY <2>2, <2>6, <3>2, <4>1
    <3>4. f = [i \in 1 .. Len(f) |-> f[i]]
      BY <2>2, LenProperties
    <3>5. Counted(f)
      BY <3>3, <3>4 DEF Counted
    <3> QED
      BY <2>1, <2>2, <2>6, <3>1, <3>5
  <2>5. next'[v] \in 1 .. Chunks + 1 /\ Len(f) > 0 /\ f[Len(f)] = next'[v] - 1
    BY <2>1, <2>2, <2>6
  <2> QED
    <3>1. \A i \in 1 .. Len(f) : \A c \in 1 .. f[i] : \E j \in 1 .. i : f[j] = c
      BY <2>2, <2>3
    <3>2. emitted'[u] = f /\ next'[u] = next'[v] /\ restarts'[u] = restarts[v] /\ restarts[v] \in Nat
      BY <1>0, <1>2, <2>1
    <3> QED
      BY <2>2, <2>4, <2>5, <3>1, <3>2 DEF PublishedOK
<1> QED
  BY <1>1, <1>2

(* A crash lets the join begin again; nothing else touches what it published. *)
LEMMA OthersPublish ==
  ASSUME ResponseInv, NEW v \in UseCases, JoinCrash(v)
  PROVE  PublishedInv'
<1>8. DOMAIN next' = UseCases /\ DOMAIN restarts' = UseCases
  BY DEF JoinCrash, ResponseInv, PublishedInv
<1> SUFFICES ASSUME NEW u \in UseCases PROVE PublishedOK(u)'
  BY <1>8 DEF PublishedInv
<1>1. /\ restarts' = [restarts EXCEPT ![v] = restarts[v] + 1] /\ next' = [next EXCEPT ![v] = 1]
      /\ emitted' = emitted /\ DOMAIN next = UseCases /\ DOMAIN restarts = UseCases
      /\ PublishedOK(u)
  BY Lengths DEF JoinCrash, ResponseInv, PublishedInv
<1>2. CASE u # v
  BY <1>1, <1>2 DEF PublishedOK
<1>3. CASE u = v
  <2>1. next'[u] = 1 /\ restarts'[u] = restarts[u] + 1 /\ restarts[u] \in Nat /\ Chunks \in Nat \ {0}
    BY <1>1, <1>3, SessionAssumption DEF PublishedOK
  <2> QED
    BY <1>1, <2>1 DEF PublishedOK
<1> QED
  BY <1>2, <1>3

LEMMA SamePublished ==
  ASSUME ResponseInv, UNCHANGED <<emitted, next, restarts>>
  PROVE  PublishedInv'
BY DEF ResponseInv, PublishedInv, PublishedOK

(* The join sends the next chunk. *)
LEMMA RespondChunks ==
  ASSUME ResponseInv, NEW v \in UseCases, Respond(v)
  PROVE  WireOK' /\ \A u \in UseCases : ChunksOK(u)'
<1> DEFINE m == [type |-> "response", uc |-> v, nth |-> Len(emitted[v]) + 1]
<1>0. /\ HandshakeOK /\ WireOK /\ UNCHANGED <<client, g2c, written, closed, responder>>
      /\ emitted' = [emitted EXCEPT ![v] = Append(emitted[v], next[v])]
      /\ next' = [next EXCEPT ![v] = next[v] + 1] /\ restarts' = restarts
      /\ next[v] <= Chunks
      /\ responses' = IF responder = "consuming" THEN Append(responses, m) ELSE responses
      /\ responder # "starting" /\ responder # "none"
  BY NothingYet DEF ResponseInv, Respond, clientVars, gateVars, HandshakeOK
<1>1. /\ Len(emitted[v]) \in Nat /\ next[v] \in 1 .. Chunks /\ emitted[v] \in Seq(1..Chunks)
      /\ Chunks \in Nat
  BY <1>0, Lengths, SessionAssumption DEF PublishedOK
<1>2. m \in ResponseMsgs /\ m.type = "response" /\ m.uc = v /\ m.nth = Len(emitted[v]) + 1
  BY <1>1 DEF ResponseMsgs
<1>3. responses \in Seq(ResponseMsgs) /\ responses \in Seq(Msgs) /\ m \in Msgs
  BY <1>0, <1>2, SeqMonotonic DEF WireOK, Msgs
<1>4. ~closed => responder = "consuming"
  BY <1>0 DEF HandshakeOK
<1> HIDE DEF m
<1>5. WireOK'
  <2>1. responses' \in Seq(ResponseMsgs)
    BY <1>0, <1>2, <1>3, AppendProperties
  <2> QED
    BY <1>0, <2>1 DEF WireOK
<1>6. ASSUME NEW u \in UseCases PROVE ChunksOK(u)'
  <2>1. ChunksOK(u) /\ Len(written[u]) \in Nat /\ Len(emitted[u]) \in Nat /\ Gone' = Gone
    BY <1>0, Lengths DEF Gone
  <2>2. /\ InOrder(responses, u) /\ ChunksOf(responses, u) \subseteq 1 .. Len(emitted[u])
        /\ Len(written[u]) <= Len(emitted[u])
    BY <2>1 DEF ChunksOK
  <2>3. CASE u # v
    <3>1. emitted'[u] = emitted[u]
      BY <1>0, <2>3
    <3>2. ChunksOf(responses', u) = ChunksOf(responses, u) /\ InOrder(responses', u)
      BY <1>0, <1>2, <1>3, <2>2, <2>3, PutLast
    <3> QED
      BY <1>0, <2>1, <3>1, <3>2 DEF ChunksOK
  <2>4. CASE u = v
    <3>1. /\ Len(emitted'[u]) = Len(emitted[u]) + 1
          /\ \A i \in 1 .. Len(emitted[u]) : emitted'[u][i] = emitted[u][i]
      <4>1. emitted'[u] = Append(emitted[u], next[u])
        BY <1>0, <2>4 DEF WireOK
      <4> QED
        BY <1>1, <2>4, <4>1, AppendProperties
    <3>2. \A c \in ChunksOf(responses, u) : c < m.nth
      BY <1>1, <1>2, <2>2, <2>4
    <3>3. ASSUME client' = "done" PROVE \E i \in 1 .. Len(written'[u]) : emitted'[u][i] = Chunks
      BY <1>0, <2>1, <2>2, <3>1, <3>3 DEF ChunksOK
    <3>4. CASE responder = "consuming"
      <4>1. ChunksOf(responses', u) = ChunksOf(responses, u) \cup {Len(emitted[u]) + 1} /\ InOrder(responses', u)
        BY <1>0, <1>2, <1>3, <2>2, <2>4, <3>2, <3>4, PutLast
      <4>2. ChunksOf(responses', u) \subseteq 1 .. Len(emitted'[u]) /\ Len(written[u]) <= Len(emitted'[u])
        BY <2>1, <2>2, <3>1, <4>1
      <4>3. ASSUME ~Gone
            PROVE  \E n \in Len(written[u]) .. Len(emitted'[u]) :
                     /\ ChunksOf(g2c, u) = Len(written[u]) + 1 .. n
                     /\ ~closed => ChunksOf(responses', u) = n + 1 .. Len(emitted'[u])
        <5>1. PICK n \in Len(written[u]) .. Len(emitted[u]) :
                /\ ChunksOf(g2c, u) = Len(written[u]) + 1 .. n
                /\ ~closed => ChunksOf(responses, u) = n + 1 .. Len(emitted[u])
          BY <2>1, <4>3 DEF ChunksOK
        <5>2. n \in Len(written[u]) .. Len(emitted'[u])
          BY <2>1, <3>1, <5>1
        <5>3. (n + 1 .. Len(emitted[u])) \cup {Len(emitted[u]) + 1} = n + 1 .. Len(emitted[u]) + 1
          BY <2>1, <5>1
        <5> QED
          BY <3>1, <4>1, <5>1, <5>2, <5>3
      <4> QED
        BY <1>0, <2>1, <3>3, <4>1, <4>2, <4>3 DEF ChunksOK
    <3>5. CASE responder # "consuming"
      <4>1. closed /\ responses' = responses
        BY <1>0, <1>4, <3>5
      <4>2. ChunksOf(responses', u) \subseteq 1 .. Len(emitted'[u]) /\ Len(written[u]) <= Len(emitted'[u])
        BY <2>1, <2>2, <3>1, <4>1
      <4>3. ASSUME ~Gone
            PROVE  \E n \in Len(written[u]) .. Len(emitted'[u]) : ChunksOf(g2c, u) = Len(written[u]) + 1 .. n
        <5>1. PICK n \in Len(written[u]) .. Len(emitted[u]) : ChunksOf(g2c, u) = Len(written[u]) + 1 .. n
          BY <2>1, <4>3 DEF ChunksOK
        <5>2. n \in Len(written[u]) .. Len(emitted'[u])
          BY <2>1, <3>1, <5>1
        <5> QED
          BY <5>1, <5>2
      <4> QED
        BY <1>0, <2>1, <3>3, <4>1, <4>2, <4>3 DEF ChunksOK
    <3> QED
      BY <3>4, <3>5
  <2> QED
    BY <2>3, <2>4
<1> QED
  BY <1>5, <1>6

(* The response thread moves the next chunk from the queue to the wire; a    *)
(* client that has all of them is sent nothing.                              *)
LEMMA DeliverResponseChunks ==
  ASSUME ResponseInv, DeliverResponse
  PROVE  WireOK' /\ \A u \in UseCases : ChunksOK(u)'
<1> DEFINE h == Head(responses)
<1>0. /\ HandshakeOK /\ WireOK /\ UNCHANGED <<client, written, closed, emitted>> /\ ~closed
      /\ responder = "consuming" /\ responses # <<>> /\ responses' = Tail(responses)
      /\ g2c' = IF Gone THEN g2c ELSE Append(g2c, h)
  BY DEF ResponseInv, DeliverResponse, Send, clientVars, gateVars
<1>1. /\ responses \in Seq(ResponseMsgs) /\ responses \in Seq(Msgs) /\ g2c \in Seq(Msgs)
      /\ h \in ResponseMsgs /\ h \in Msgs /\ responses' \in Seq(ResponseMsgs)
  BY <1>0, SeqMonotonic, HeadTailProperties DEF WireOK, Msgs
<1>2. h.type = "response" /\ h.uc \in UseCases /\ h # HelloAckMsg /\ h.nth \in Nat
  BY <1>1, MsgTypes
<1> HIDE DEF h
<1>3. WireOK'
  <2>1. CASE Gone
    BY <1>0, <1>1, <2>1 DEF WireOK
  <2>2. CASE ~Gone
    <3>1. /\ g2c' \in Seq(Msgs) /\ Len(g2c') = Len(g2c) + 1 /\ g2c'[Len(g2c) + 1] = h
          /\ \A i \in 1 .. Len(g2c) : g2c'[i] = g2c[i]
          /\ DOMAIN g2c' = 1 .. Len(g2c') /\ DOMAIN g2c = 1 .. Len(g2c) /\ Len(g2c) \in Nat
      BY <1>0, <1>1, <2>2, AppendProperties, LenProperties
    <3>2. ASSUME NEW i \in DOMAIN g2c', g2c'[i] = HelloAckMsg PROVE i = 1 /\ client = "ack"
      <4>1. i # Len(g2c) + 1
        BY <1>2, <3>1, <3>2
      <4>2. i \in DOMAIN g2c /\ g2c'[i] = g2c[i]
        BY <3>1, <4>1
      <4> QED
        BY <1>0, <3>2, <4>2 DEF WireOK
    <3> QED
      BY <1>0, <1>1, <3>1, <3>2 DEF WireOK, Msgs
  <2> QED
    BY <2>1, <2>2
<1>4. ASSUME NEW u \in UseCases PROVE ChunksOK(u)'
  <2>1. ChunksOK(u) /\ Len(written[u]) \in Nat /\ Len(emitted[u]) \in Nat /\ Gone' = Gone
    BY <1>0, Lengths DEF Gone
  <2>2. InOrder(responses, u) /\ InOrder(g2c, u) /\ ChunksOf(responses, u) \subseteq 1 .. Len(emitted[u])
    BY <2>1 DEF ChunksOK
  <2>3. /\ InOrder(responses', u)
        /\ h.uc = u =>
             /\ h.nth \in ChunksOf(responses, u)
             /\ \A c \in ChunksOf(responses, u) : c = h.nth \/ h.nth < c
             /\ ChunksOf(responses', u) = ChunksOf(responses, u) \ {h.nth}
        /\ h.uc # u => ChunksOf(responses', u) = ChunksOf(responses, u)
    BY <1>0, <1>1, <1>2, <2>2, TakeFirst DEF h
  <2>4. ChunksOf(responses', u) \subseteq 1 .. Len(emitted[u])
    BY <2>2, <2>3
  <2>5. CASE Gone
    <3>1. g2c' = g2c
      BY <1>0, <2>5
    <3> QED
      BY <1>0, <2>1, <2>3, <2>4, <2>5, <3>1 DEF ChunksOK
  <2>6. CASE ~Gone
    <3>1. PICK n \in Len(written[u]) .. Len(emitted[u]) :
            /\ ChunksOf(g2c, u) = Len(written[u]) + 1 .. n
            /\ ChunksOf(responses, u) = n + 1 .. Len(emitted[u])
      BY <1>0, <2>1, <2>6 DEF ChunksOK
    <3>2. n \in Nat /\ g2c' = Append(g2c, h)
      BY <1>0, <2>1, <2>6, <3>1
    <3>3. CASE h.uc # u
      <4>1. ChunksOf(g2c', u) = ChunksOf(g2c, u) /\ InOrder(g2c', u)
        BY <1>0, <1>1, <2>2, <3>2, <3>3, PutLast
      <4> QED
        BY <1>0, <2>1, <2>3, <2>4, <3>1, <3>3, <4>1 DEF ChunksOK
    <3>4. CASE h.uc = u
      <4>1. /\ h.nth = n + 1 /\ n + 1 <= Len(emitted[u])
            /\ ChunksOf(responses', u) = n + 2 .. Len(emitted[u])
        BY <2>1, <2>3, <3>1, <3>2, <3>4, NextChunk
      <4>2. \A c \in ChunksOf(g2c, u) : c < h.nth
        BY <2>1, <3>1, <3>2, <4>1
      <4>3. ChunksOf(g2c', u) = ChunksOf(g2c, u) \cup {h.nth} /\ InOrder(g2c', u)
        BY <1>1, <1>2, <2>2, <3>2, <3>4, <4>2, PutLast
      <4>4. ChunksOf(g2c', u) = Len(written[u]) + 1 .. n + 1
        <5>1. (Len(written[u]) + 1 .. n) \cup {n + 1} = Len(written[u]) + 1 .. n + 1
          BY <2>1, <3>1, <3>2
        <5> QED
          BY <3>1, <4>1, <4>3, <5>1
      <4>5. /\ n + 1 \in Len(written[u]) .. Len(emitted[u])
            /\ ChunksOf(responses', u) = (n + 1) + 1 .. Len(emitted[u])
        BY <2>1, <3>1, <3>2, <4>1
      <4> QED
        BY <1>0, <2>1, <2>3, <2>4, <4>3, <4>4, <4>5 DEF ChunksOK
    <3> QED
      BY <3>3, <3>4
  <2> QED
    BY <2>5, <2>6
<1> QED
  BY <1>3, <1>4

(* Nothing is on the way before the client connects. *)
LEMMA InitResponses == Init => ResponseInv
<1> SUFFICES ASSUME Init PROVE ResponseInv
  OBVIOUS
<1>1. HandshakeOK
  BY DEF Init, HandshakeOK
<1>2. WireOK
  BY EmptySeq DEF Init, WireOK
<1>4. DOMAIN next = UseCases /\ DOMAIN restarts = UseCases
  BY DEF Init
<1>3. ASSUME NEW u \in UseCases PROVE PublishedOK(u) /\ ChunksOK(u)
  <2>1. /\ written[u] = <<>> /\ emitted[u] = <<>> /\ next[u] = 1 /\ restarts[u] = 0
        /\ g2c = <<>> /\ responses = <<>> /\ client = "start"
    BY DEF Init
  <2>2. ResponsesAt(g2c, u) = {} /\ ResponsesAt(responses, u) = {}
    BY <2>1 DEF ResponsesAt
  <2>3. ChunksOf(g2c, u) = {} /\ ChunksOf(responses, u) = {} /\ InOrder(g2c, u) /\ InOrder(responses, u)
    BY <2>2 DEF ChunksOf, InOrder
  <2>4. /\ written[u] \in Seq(Nat) /\ Len(written[u]) = 0 /\ Counted(written[u])
        /\ emitted[u] \in Seq(1..Chunks) /\ Len(emitted[u]) = 0 /\ Counted(emitted[u])
    BY <2>1, EmptySeq DEF Counted
  <2>5. 0 \in Len(written[u]) .. Len(emitted[u]) /\ Len(written[u]) + 1 .. 0 = {} /\ 0 + 1 .. Len(emitted[u]) = {}
    BY <2>4
  <2>6. client # "done" /\ next[u] \in 1 .. Chunks + 1 /\ Len(emitted[u]) = next[u] - 1
    BY <2>1, <2>4, SessionAssumption
  <2>7. \E n \in Len(written[u]) .. Len(emitted[u]) :
          /\ ChunksOf(g2c, u) = Len(written[u]) + 1 .. n
          /\ ChunksOf(responses, u) = n + 1 .. Len(emitted[u])
    BY <2>3, <2>5
  <2>8. ChunksOK(u)
    BY <2>3, <2>4, <2>6, <2>7 DEF ChunksOK
  <2>9. PublishedOK(u)
    BY <2>1, <2>4, <2>6 DEF PublishedOK
  <2> QED
    BY <2>8, <2>9
<1> QED
  BY <1>1, <1>2, <1>3, <1>4 DEF ResponseInv, PublishedInv

(* Every step of the session keeps the messages in order. *)
LEMMA NextResponses == ResponseInv /\ [Next]_vars => ResponseInv'
<1> SUFFICES ASSUME ResponseInv, [Next]_vars PROVE ResponseInv'
  OBVIOUS
<1>1. CASE ClientNext
  <2>1. HandshakeOK'
    BY <1>1, ClientHandshake
  <2>2. WireOK' /\ \A u \in UseCases : ChunksOK(u)'
    BY <1>1, QuietSteps, QuietChunks, RecvHelloAckChunks, RecvResponseChunks DEF ClientNext, ResponseInv
  <2>3. UNCHANGED joinVars
    BY <1>1 DEF ClientNext, Connect, ConnectGivesUp, SendHello, RecvHelloAck, WorkerPut, SendTransactions,
       SendTransactionsEOF, SendAccounts, RecvResponse, ConnectionEnded
  <2> QED
    BY <2>1, <2>2, <2>3, SamePublished DEF ResponseInv
<1>2. CASE ReaderNext
  <2>1. HandshakeOK'
    BY <1>2, ReaderHandshake
  <2>2. WireOK' /\ \A u \in UseCases : ChunksOK(u)'
    BY <1>2, QuietSteps, QuietChunks, SendHelloAckChunks DEF ReaderNext, ResponseInv
  <2>3. UNCHANGED joinVars
    BY <1>2 DEF ReaderNext, RecvHello, SendHelloAck, HandshakeFails, ReaderFails, Abort, Forward, ForwardEOF
  <2> QED
    BY <2>1, <2>2, <2>3, SamePublished DEF ResponseInv
<1>3. CASE ResponderNext \/ ClientLeaves \/ Shutdown
  <2>1. HandshakeOK'
    BY <1>3, OtherHandshake
  <2>2. WireOK' /\ \A u \in UseCases : ChunksOK(u)'
    BY <1>3, QuietSteps, QuietChunks, DeliverResponseChunks, CloseResponsesChunks,
       ClientLeavesChunks DEF ResponderNext, ResponseInv
  <2>3. UNCHANGED joinVars
    BY <1>3 DEF ResponderNext, StartConsuming, DeliverResponse, DeliveryFails, CloseResponses, ClientLeaves, Shutdown
  <2> QED
    BY <2>1, <2>2, <2>3, SamePublished DEF ResponseInv
<1>4. CASE JoinNext
  <2>1. HandshakeOK'
    BY <1>4, OtherHandshake
  <2>2. PICK u \in UseCases : Respond(u) \/ Finalize(u) \/ JoinCrash(u)
    BY <1>4 DEF JoinNext
  <2>3. CASE Respond(u)
    BY <2>1, <2>3, RespondChunks, RespondPublishes DEF ResponseInv
  <2>4. CASE Finalize(u)
    <3>1. UNCHANGED <<emitted, next, restarts>>
      BY <2>4 DEF Finalize
    <3> QED
      BY <2>1, <2>4, <3>1, QuietSteps, QuietChunks, SamePublished DEF ResponseInv
  <2>5. CASE JoinCrash(u)
    BY <2>1, <2>5, QuietSteps, QuietChunks, OthersPublish DEF ResponseInv
  <2> QED
    BY <2>2, <2>3, <2>4, <2>5
<1>5. CASE UNCHANGED vars
  <2>1. UNCHANGED <<client, reader, responder, c2g, g2c, responses, shard, emitted, next, restarts, written, closed>>
    BY <1>5 DEF vars, clientVars, gateVars
  <2>2. HandshakeOK'
    BY <2>1 DEF ResponseInv, HandshakeOK
  <2>3. QuietNow
    BY <2>1 DEF QuietNow, Gone
  <2> QED
    BY <2>1, <2>2, <2>3, QuietChunks, SamePublished DEF ResponseInv
<1> QED
  BY <1>1, <1>2, <1>3, <1>4, <1>5 DEF Next

(* No message is lost, doubled or overtaken between the join and the       *)
(* client's file while client and session are there: the ack of            *)
(* _deliver_response follows the send.                                      *)
THEOREM ResponsesArrive == Spec => []NoResponseLost
<1>1. ResponseInv => NoResponseLost
  <2> SUFFICES ASSUME ResponseInv, ~closed, ~Gone, NEW u \in UseCases
               PROVE  /\ Counted(written[u]) /\ Len(written[u]) <= Len(emitted[u])
                      /\ ChunksOf(g2c \o responses, u) = Len(written[u]) + 1 .. Len(emitted[u])
                      /\ InOrder(g2c \o responses, u)
    BY DEF NoResponseLost
  <2>1. /\ ChunksOK(u) /\ g2c \in Seq(Msgs) /\ responses \in Seq(Msgs)
        /\ Len(written[u]) \in Nat /\ Len(emitted[u]) \in Nat
    BY SeqMonotonic, Lengths DEF ResponseInv, WireOK, Msgs
  <2>2. PICK n \in Len(written[u]) .. Len(emitted[u]) :
          /\ ChunksOf(g2c, u) = Len(written[u]) + 1 .. n
          /\ ChunksOf(responses, u) = n + 1 .. Len(emitted[u])
    BY <2>1 DEF ChunksOK
  <2>3. /\ InOrder(responses, u) /\ InOrder(g2c, u) /\ Counted(written[u])
        /\ n \in Nat
    BY <2>1, <2>2 DEF ChunksOK
  <2>4. \A c \in ChunksOf(g2c, u), d \in ChunksOf(responses, u) : c < d
    BY <2>1, <2>2, <2>3
  <2>5. ChunksOf(g2c \o responses, u) = ChunksOf(g2c, u) \cup ChunksOf(responses, u) /\ InOrder(g2c \o responses, u)
    BY <2>1, <2>3, <2>4, PutBehind
  <2>6. (Len(written[u]) + 1 .. n) \cup (n + 1 .. Len(emitted[u])) = Len(written[u]) + 1 .. Len(emitted[u])
    BY <2>1, <2>2, <2>3
  <2> QED
    BY <2>1, <2>2, <2>3, <2>5, <2>6
<1> QED
  BY InitResponses, NextResponses, <1>1, PTL DEF Spec

(* The file that _receive_and_write_responses puts together holds what the  *)
(* join published, in its order, every chunk of every use case; each once,  *)
(* unless the join was killed while it published.                           *)
THEOREM OutputWhole == Spec => []OutputIsWhole
<1>1. ResponseInv => OutputIsWhole
  <2> SUFFICES ASSUME ResponseInv, client = "done", NEW u \in UseCases
               PROVE  /\ IsPrefix(Text(u), emitted[u]) /\ ToSet(Text(u)) = 1..Chunks
                      /\ restarts[u] = 0 => Text(u) = [i \in 1..Chunks |-> i]
    BY DEF OutputIsWhole
  <2> DEFINE e == emitted[u]
             t == Text(u)
             k == Len(written[u])
  <2>1. /\ ChunksOK(u) /\ PublishedOK(u) /\ k \in Nat /\ Len(e) \in Nat /\ e \in Seq(1..Chunks)
        /\ k <= Len(e) /\ Chunks \in Nat
    BY Lengths, SessionAssumption DEF ChunksOK, PublishedOK
  <2>2. DOMAIN written[u] = 1 .. k /\ \A i \in 1 .. k : written[u][i] = i
    BY <2>1 DEF ChunksOK, Counted
  <2>3. t = [i \in 1 .. k |-> e[i]]
    BY <2>2 DEF Text
  <2>4. t \in Seq(1..Chunks) /\ Len(t) = k /\ DOMAIN t = 1 .. k
    <3>1. \A i \in 1 .. k : e[i] \in 1..Chunks
      BY <2>1, ElementOfSeq
    <3> QED
      BY <2>1, <2>3, <3>1
  <2>5. PICK i \in 1 .. k : e[i] = Chunks
    BY <2>1 DEF ChunksOK
  <2> HIDE DEF e, t, k
  <2>6. IsPrefix(t, e)
    <3>1. t = SubSeq(e, 1, k)
      BY <2>1, <2>3
    <3> QED
      BY <2>1, <2>4, <3>1 DEF IsPrefix
  <2>7. ToSet(t) = 1..Chunks
    <3>1. ToSet(t) = {t[j] : j \in 1 .. k}
      BY <2>4 DEF ToSet
    <3>2. \A j \in 1 .. k : t[j] = e[j] /\ e[j] \in 1..Chunks
      BY <2>3, <2>4, ElementOfSeq
    <3>3. ASSUME NEW c \in 1..Chunks PROVE \E j \in 1 .. k : t[j] = c
      <4>1. i \in 1 .. Len(e) /\ c \in 1 .. e[i]
        BY <2>1, <2>5, <3>3
      <4>2. PICK j \in 1 .. i : e[j] = c
        BY <2>1, <4>1 DEF PublishedOK, e
      <4>3. j \in 1 .. k
        BY <2>1, <4>2
      <4> QED
        BY <3>2, <4>2, <4>3
    <3> QED
      BY <3>1, <3>2, <3>3
  <2>8. ASSUME restarts[u] = 0 PROVE t = [j \in 1..Chunks |-> j]
    <3>1. Counted(e) /\ Len(e) <= Chunks
      BY <2>1, <2>8 DEF PublishedOK, e
    <3>2. \A j \in 1 .. Len(e) : e[j] = j
      BY <3>1 DEF Counted
    <3>3. k = Chunks /\ \A j \in 1 .. k : e[j] = j
      BY <2>1, <2>5, <3>1, <3>2
    <3> QED
      BY <2>3, <3>3
  <2> QED
    BY <2>6, <2>7, <2>8 DEF e, t
<1> QED
  BY InitResponses, NextResponses, <1>1, PTL DEF Spec

-----------------------------------------------------------------------------
(* The shards *)

(* A message put behind those of a shard, whatever it is. *)
LEMMA AppendAny ==
  ASSUME NEW q, IsSeq(q), NEW x
  PROVE  LET a == Append(q, x)
             l == Len(q) + 1
         IN  /\ IsSeq(a) /\ Len(a) = l /\ a[l] = x /\ DOMAIN a = 1 .. l /\ l \in DOMAIN a
             /\ Len(q) \in Nat /\ DOMAIN q = 1 .. Len(q) /\ l \notin DOMAIN q
             /\ \A k \in DOMAIN q : k \in DOMAIN a /\ a[k] = q[k]
             /\ \A k \in DOMAIN a : k = l \/ (k \in DOMAIN q /\ a[k] = q[k])
<1> DEFINE S == {q[k] : k \in 1 .. Len(q)} \cup {x}
<1>1. Len(q) \in Nat /\ q = [k \in 1 .. Len(q) |-> q[k]]
  BY DEF IsSeq
<1>2. q \in [1 .. Len(q) -> S]
  BY <1>1
<1>3. q \in Seq(S)
  BY <1>1, <1>2, SeqDef
<1> DEFINE a == Append(q, x)
<1>4. /\ a \in Seq(S) /\ Len(a) = Len(q) + 1 /\ a[Len(q) + 1] = x
      /\ \A k \in 1 .. Len(q) : a[k] = q[k]
  BY <1>3, AppendProperties
<1>5. DOMAIN a = 1 .. Len(q) + 1 /\ a = [k \in 1 .. Len(a) |-> a[k]] /\ DOMAIN q = 1 .. Len(q)
  BY <1>3, <1>4, LenProperties
<1> HIDE DEF a
<1>6. IsSeq(a)
  BY <1>1, <1>4, <1>5 DEF IsSeq
<1> QED
  BY <1>1, <1>4, <1>5, <1>6 DEF a

(* ShardsAnnounced for one stream. *)
Announced(s) ==
  /\ \A i \in 1..Shards[s] : \A k \in DOMAIN shard[s][i] :
       shard[s][i][k].type = "eof" =>
         /\ shard[s][i][k].expected = Cardinality(DataAt(s, i))
         /\ \A j \in k + 1 .. Len(shard[s][i]) : shard[s][i][j].type = "abort"
  /\ \A i, j \in 1..Shards[s] : \A k \in DataAt(s, i), l \in DataAt(s, j) :
       shard[s][i][k].seq = shard[s][j][l].seq => i = j /\ k = l

(* A stream whose shards a step leaves alone. *)
LEMMA SameShards ==
  ASSUME NEW s \in Streams, ShardsOK(s), Announced(s), shard'[s] = shard[s],
         NotBegun(s)' => NotBegun(s),
         reader' = s => reader = s /\ counts' = counts /\ rr' = rr
  PROVE  ShardsOK(s)' /\ Announced(s)'
<1>1. \A i \in 1 .. Shards[s] : DataAt(s, i)' = DataAt(s, i)
  BY DEF DataAt
<1>2. Announced(s)'
  BY <1>1 DEF Announced
<1>3. ShardsOK(s)'
  BY DEF ShardsOK
<1> QED
  BY <1>2, <1>3

(* A stream that has nothing on its shards, and whose turn may begin now. *)
LEMMA FreshShards ==
  ASSUME NEW s \in Streams, DOMAIN shard'[s] = 1 .. Shards[s],
         \A i \in 1 .. Shards[s] : shard'[s][i] = <<>>,
         reader' = s => counts' = [i \in 1 .. Shards[s] |-> 0]
  PROVE  ShardsOK(s)' /\ Announced(s)'
<1>1. Len(<<>>) = 0 /\ DOMAIN <<>> = {} /\ IsSeq(<<>>)
  <2>1. Len(<<>>) = 0 /\ DOMAIN <<>> = {}
    BY EmptySeq
  <2> QED
    BY <2>1 DEF IsSeq
<1>2. \A i \in 1 .. Shards[s] : DataAt(s, i)' = {}
  BY <1>1 DEF DataAt
<1>3. Announced(s)'
  BY <1>1, <1>2 DEF Announced
<1>4. ShardsOK(s)'
  BY <1>1 DEF ShardsOK
<1> QED
  BY <1>3, <1>4

(* _forward_sharded sends a data message to one shard, counts it for that    *)
(* shard and gives it a number that is new.                                  *)
LEMMA ForwardShards ==
  ASSUME NEW s \in Streams, ShardsOK(s), Announced(s), DOMAIN shard = Streams, Forward(s),
         counts \in [1 .. Shards[s] -> Nat], rr \in Nat
  PROVE  /\ ShardsOK(s)' /\ Announced(s)' /\ DOMAIN shard' = Streams
         /\ \A t \in Streams \ {s} : shard'[t] = shard[t]
         /\ counts' \in [1 .. Shards[s] -> Nat] /\ rr' \in Nat
<1> DEFINE p == (rr % Shards[s]) + 1
           m == [type |-> s, batch |-> Head(c2g).batch, seq |-> rr]
<1>0. Shards[s] \in Nat \ {0} /\ s # "eof" /\ s # "abort"
      /\ s \notin {"none", "hello", "helloAck", "finished", "failed", "aborted"}
  BY SessionAssumption DEF Streams
<1>1. p \in 1 .. Shards[s]
  BY <1>0
<1>2. /\ reader = s /\ reader' = s /\ rr' = rr + 1
      /\ shard' = [shard EXCEPT ![s][p] = Append(shard[s][p], m)]
      /\ counts' = [counts EXCEPT ![p] = counts[p] + 1]
  BY DEF Forward
<1> HIDE DEF p
<1>3. m.type = s /\ m.seq = rr
  OBVIOUS
<1> HIDE DEF m
<1>4. DOMAIN shard[s] = 1 .. Shards[s] /\ \A i \in 1 .. Shards[s] : IsSeq(shard[s][i])
  BY DEF ShardsOK
<1>5. /\ DOMAIN shard' = Streams /\ \A t \in Streams \ {s} : shard'[t] = shard[t]
      /\ DOMAIN shard'[s] = 1 .. Shards[s] /\ shard'[s][p] = Append(shard[s][p], m)
      /\ \A i \in 1 .. Shards[s] : i # p => shard'[s][i] = shard[s][i]
  BY <1>1, <1>2, <1>4
<1> DEFINE l == Len(shard[s][p]) + 1
<1>6. /\ IsSeq(shard'[s][p]) /\ Len(shard'[s][p]) = l /\ shard'[s][p][l] = m
      /\ \A k \in DOMAIN shard'[s][p] :
           k = l \/ (k \in DOMAIN shard[s][p] /\ shard'[s][p][k] = shard[s][p][k])
  BY <1>1, <1>4, <1>5, AppendAny
<1> HIDE DEF l
<1>7. ASSUME NEW i \in 1 .. Shards[s], NEW k \in DOMAIN shard'[s][i]
      PROVE  \/ i = p /\ k = l /\ shard'[s][i][k] = m
             \/ k \in DOMAIN shard[s][i] /\ shard'[s][i][k] = shard[s][i][k]
  <2>1. CASE i = p
    BY <1>6, <2>1
  <2>2. CASE i # p
    BY <1>5, <2>2
  <2> QED
    BY <2>1, <2>2
<1>8. ASSUME NEW i \in 1 .. Shards[s], NEW k \in DOMAIN shard[s][i]
      PROVE  shard[s][i][k].type = s /\ shard[s][i][k].seq \in Nat /\ shard[s][i][k].seq < rr
  BY <1>2 DEF ShardsOK
<1>9. ASSUME NEW i \in 1 .. Shards[s], NEW k \in DOMAIN shard'[s][i]
      PROVE  shard'[s][i][k].type = s /\ shard'[s][i][k].seq \in Nat /\ shard'[s][i][k].seq < rr'
  BY <1>2, <1>3, <1>7, <1>8
<1>10. ASSUME NEW i \in 1 .. Shards[s] PROVE IsSeq(shard'[s][i]) /\ counts'[i] = Len(shard'[s][i])
  <2>1. counts[i] = Len(shard[s][i])
    BY <1>2 DEF ShardsOK
  <2>2. CASE i = p
    BY <1>2, <1>6, <2>1, <2>2 DEF l
  <2>3. CASE i # p
    BY <1>2, <1>4, <1>5, <2>1, <2>3
  <2> QED
    BY <2>2, <2>3
<1>11. ShardsOK(s)'
  <2>1. ~NotBegun(s)'
    BY <1>0, <1>2 DEF NotBegun, Streams
  <2> QED
    BY <1>2, <1>5, <1>9, <1>10, <2>1 DEF ShardsOK
<1>12. Announced(s)'
  <2>1. \A i \in 1 .. Shards[s] : DataAt(s, i)' \subseteq DOMAIN shard'[s][i]
    BY DEF DataAt
  <2>2. ASSUME NEW i \in 1 .. Shards[s], NEW j \in 1 .. Shards[s], NEW k \in DOMAIN shard'[s][i],
               NEW h \in DOMAIN shard'[s][j], shard'[s][i][k].seq = shard'[s][j][h].seq
        PROVE  i = j /\ k = h
    <3>1. CASE (i = p /\ k = l) /\ (j = p /\ h = l)
      BY <3>1
    <3>2. CASE ~(i = p /\ k = l) /\ ~(j = p /\ h = l)
      <4>1. /\ k \in DOMAIN shard[s][i] /\ shard'[s][i][k] = shard[s][i][k]
            /\ h \in DOMAIN shard[s][j] /\ shard'[s][j][h] = shard[s][j][h]
        BY <1>7, <3>2
      <4>2. k \in DataAt(s, i) /\ h \in DataAt(s, j)
        BY <1>8, <4>1 DEF DataAt
      <4> QED
        BY <2>2, <4>1, <4>2 DEF Announced
    <3>3. CASE (i = p /\ k = l) /\ ~(j = p /\ h = l)
      <4>1. h \in DOMAIN shard[s][j] /\ shard'[s][j][h] = shard[s][j][h] /\ shard'[s][i][k] = m
        BY <1>6, <1>7, <3>3
      <4> QED
        BY <1>3, <1>8, <2>2, <4>1
    <3>4. CASE ~(i = p /\ k = l) /\ (j = p /\ h = l)
      <4>1. k \in DOMAIN shard[s][i] /\ shard'[s][i][k] = shard[s][i][k] /\ shard'[s][j][h] = m
        BY <1>6, <1>7, <3>4
      <4> QED
        BY <1>3, <1>8, <2>2, <4>1
    <3> QED
      BY <3>1, <3>2, <3>3, <3>4
  <2> QED
    BY <1>0, <1>9, <2>1, <2>2 DEF Announced
<1> QED
  BY <1>1, <1>2, <1>5, <1>11, <1>12

(* The queue a is q with the message x behind it. *)
Extended(q, a, x) ==
  /\ IsSeq(a) /\ Len(a) = Len(q) + 1 /\ a[Len(q) + 1] = x /\ DOMAIN a = 1 .. Len(q) + 1
  /\ Len(q) \in Nat /\ DOMAIN q = 1 .. Len(q)
  /\ \A k \in DOMAIN q : k # Len(q) + 1 /\ k \in DOMAIN a /\ a[k] = q[k]
  /\ \A k \in DOMAIN a : k = Len(q) + 1 \/ (k \in DOMAIN q /\ a[k] = q[k])

(* What a send does to the queue of a shard. *)
LEMMA AppendExtends ==
  ASSUME NEW q, IsSeq(q), NEW x
  PROVE  Extended(q, Append(q, x), x)
BY AppendAny DEF Extended

(* _forward_sharded sends each shard of the stream its own count. *)
LEMMA EofShards ==
  ASSUME NEW s \in Streams, ShardsOK(s), Announced(s), reader = s, reader' # s, ~NotBegun(s)',
         DOMAIN shard'[s] = 1 .. Shards[s],
         \A i \in 1 .. Shards[s] :
           Extended(shard[s][i], shard'[s][i], [type |-> "eof", expected |-> counts[i]])
  PROVE  ShardsOK(s)' /\ Announced(s)'
<1>0. s # "eof" /\ s # "abort"
  BY DEF Streams
<1>1. ASSUME NEW i \in 1 .. Shards[s]
      PROVE  /\ counts[i] = Len(shard[s][i])
             /\ \A k \in DOMAIN shard[s][i] : shard[s][i][k].type = s /\ shard[s][i][k].seq \in Nat
  BY DEF ShardsOK
<1>2. ASSUME NEW i \in 1 .. Shards[s]
      PROVE  /\ IsSeq(shard'[s][i]) /\ DOMAIN shard'[s][i] = 1 .. Len(shard[s][i]) + 1
             /\ Len(shard'[s][i]) = Len(shard[s][i]) + 1
             /\ Len(shard[s][i]) \in Nat /\ DOMAIN shard[s][i] = 1 .. Len(shard[s][i])
  BY DEF Extended
<1>3. ASSUME NEW i \in 1 .. Shards[s], NEW k \in DOMAIN shard'[s][i]
      PROVE  \/ /\ k = Len(shard[s][i]) + 1 /\ k \notin DOMAIN shard[s][i]
                /\ shard'[s][i][k].type = "eof" /\ shard'[s][i][k].expected = Len(shard[s][i])
             \/ /\ k \in DOMAIN shard[s][i] /\ shard'[s][i][k] = shard[s][i][k]
                /\ shard'[s][i][k].type = s /\ shard'[s][i][k].seq \in Nat
  <2>1. Extended(shard[s][i], shard'[s][i], [type |-> "eof", expected |-> counts[i]])
    OBVIOUS
  <2>2. CASE k = Len(shard[s][i]) + 1
    <3>1. shard'[s][i][k] = [type |-> "eof", expected |-> counts[i]]
      BY <2>1, <2>2 DEF Extended
    <3>2. shard'[s][i][k].type = "eof" /\ shard'[s][i][k].expected = counts[i]
      BY <3>1
    <3>3. k \notin DOMAIN shard[s][i]
      BY <1>2, <2>2
    <3> QED
      BY <1>1, <2>2, <3>2, <3>3
  <2>3. CASE k # Len(shard[s][i]) + 1
    <3>1. k \in DOMAIN shard[s][i] /\ shard'[s][i][k] = shard[s][i][k]
      BY <2>1, <2>3 DEF Extended
    <3> QED
      BY <1>1, <3>1
  <2> QED
    BY <2>2, <2>3
<1>4. ASSUME NEW i \in 1 .. Shards[s], NEW k \in DOMAIN shard[s][i] PROVE k \in DOMAIN shard'[s][i]
  BY DEF Extended
<1>5. ASSUME NEW i \in 1 .. Shards[s] PROVE DataAt(s, i)' = DOMAIN shard[s][i]
  <2>1. \A k \in DataAt(s, i)' : k \in DOMAIN shard[s][i]
    BY <1>0, <1>3 DEF DataAt
  <2>2. \A k \in DOMAIN shard[s][i] : k \in DataAt(s, i)'
    BY <1>3, <1>4 DEF DataAt
  <2> QED
    BY <2>1, <2>2
<1>6. ASSUME NEW i \in 1 .. Shards[s] PROVE Cardinality(DataAt(s, i)') = Len(shard[s][i])
  <2> DEFINE n == Len(shard[s][i])
  <2>1. n \in Nat /\ DataAt(s, i)' = 1 .. n
    BY <1>2, <1>5
  <2> HIDE DEF n
  <2>2. Cardinality(1 .. n) = n
    <3>1. 1 \in Int /\ n \in Int
      BY <2>1
    <3>2. Cardinality(1 .. n) = IF 1 > n THEN 0 ELSE n - 1 + 1
      BY <3>1, FS_Interval
    <3> QED
      BY <2>1, <3>2
  <2>3. Cardinality(DataAt(s, i)') = Cardinality(1 .. n)
    BY <2>1
  <2> QED
    BY <2>2, <2>3 DEF n
<1>7. ASSUME NEW i \in 1 .. Shards[s], NEW k \in DOMAIN shard'[s][i], shard'[s][i][k].type = "eof"
      PROVE  /\ shard'[s][i][k].expected = Cardinality(DataAt(s, i)')
             /\ k + 1 .. Len(shard'[s][i]) = {}
  <2>1. k = Len(shard[s][i]) + 1 /\ shard'[s][i][k].expected = Len(shard[s][i])
    BY <1>0, <1>3, <1>7
  <2> QED
    BY <1>2, <1>6, <2>1
<1>8. ASSUME NEW i \in 1 .. Shards[s], NEW j \in 1 .. Shards[s],
             NEW k \in DataAt(s, i)', NEW h \in DataAt(s, j)', shard'[s][i][k].seq = shard'[s][j][h].seq
      PROVE  i = j /\ k = h
  <2>1. k \in DOMAIN shard[s][i] /\ h \in DOMAIN shard[s][j]
    BY <1>5
  <2>2. k \in DOMAIN shard'[s][i] /\ h \in DOMAIN shard'[s][j]
    BY <1>4, <2>1
  <2>3. shard'[s][i][k] = shard[s][i][k] /\ shard'[s][j][h] = shard[s][j][h]
    BY <1>3, <2>1, <2>2
  <2>4. k \in DataAt(s, i) /\ h \in DataAt(s, j)
    BY <1>1, <2>1 DEF DataAt
  <2>5. shard[s][i][k].seq = shard[s][j][h].seq
    BY <1>8, <2>3
  <2> QED
    BY <2>4, <2>5 DEF Announced
<1>9. Announced(s)'
  BY <1>7, <1>8 DEF Announced
<1>10. ShardsOK(s)'
  <2>1. \A i \in 1 .. Shards[s] : \A k \in DOMAIN shard'[s][i] :
          /\ shard'[s][i][k].type \in {s, "eof", "abort"}
          /\ shard'[s][i][k].type = s => shard'[s][i][k].seq \in Nat
    BY <1>0, <1>3
  <2>2. \A i \in 1 .. Shards[s] : IsSeq(shard'[s][i])
    BY <1>2
  <2> QED
    BY <2>1, <2>2 DEF ShardsOK
<1> QED
  BY <1>9, <1>10

(* _abort puts an Abort behind what each shard holds. *)
LEMMA AbortShards ==
  ASSUME NEW s \in Streams, ShardsOK(s), Announced(s), reader' # s, ~NotBegun(s)',
         DOMAIN shard'[s] = 1 .. Shards[s],
         \A i \in 1 .. Shards[s] : Extended(shard[s][i], shard'[s][i], [type |-> "abort"])
  PROVE  ShardsOK(s)' /\ Announced(s)'
<1>0. s # "eof" /\ s # "abort"
  BY DEF Streams
<1>1. ASSUME NEW i \in 1 .. Shards[s]
      PROVE  LET q == shard[s][i]
                 a == shard'[s][i]
                 l == Len(q) + 1
             IN  /\ IsSeq(a) /\ Len(a) = l /\ a[l].type = "abort"
                 /\ DOMAIN a = 1 .. l /\ Len(q) \in Nat /\ DOMAIN q = 1 .. Len(q)
                 /\ \A k \in DOMAIN q : k \in DOMAIN a /\ a[k] = q[k]
                 /\ \A k \in DOMAIN a : k = l \/ (k \in DOMAIN q /\ a[k] = q[k])
  BY DEF Extended
<1>2. ASSUME NEW i \in 1 .. Shards[s] PROVE DataAt(s, i)' = DataAt(s, i)
  BY <1>0, <1>1 DEF DataAt
<1>3. ASSUME NEW i \in 1 .. Shards[s], NEW k \in DOMAIN shard'[s][i], shard'[s][i][k].type = "eof"
      PROVE  /\ shard'[s][i][k].expected = Cardinality(DataAt(s, i)')
             /\ \A j \in k + 1 .. Len(shard'[s][i]) : shard'[s][i][j].type = "abort"
  <2>1. k \in DOMAIN shard[s][i] /\ shard'[s][i][k] = shard[s][i][k] /\ k \in Nat
    BY <1>1, <1>3
  <2>2. /\ shard[s][i][k].expected = Cardinality(DataAt(s, i))
        /\ \A j \in k + 1 .. Len(shard[s][i]) : shard[s][i][j].type = "abort"
    BY <1>3, <2>1 DEF Announced
  <2>3. ASSUME NEW j \in k + 1 .. Len(shard'[s][i]) PROVE shard'[s][i][j].type = "abort"
    <3>1. CASE j = Len(shard[s][i]) + 1
      BY <1>1, <3>1
    <3>2. CASE j # Len(shard[s][i]) + 1
      <4>0. Len(shard[s][i]) \in Nat /\ Len(shard'[s][i]) = Len(shard[s][i]) + 1
            /\ DOMAIN shard[s][i] = 1 .. Len(shard[s][i])
        BY <1>1
      <4>1. j \in k + 1 .. Len(shard[s][i]) /\ j \in DOMAIN shard[s][i]
        BY <2>1, <3>2, <4>0
      <4> QED
        BY <1>1, <2>2, <4>1
    <3> QED
      BY <3>1, <3>2
  <2> QED
    BY <1>2, <2>1, <2>2, <2>3
<1>4. ASSUME NEW i \in 1 .. Shards[s], NEW k \in DataAt(s, i)
      PROVE  shard'[s][i][k] = shard[s][i][k]
  BY <1>1 DEF DataAt
<1>5. Announced(s)'
  <2>1. ASSUME NEW i \in 1 .. Shards[s], NEW j \in 1 .. Shards[s],
               NEW k \in DataAt(s, i)', NEW h \in DataAt(s, j)', shard'[s][i][k].seq = shard'[s][j][h].seq
        PROVE  i = j /\ k = h
    <3>1. k \in DataAt(s, i) /\ h \in DataAt(s, j)
      BY <1>2
    <3>2. shard[s][i][k].seq = shard[s][j][h].seq
      BY <1>4, <2>1, <3>1
    <3> QED
      BY <3>1, <3>2 DEF Announced
  <2> QED
    BY <1>3, <2>1 DEF Announced
<1>6. ShardsOK(s)'
  <2>1. DOMAIN shard'[s] = 1 .. Shards[s]
    OBVIOUS
  <2>2. ASSUME NEW i \in 1 .. Shards[s], NEW k \in DOMAIN shard'[s][i]
        PROVE  /\ shard'[s][i][k].type \in {s, "eof", "abort"}
               /\ shard'[s][i][k].type = s => shard'[s][i][k].seq \in Nat
    <3>1. CASE k = Len(shard[s][i]) + 1
      BY <1>0, <1>1, <3>1
    <3>2. CASE k # Len(shard[s][i]) + 1
      <4>1. k \in DOMAIN shard[s][i] /\ shard'[s][i][k] = shard[s][i][k]
        BY <1>1, <3>2
      <4> QED
        BY <4>1 DEF ShardsOK
    <3> QED
      BY <3>1, <3>2
  <2>3. \A i \in 1 .. Shards[s] : IsSeq(shard'[s][i])
    BY <1>1
  <2> QED
    BY <2>1, <2>2, <2>3 DEF ShardsOK
<1> QED
  BY <1>5, <1>6

(* ShardInv, one stream at a time. *)
LEMMA ShardsByStream ==
  ShardInv <=> /\ DOMAIN shard = Streams /\ \A s \in Streams : ShardsOK(s) /\ Announced(s)
               /\ reader \in Streams => counts \in [1..Shards[reader] -> Nat] /\ rr \in Nat
BY DEF ShardInv, ShardsAnnounced, Announced

(* The same for the next state. *)
LEMMA ShardsByStreamNext ==
  ASSUME DOMAIN shard' = Streams, \A s \in Streams : ShardsOK(s)' /\ Announced(s)',
         reader' \in Streams => counts' \in [1..Shards[reader'] -> Nat] /\ rr' \in Nat
  PROVE  ShardInv'
BY DEF ShardInv, ShardsAnnounced, Announced

(* The declared queues are empty. *)
LEMMA InitShards == Init => ShardInv
<1> SUFFICES ASSUME Init PROVE ShardInv
  OBVIOUS
<1>0. shard = DeclaredShards /\ reader = "none"
  BY DEF Init
<1>1. Len(<<>>) = 0 /\ DOMAIN <<>> = {} /\ IsSeq(<<>>)
  <2>1. Len(<<>>) = 0 /\ DOMAIN <<>> = {}
    BY EmptySeq
  <2> QED
    BY <2>1 DEF IsSeq
<1>2. DOMAIN shard = Streams /\ reader \notin Streams
  BY <1>0 DEF DeclaredShards, Streams
<1>3. ASSUME NEW s \in Streams PROVE ShardsOK(s) /\ Announced(s)
  <2>1. DOMAIN shard[s] = 1 .. Shards[s] /\ \A i \in 1 .. Shards[s] : shard[s][i] = <<>>
    BY <1>0 DEF DeclaredShards
  <2>2. \A i \in 1 .. Shards[s] : DataAt(s, i) = {}
    BY <1>1, <2>1 DEF DataAt
  <2>3. ShardsOK(s)
    BY <1>1, <1>2, <2>1 DEF ShardsOK
  <2>4. Announced(s)
    BY <1>1, <2>1, <2>2 DEF Announced
  <2> QED
    BY <2>3, <2>4
<1> QED
  BY <1>2, <1>3, ShardsByStream

(* Steps that leave the shards and the reader's locals alone. *)
LEMMA QuietShards ==
  ASSUME ShardInv, UNCHANGED <<shard, counts, rr>>,
         reader' = reader \/ (reader' \notin Streams /\ \A s \in Streams : NotBegun(s)' => NotBegun(s))
  PROVE  ShardInv'
<1>1. /\ DOMAIN shard = Streams /\ \A s \in Streams : ShardsOK(s) /\ Announced(s)
      /\ reader \in Streams => counts \in [1..Shards[reader] -> Nat] /\ rr \in Nat
  BY ShardsByStream
<1>2. ASSUME NEW s \in Streams PROVE ShardsOK(s)' /\ Announced(s)'
  <2>1. NotBegun(s)' => NotBegun(s)
    BY DEF NotBegun
  <2> QED
    BY <1>1, <2>1, SameShards
<1>3. reader' \in Streams => counts' \in [1..Shards[reader'] -> Nat] /\ rr' \in Nat
  BY <1>1
<1> QED
  BY <1>1, <1>2, <1>3, ShardsByStreamNext

(* Every step of the session keeps the announcements true. *)
LEMMA NextShards == ResponseInv /\ ShardInv /\ [Next]_vars => ShardInv'
<1> SUFFICES ASSUME ResponseInv, ShardInv, [Next]_vars PROVE ShardInv'
  OBVIOUS
<1>0. /\ DOMAIN shard = Streams /\ \A s \in Streams : ShardsOK(s) /\ Announced(s)
      /\ reader \in Streams => counts \in [1..Shards[reader] -> Nat] /\ rr \in Nat
  BY ShardsByStream
<1>1. CASE Connect
  <2>1. shard = DeclaredShards /\ shard' = shard /\ reader' = "hello"
    BY <1>1 DEF Connect, ResponseInv, HandshakeOK
  <2>2. ASSUME NEW s \in Streams PROVE ShardsOK(s)' /\ Announced(s)'
    <3>1. DOMAIN shard'[s] = 1 .. Shards[s] /\ \A i \in 1 .. Shards[s] : shard'[s][i] = <<>>
      BY <2>1 DEF DeclaredShards
    <3>2. reader' # s
      BY <2>1 DEF Streams
    <3> QED
      BY <3>1, <3>2, FreshShards
  <2> QED
    BY <1>0, <2>1, <2>2, ShardsByStreamNext DEF Streams
<1>2. CASE SendHelloAck
  <2>1. /\ shard' = shard /\ reader = "helloAck" /\ reader' = "trans" /\ rr' = 0
        /\ counts' = [i \in 1 .. Shards["trans"] |-> 0]
    BY <1>2 DEF SendHelloAck
  <2>2. ASSUME NEW s \in Streams PROVE ShardsOK(s)' /\ Announced(s)'
    <3>1. DOMAIN shard'[s] = 1 .. Shards[s] /\ \A i \in 1 .. Shards[s] : shard'[s][i] = <<>>
      BY <1>0, <2>1 DEF ShardsOK, NotBegun
    <3> QED
      BY <2>1, <3>1, FreshShards
  <2> QED
    BY <1>0, <2>1, <2>2, ShardsByStreamNext
<1>3. CASE \E s \in Streams : Forward(s)
  <2>1. PICK s \in Streams : Forward(s)
    BY <1>3
  <2>2. reader = s /\ reader' = s
    BY <2>1 DEF Forward
  <2>3. /\ ShardsOK(s)' /\ Announced(s)' /\ DOMAIN shard' = Streams
        /\ \A t \in Streams \ {s} : shard'[t] = shard[t]
        /\ counts' \in [1 .. Shards[s] -> Nat] /\ rr' \in Nat
    BY <1>0, <2>1, <2>2, ForwardShards
  <2>4. ASSUME NEW t \in Streams \ {s} PROVE ShardsOK(t)' /\ Announced(t)'
    <3>1. NotBegun(t)' => NotBegun(t)
      BY <2>2 DEF NotBegun
    <3> QED
      BY <1>0, <2>2, <2>3, <3>1, SameShards
  <2> QED
    BY <2>2, <2>3, <2>4, ShardsByStreamNext
<1>4. CASE \E s \in Streams : ForwardEOF(s)
  <2>1. PICK s \in Streams : ForwardEOF(s)
    BY <1>4
  <2>2. /\ reader = s /\ reader' = IF s = "trans" THEN "accs" ELSE "finished"
        /\ shard' = [shard EXCEPT ![s] = [i \in DOMAIN shard[s] |->
             Append(shard[s][i], [type |-> "eof", expected |-> counts[i]])]]
        /\ counts' = IF s = "trans" THEN [i \in 1..Shards["accs"] |-> 0] ELSE counts
        /\ rr' = IF s = "trans" THEN 0 ELSE rr
    BY <2>1 DEF ForwardEOF
  <2>3. /\ DOMAIN shard' = Streams /\ \A t \in Streams \ {s} : shard'[t] = shard[t]
        /\ shard'[s] = [i \in 1 .. Shards[s] |->
             Append(shard[s][i], [type |-> "eof", expected |-> counts[i]])]
    BY <1>0, <2>2 DEF ShardsOK
  <2>4. reader' # s /\ ~NotBegun(s)' /\ counts \in [1 .. Shards[s] -> Nat]
    BY <1>0, <2>2 DEF NotBegun, Streams
  <2>5. ShardsOK(s)' /\ Announced(s)'
    <3>1. DOMAIN shard'[s] = 1 .. Shards[s]
      BY <2>3
    <3>2. ASSUME NEW i \in 1 .. Shards[s]
          PROVE  Extended(shard[s][i], shard'[s][i], [type |-> "eof", expected |-> counts[i]])
      <4>1. /\ shard'[s][i] = Append(shard[s][i], [type |-> "eof", expected |-> counts[i]])
            /\ IsSeq(shard[s][i])
        BY <1>0, <2>3 DEF ShardsOK
      <4> QED
        BY <4>1, AppendExtends
    <3> QED
      BY <1>0, <2>2, <2>4, <3>1, <3>2, EofShards
  <2>6. ASSUME NEW t \in Streams \ {s} PROVE ShardsOK(t)' /\ Announced(t)'
    <3>1. CASE s = "trans"
      <4>1. t = "accs" /\ \A i \in 1 .. Shards[t] : shard[t][i] = <<>>
        BY <1>0, <2>2, <3>1 DEF Streams, ShardsOK, NotBegun
      <4>2. DOMAIN shard'[t] = 1 .. Shards[t] /\ \A i \in 1 .. Shards[t] : shard'[t][i] = <<>>
        BY <1>0, <2>3, <4>1 DEF ShardsOK
      <4> QED
        BY <2>2, <3>1, <4>1, <4>2, FreshShards
    <3>2. CASE s # "trans"
      <4>1. reader' = "finished" /\ reader' # t
        BY <2>2, <3>2 DEF Streams
      <4>2. ~NotBegun(t)'
        BY <4>1 DEF NotBegun
      <4> QED
        BY <1>0, <2>3, <4>1, <4>2, SameShards
    <3> QED
      BY <3>1, <3>2
  <2>7. reader' \in Streams => counts' \in [1..Shards[reader'] -> Nat] /\ rr' \in Nat
    BY <2>2 DEF Streams
  <2> QED
    BY <2>3, <2>5, <2>6, <2>7, ShardsByStreamNext
<1>5. CASE Abort /\ reader \in Streams
  <2>1. /\ reader' = "aborted"
        /\ shard' = [s \in Streams |-> [i \in 1..Shards[s] |-> Append(shard[s][i], [type |-> "abort"])]]
    BY <1>5 DEF Abort, Streams
  <2>2. ASSUME NEW s \in Streams PROVE ShardsOK(s)' /\ Announced(s)'
    <3>1. reader' # s /\ ~NotBegun(s)'
      BY <2>1 DEF NotBegun, Streams
    <3>2. DOMAIN shard'[s] = 1 .. Shards[s]
      BY <2>1
    <3>3. ASSUME NEW i \in 1 .. Shards[s]
          PROVE  Extended(shard[s][i], shard'[s][i], [type |-> "abort"])
      <4>1. shard'[s][i] = Append(shard[s][i], [type |-> "abort"]) /\ IsSeq(shard[s][i])
        BY <1>0, <2>1 DEF ShardsOK
      <4> QED
        BY <4>1, AppendExtends
    <3> QED
      BY <1>0, <3>1, <3>2, <3>3, AbortShards
  <2> QED
    BY <2>1, <2>2, ShardsByStreamNext DEF Streams
<1>6. CASE Abort /\ reader \notin Streams
  BY <1>6, QuietShards DEF Abort, Streams, NotBegun
<1>7. CASE RecvHello \/ HandshakeFails \/ ReaderFails
  BY <1>7, QuietShards DEF RecvHello, HandshakeFails, ReaderFails, Streams, NotBegun
<1>8. CASE ClientNext /\ ~Connect
  <2>1. UNCHANGED <<shard, counts, rr, reader>>
    BY <1>8 DEF ClientNext, ConnectGivesUp, SendHello, RecvHelloAck, WorkerPut, SendTransactions,
       SendTransactionsEOF, SendAccounts, RecvResponse, ConnectionEnded, gateVars
  <2> QED
    BY <2>1, QuietShards
<1>9. CASE ResponderNext \/ JoinNext \/ ClientLeaves \/ Shutdown
  <2>1. UNCHANGED <<shard, counts, rr, reader>>
    BY <1>9 DEF ResponderNext, StartConsuming, DeliverResponse, DeliveryFails, CloseResponses, JoinNext, Respond, Finalize, JoinCrash,
       ClientLeaves, Shutdown, gateVars
  <2> QED
    BY <2>1, QuietShards
<1>10. CASE UNCHANGED vars
  BY <1>10, QuietShards DEF vars, gateVars
<1> QED
  BY <1>1, <1>2, <1>3, <1>4, <1>5, <1>6, <1>7, <1>8, <1>9, <1>10 DEF Next, ReaderNext

(* The EOF that _forward_sharded sends a shard announces exactly what the   *)
(* shard holds, only an Abort follows it, and no number is given twice, so   *)
(* that the ring barrier behind the shards can close, and closes on all.     *)
THEOREM ShardsAnnouncedTruly == Spec => []ShardsAnnounced
<1>1. ShardInv => ShardsAnnounced
  BY DEF ShardInv
<1>2. Init => ResponseInv /\ ShardInv
  BY InitResponses, InitShards
<1>3. ResponseInv /\ ShardInv /\ [Next]_vars => ResponseInv' /\ ShardInv'
  BY NextResponses, NextShards
<1> QED
  BY <1>1, <1>2, <1>3, PTL DEF Spec

-----------------------------------------------------------------------------
(* The upload of the transactions: the inductive invariant *)

(* The lines that some worker reads: those no worker's range begins with. *)
Assigned == {k \in Lines : \A w \in 0..Workers : Offset(k) # Bound(w)}

(* Places of transactions on the wire, and the transactions themselves. *)
BatchAt(q) == {i \in DOMAIN q : q[i].type = "trans"}
Batches(q) == {q[i].batch : i \in BatchAt(q)}
BatchesOnce(q) == \A i, j \in BatchAt(q) : q[i].batch = q[j].batch => i = j

(* Places of lines and of markers d in the workers' queue. *)
LineAt(q, d) == {i \in DOMAIN q : q[i] # d}
Queued(q, d) == {q[i] : i \in LineAt(q, d)}
QueuedOnce(q, d) == \A i, j \in LineAt(q, d) : q[i] = q[j] => i = j
MarkersAt(q, d) == {i \in DOMAIN q : q[i] = d}

(* Lines the workers have not read, and the workers that go on. *)
Unread == {k \in Lines : \E w \in 1..Workers : k \in left[w]}
Reading == {w \in 1..Workers : DONE \in left[w]}

EofOnWire == \E i \in DOMAIN c2g : c2g[i].type = "eof"

(* What the client sends, and lines among it before any EOF. *)
WireMsgs(q) ==
  /\ IsSeq(q)
  /\ \A i \in DOMAIN q :
       /\ q[i].type \in {"hello", "trans", "accs", "eof"}
       /\ q[i].type = "trans" => q[i].batch \in Lines
  /\ \A i, j \in DOMAIN q : q[i].type = "eof" /\ q[j].type = "trans" => j < i

UploadTyped ==
  /\ layout \in Layouts /\ finished \in Nat /\ timeouts \in Nat /\ closed \in BOOLEAN
  /\ IsSeq(queue) /\ \A i \in DOMAIN queue : queue[i] \in Lines \cup {DONE}
  /\ DOMAIN left = 1..Workers /\ \A w \in 1..Workers : left[w] \subseteq Lines \cup {DONE}
  /\ WireMsgs(c2g)

(* Nothing is uploaded before the handshake is over. *)
NotStarted ==
  /\ client \in {"start", "connected", "ack"} =>
       /\ queue = <<>> /\ finished = 0 /\ \A w \in 1..Workers : left[w] = {}
       /\ BatchAt(c2g) = {} /\ ~EofOnWire /\ Forwarded("trans") = {}
  /\ reader \in {"none", "hello", "helloAck"} => ~EofOnWire

(* A line is in one place: unread, in the queue, on the wire or on a shard. *)
InOnePlace ==
  /\ ForwardedOnce("trans") /\ BatchesOnce(c2g) /\ QueuedOnce(queue, DONE)
  /\ \A v, w \in 1..Workers : v # w => left[v] \cap left[w] \subseteq {DONE}
  /\ Queued(queue, DONE) \cap Unread = {}
  /\ Batches(c2g) \cap Unread = {} /\ Batches(c2g) \cap Queued(queue, DONE) = {}
  /\ Forwarded("trans") \cap Unread = {} /\ Forwarded("trans") \cap Queued(queue, DONE) = {}
  /\ Forwarded("trans") \cap Batches(c2g) = {}

(* A worker's marker comes behind its lines, and each marker is counted once. *)
MarkersOK ==
  /\ \A w \in 1..Workers : left[w] # {} => DONE \in left[w]
  /\ client = "trans" =>
       /\ finished + Cardinality(MarkersAt(queue, DONE)) + Cardinality(Reading) = Workers
       /\ \A i \in LineAt(queue, DONE) :
            Reading # {} \/ \E j \in MarkersAt(queue, DONE) : i < j

(* No line is lost on the way, and an EOF is behind all of them. *)
Covers ==
  /\ client = "trans" => ~EofOnWire
  /\ client = "trans" /\ ~closed =>
       Forwarded("trans") \cup Batches(c2g) \cup Queued(queue, DONE) \cup Unread = Assigned
  /\ timeouts = 0 =>
       /\ reader = "trans" /\ (EofOnWire \/ (~closed /\ client \in {"accs", "wait", "done"})) =>
            Forwarded("trans") \cup Batches(c2g) = Assigned
       /\ HasEOF("trans") => Forwarded("trans") = Assigned

CoverInv == UploadTyped /\ NotStarted /\ InOnePlace /\ MarkersOK /\ Covers

-----------------------------------------------------------------------------
(* The split of the file *)

(* What the ranges i * size // n of _send_transactions_parallel rest on.      *)
LEMMA BoundsGrow ==
  ASSUME NEW n \in Nat \ {0}, NEW size \in Nat, NEW v \in Nat, NEW w \in Nat, v <= w
  PROVE  (v * size) \div n \in Nat /\ (v * size) \div n <= (w * size) \div n
<1>1. v * size \in Nat /\ w * size \in Nat /\ v * size <= w * size
  OBVIOUS
<1> DEFINE a == v * size
           b == w * size
<1> HIDE DEF a, b
<1>2. a \in Nat /\ b \in Nat /\ a <= b
  BY <1>1 DEF a, b
<1>3. a \div n \in Nat /\ a \div n <= b \div n
  BY <1>2
<1> QED
  BY <1>3 DEF a, b

(* The ranges begin with the file and end with it.                            *)
LEMMA BoundsEnds ==
  ASSUME NEW n \in Nat \ {0}, NEW size \in Nat
  PROVE  (0 * size) \div n = 0 /\ (n * size) \div n = size
<1>1. 0 * size = 0 /\ 0 \div n = 0
  OBVIOUS
<1>2. (n * size) \div n = size
  OBVIOUS
<1> QED
  BY <1>1, <1>2

(* What a file is: its lines start one behind the other, and it ends behind the last one. *)
LEMMA FileShape ==
  ASSUME layout \in Layouts
  PROVE  /\ Size \in Nat /\ DONE \in Nat /\ DONE \notin Lines /\ Lines \subseteq Nat /\ IsFiniteSet(Lines)
         /\ \A k \in Lines : k < DONE /\ Offset(k) \in Nat /\ 0 < Offset(k) /\ Offset(k) < Size
<1>1. /\ layout \in Seq(Nat) /\ Len(layout) > 1 /\ layout[1] = 0
      /\ \A i, k \in DOMAIN layout : i < k => layout[i] < layout[k]
  BY SessionAssumption
<1>2. Len(layout) \in Nat /\ DOMAIN layout = 1 .. Len(layout) /\ layout \in [1 .. Len(layout) -> Nat]
  BY <1>1, LenProperties
<1>3. IsFiniteSet(Lines)
  BY <1>2, FS_Interval DEF Lines
<1>4. ASSUME NEW k \in Lines PROVE k < DONE /\ Offset(k) \in Nat /\ 0 < Offset(k) /\ Offset(k) < Size
  <2>1. k \in Nat /\ 1 < k /\ k < Len(layout) /\ 1 \in DOMAIN layout /\ k \in DOMAIN layout /\ Len(layout) \in DOMAIN layout
    BY <1>1, <1>2 DEF Lines
  <2>2. layout[1] < layout[k] /\ layout[k] < layout[Len(layout)] /\ layout[k] \in Nat
    BY <1>1, <1>2, <2>1
  <2> QED
    BY <1>1, <2>1, <2>2 DEF Offset, Size, DONE
<1>5. Size \in Nat /\ DONE \in Nat /\ DONE \notin Lines /\ Lines \subseteq Nat
  BY <1>1, <1>2 DEF Size, DONE, Lines
<1> QED
  BY <1>3, <1>4, <1>5

(* The bounds of the ranges, for this file. *)
LEMMA FileBounds ==
  ASSUME layout \in Layouts
  PROVE  /\ Bound(0) = 0 /\ Bound(Workers) = Size
         /\ \A w \in 0 .. Workers : Bound(w) \in Nat
         /\ \A v, w \in 0 .. Workers : v <= w => Bound(v) <= Bound(w)
<1>1. Workers \in Nat \ {0} /\ Size \in Nat
  BY SessionAssumption, FileShape
<1>2. Bound(0) = 0 /\ Bound(Workers) = Size
  BY <1>1, BoundsEnds DEF Bound
<1>3. ASSUME NEW v \in 0 .. Workers, NEW w \in 0 .. Workers, v <= w
      PROVE  Bound(v) \in Nat /\ Bound(v) <= Bound(w)
  BY <1>1, <1>3, BoundsGrow DEF Bound
<1> QED
  BY <1>1, <1>2, <1>3

(* A nonempty set of natural numbers has a least element. *)
LEMMA LeastNat ==
  ASSUME NEW T, T \subseteq Nat, T # {}
  PROVE  \E n \in T : \A m \in T : n <= m
<1> DEFINE R == OpToRel(<, Nat)
<1>1. IsWellFoundedOn(R, Nat)
  BY NatLessThanWellFounded
<1>2. PICK n \in T : \A m \in T : ~(<<m, n>> \in R)
  BY <1>1, WFMin
<1>3. \A m \in T : ~(m < n)
  BY <1>2 DEF OpToRel
<1> QED
  BY <1>3

(* Each line that no range begins with is in exactly one range, and no other line is in any. *)
LEMMA RangesSplit ==
  ASSUME layout \in Layouts
  PROVE  /\ UNION {Owned(w) : w \in 1 .. Workers} = Assigned
         /\ \A v, w \in 1 .. Workers : v # w => Owned(v) \cap Owned(w) = {}
<1>1. Workers \in Nat \ {0}
  BY SessionAssumption
<1>2. /\ Bound(0) = 0 /\ Bound(Workers) = Size
      /\ \A w \in 0 .. Workers : Bound(w) \in Nat
      /\ \A v, w \in 0 .. Workers : v <= w => Bound(v) <= Bound(w)
  BY FileBounds
<1>3. \A k \in Lines : Offset(k) \in Nat /\ 0 < Offset(k) /\ Offset(k) < Size
  BY FileShape
<1>4. ASSUME NEW v \in 1 .. Workers, NEW w \in 1 .. Workers, v < w PROVE Owned(v) \cap Owned(w) = {}
  <2>1. v \in 0 .. Workers /\ w - 1 \in 0 .. Workers /\ v <= w - 1
    BY <1>1, <1>4
  <2>2. Bound(v) \in Nat /\ Bound(w - 1) \in Nat /\ Bound(v) <= Bound(w - 1)
    BY <1>2, <2>1
  <2> QED
    BY <1>3, <2>2 DEF Owned
<1>5. \A v, w \in 1 .. Workers : v # w => Owned(v) \cap Owned(w) = {}
  <2>1. ASSUME NEW v \in 1 .. Workers, NEW w \in 1 .. Workers, v # w PROVE Owned(v) \cap Owned(w) = {}
    <3>1. v < w \/ w < v
      BY <1>1, <2>1
    <3> QED
      BY <1>4, <3>1
  <2> QED
    BY <2>1
<1>6. ASSUME NEW w \in 1 .. Workers, NEW k \in Owned(w) PROVE k \in Assigned
  <2>1. k \in Lines /\ Bound(w - 1) < Offset(k) /\ Offset(k) < Bound(w)
    BY DEF Owned
  <2>2. w - 1 \in 0 .. Workers /\ w \in 0 .. Workers
    BY <1>1
  <2>3. ASSUME NEW v \in 0 .. Workers PROVE Offset(k) # Bound(v)
    <3>1. v <= w - 1 \/ w <= v
      BY <1>1
    <3>2. /\ Bound(v) \in Nat /\ Bound(w) \in Nat /\ Bound(w - 1) \in Nat /\ Offset(k) \in Nat
          /\ Bound(v) <= Bound(w - 1) \/ Bound(w) <= Bound(v)
      BY <1>2, <1>3, <2>1, <2>2, <3>1
    <3> QED
      BY <2>1, <3>2
  <2> QED
    BY <2>1, <2>3 DEF Assigned
<1>7. ASSUME NEW k \in Assigned PROVE \E w \in 1 .. Workers : k \in Owned(w)
  <2>1. k \in Lines /\ \A w \in 0 .. Workers : Offset(k) # Bound(w)
    BY DEF Assigned
  <2> DEFINE T == {w \in 0 .. Workers : Offset(k) < Bound(w)}
  <2>2. Workers \in T /\ T \subseteq Nat
    BY <1>1, <1>2, <1>3, <2>1
  <2>3. PICK w \in T : \A v \in T : w <= v
    BY <2>2, LeastNat
  <2>4. w # 0
    BY <1>2, <1>3, <2>1
  <2>5. w \in 1 .. Workers /\ w - 1 \in 0 .. Workers /\ w - 1 \notin T
    BY <1>1, <2>3, <2>4
  <2>6. Bound(w - 1) < Offset(k) /\ Offset(k) < Bound(w)
    BY <1>2, <1>3, <2>1, <2>5
  <2> QED
    BY <2>1, <2>5, <2>6 DEF Owned
<1> QED
  BY <1>5, <1>6, <1>7

-----------------------------------------------------------------------------
(* Lines on the wire and in the workers' queue *)

(* The queue t is q without its first message. *)
Shortened(q, t) ==
  /\ IsSeq(t) /\ Len(q) \in Nat /\ Len(q) > 0 /\ Len(t) = Len(q) - 1
  /\ DOMAIN q = 1 .. Len(q) /\ DOMAIN t = 1 .. Len(q) - 1
  /\ \A k \in DOMAIN t : k + 1 \in DOMAIN q /\ t[k] = q[k + 1]
  /\ \A k \in DOMAIN q : k = 1 \/ (k - 1 \in DOMAIN t /\ t[k - 1] = q[k])

(* recv and queue.get take the first message. *)
LEMMA TailShortens ==
  ASSUME NEW q, IsSeq(q), q # <<>>
  PROVE  Shortened(q, Tail(q)) /\ Head(q) = q[1] /\ 1 \in DOMAIN q
<1> DEFINE S == {q[k] : k \in 1 .. Len(q)}
<1>1. Len(q) \in Nat /\ q = [k \in 1 .. Len(q) |-> q[k]]
  BY DEF IsSeq
<1>2. q \in [1 .. Len(q) -> S]
  BY <1>1
<1>3. q \in Seq(S)
  BY <1>1, <1>2, SeqDef
<1> DEFINE t == Tail(q)
<1>4. /\ t \in Seq(S) /\ Len(t) = Len(q) - 1 /\ Head(q) = q[1]
      /\ \A k \in 1 .. Len(t) : t[k] = q[k + 1]
  BY <1>3, HeadTailProperties
<1>5. /\ Len(t) \in Nat /\ DOMAIN t = 1 .. Len(t) /\ t = [k \in 1 .. Len(t) |-> t[k]]
      /\ DOMAIN q = 1 .. Len(q)
  BY <1>3, <1>4, LenProperties
<1> HIDE DEF t, S
<1>6. Len(q) > 0 /\ IsSeq(t)
  BY <1>1, <1>4, <1>5 DEF IsSeq
<1>7. \A k \in DOMAIN t : k + 1 \in DOMAIN q /\ t[k] = q[k + 1]
  BY <1>4, <1>5
<1>8. \A k \in DOMAIN q : k = 1 \/ (k - 1 \in DOMAIN t /\ t[k - 1] = q[k])
  BY <1>1, <1>4, <1>5
<1> QED
  BY <1>1, <1>4, <1>5, <1>6, <1>7, <1>8 DEF Shortened, t

(* A socket that closes delivers a prefix. *)
LEMMA PrefixCuts ==
  ASSUME NEW q, IsSeq(q), NEW n \in 0 .. Len(q)
  PROVE  LET t == SubSeq(q, 1, n)
         IN  /\ IsSeq(t) /\ Len(t) = n /\ DOMAIN t = 1 .. n /\ DOMAIN q = 1 .. Len(q) /\ Len(q) \in Nat
             /\ \A k \in 1 .. n : t[k] = q[k] /\ k \in DOMAIN q
<1> DEFINE S == {q[k] : k \in 1 .. Len(q)}
           t == SubSeq(q, 1, n)
<1>1. Len(q) \in Nat /\ q = [k \in 1 .. Len(q) |-> q[k]]
  BY DEF IsSeq
<1>2. q \in [1 .. Len(q) -> S]
  BY <1>1
<1>3. q \in Seq(S)
  BY <1>1, <1>2, SeqDef
<1>4. Len(t) = n /\ \A k \in 1 .. n : t[k] = q[k]
  BY <1>1, <1>3, SubSeqProperties
<1>5. t \in Seq(S)
  BY <1>1, <1>3, SubSeqProperties
<1>6. DOMAIN t = 1 .. n /\ t = [k \in 1 .. Len(t) |-> t[k]] /\ DOMAIN q = 1 .. Len(q)
  BY <1>3, <1>4, <1>5, LenProperties
<1> HIDE DEF t, S
<1>7. IsSeq(t) /\ \A k \in 1 .. n : k \in DOMAIN q
  BY <1>1, <1>4, <1>6 DEF IsSeq
<1> QED
  BY <1>1, <1>4, <1>6, <1>7 DEF t

(* A send puts at most one line on the wire. *)
LEMMA WireAppend ==
  ASSUME NEW q, IsSeq(q), NEW m
  PROVE  LET a == Append(q, m)
         IN  /\ m.type # "trans" => BatchAt(a) = BatchAt(q) /\ Batches(a) = Batches(q)
             /\ m.type # "trans" /\ BatchesOnce(q) => BatchesOnce(a)
             /\ m.type = "trans" => Batches(a) = Batches(q) \cup {m.batch}
             /\ m.type = "trans" /\ BatchesOnce(q) /\ m.batch \notin Batches(q) => BatchesOnce(a)
<1> DEFINE a == Append(q, m)
           l == Len(q) + 1
<1>1. Extended(q, a, m)
  BY AppendExtends
<1> HIDE DEF a
<1>2. /\ a[l] = m /\ l \in DOMAIN a /\ l \notin DOMAIN q
      /\ \A k \in DOMAIN q : k \in DOMAIN a /\ a[k] = q[k]
      /\ \A k \in DOMAIN a : k = l \/ (k \in DOMAIN q /\ a[k] = q[k])
  BY <1>1 DEF Extended
<1> HIDE DEF l
<1>3. CASE m.type # "trans"
  <2>1. BatchAt(a) = BatchAt(q) /\ \A i \in BatchAt(q) : a[i] = q[i]
    BY <1>2, <1>3 DEF BatchAt
  <2>2. Batches(a) = Batches(q)
    BY <2>1 DEF Batches
  <2>3. BatchesOnce(q) => BatchesOnce(a)
    BY <2>1 DEF BatchesOnce
  <2> QED
    BY <1>3, <2>1, <2>2, <2>3 DEF a
<1>4. CASE m.type = "trans"
  <2>1. BatchAt(a) = BatchAt(q) \cup {l} /\ l \notin BatchAt(q) /\ \A i \in BatchAt(q) : a[i] = q[i]
    BY <1>2, <1>4 DEF BatchAt
  <2>2. Batches(a) = Batches(q) \cup {m.batch}
    BY <1>2, <2>1 DEF Batches
  <2>3. ASSUME BatchesOnce(q), m.batch \notin Batches(q) PROVE BatchesOnce(a)
    <3>1. ASSUME NEW i \in BatchAt(a), NEW j \in BatchAt(a), a[i].batch = a[j].batch PROVE i = j
      <4>1. \A k \in BatchAt(q) : q[k].batch # m.batch
        BY <2>3 DEF Batches
      <4> QED
        BY <1>2, <2>1, <2>3, <3>1, <4>1 DEF BatchesOnce
    <3> QED
      BY <3>1 DEF BatchesOnce
  <2> QED
    BY <1>4, <2>2, <2>3 DEF a
<1> QED
  BY <1>3, <1>4

(* recv takes at most one line off the wire. *)
LEMMA WireTail ==
  ASSUME NEW q, NEW t, Shortened(q, t), BatchesOnce(q)
  PROVE  /\ BatchesOnce(t)
         /\ q[1].type # "trans" => Batches(t) = Batches(q)
         /\ q[1].type = "trans" => Batches(q) = Batches(t) \cup {q[1].batch} /\ q[1].batch \notin Batches(t)
<1>1. /\ Len(q) \in Nat /\ Len(q) > 0 /\ DOMAIN q = 1 .. Len(q) /\ DOMAIN t = 1 .. Len(q) - 1
      /\ \A k \in DOMAIN t : k + 1 \in DOMAIN q /\ t[k] = q[k + 1]
      /\ \A k \in DOMAIN q : k = 1 \/ (k - 1 \in DOMAIN t /\ t[k - 1] = q[k])
  BY DEF Shortened
<1>2. \A k \in BatchAt(t) : k \in Nat /\ k # 0 /\ k + 1 \in BatchAt(q) /\ t[k] = q[k + 1]
  BY <1>1 DEF BatchAt
<1>3. \A k \in BatchAt(q) : k \in Nat /\ (k = 1 \/ (k - 1 \in BatchAt(t) /\ t[k - 1] = q[k]))
  BY <1>1 DEF BatchAt
<1>4. BatchesOnce(t)
  <2>1. ASSUME NEW i \in BatchAt(t), NEW j \in BatchAt(t), t[i].batch = t[j].batch PROVE i = j
    <3>1. i + 1 = j + 1
      BY <1>2, <2>1 DEF BatchesOnce
    <3> QED
      BY <1>2, <3>1
  <2> QED
    BY <2>1 DEF BatchesOnce
<1>5. Batches(t) \subseteq Batches(q)
  BY <1>2 DEF Batches
<1>6. CASE q[1].type # "trans"
  <2>1. 1 \notin BatchAt(q)
    BY <1>6 DEF BatchAt
  <2>2. Batches(q) \subseteq Batches(t)
    BY <1>3, <2>1 DEF Batches
  <2> QED
    BY <1>4, <1>5, <1>6, <2>2
<1>7. CASE q[1].type = "trans"
  <2>1. 1 \in BatchAt(q)
    BY <1>1, <1>7 DEF BatchAt
  <2>2. Batches(q) = Batches(t) \cup {q[1].batch}
    <3>1. q[1].batch \in Batches(q)
      BY <2>1 DEF Batches
    <3>2. ASSUME NEW k \in BatchAt(q) PROVE q[k].batch \in Batches(t) \cup {q[1].batch}
      BY <1>3 DEF Batches
    <3>3. Batches(q) \subseteq Batches(t) \cup {q[1].batch}
      BY <3>2 DEF Batches
    <3> QED
      BY <1>5, <3>1, <3>3
  <2>3. ASSUME NEW k \in BatchAt(t), t[k].batch = q[1].batch PROVE FALSE
    <3>1. k + 1 \in BatchAt(q) /\ t[k] = q[k + 1] /\ k + 1 # 1
      BY <1>2
    <3>2. k + 1 = 1
      BY <2>1, <2>3, <3>1 DEF BatchesOnce
    <3> QED
      BY <3>1, <3>2
  <2>4. q[1].batch \notin Batches(t)
    BY <2>3 DEF Batches
  <2> QED
    BY <1>4, <1>7, <2>2, <2>4
<1> QED
  BY <1>6, <1>7

(* The places of markers in the workers' queue. *)
LEMMA MarkersFinite ==
  ASSUME NEW q, IsSeq(q), NEW d
  PROVE  IsFiniteSet(MarkersAt(q, d)) /\ Cardinality(MarkersAt(q, d)) \in Nat
<1>1. Len(q) \in Nat /\ DOMAIN q = 1 .. Len(q)
  BY DEF IsSeq
<1>2. IsFiniteSet(1 .. Len(q))
  BY <1>1, FS_Interval
<1>3. MarkersAt(q, d) \in SUBSET (1 .. Len(q))
  BY <1>1 DEF MarkersAt
<1>4. IsFiniteSet(MarkersAt(q, d))
  BY <1>2, <1>3, FS_Subset
<1> QED
  BY <1>4, FS_CardinalityType

(* queue.put of a line. *)
LEMMA QueuePutLine ==
  ASSUME NEW q, IsSeq(q), NEW d, NEW x, x # d
  PROVE  LET a == Append(q, x)
         IN  /\ Queued(a, d) = Queued(q, d) \cup {x} /\ MarkersAt(a, d) = MarkersAt(q, d)
             /\ QueuedOnce(q, d) /\ x \notin Queued(q, d) => QueuedOnce(a, d)
<1> DEFINE a == Append(q, x)
           l == Len(q) + 1
<1>1. Extended(q, a, x)
  BY AppendExtends
<1> HIDE DEF a
<1>2. /\ a[l] = x /\ l \in DOMAIN a /\ l \notin DOMAIN q
      /\ \A k \in DOMAIN q : k \in DOMAIN a /\ a[k] = q[k]
      /\ \A k \in DOMAIN a : k = l \/ (k \in DOMAIN q /\ a[k] = q[k])
  BY <1>1 DEF Extended
<1> HIDE DEF l
<1>3. MarkersAt(a, d) = MarkersAt(q, d)
  BY <1>2 DEF MarkersAt
<1>4. LineAt(a, d) = LineAt(q, d) \cup {l} /\ l \notin LineAt(q, d) /\ \A i \in LineAt(q, d) : a[i] = q[i]
  BY <1>2 DEF LineAt
<1>5. Queued(a, d) = Queued(q, d) \cup {x}
  BY <1>2, <1>4 DEF Queued
<1>6. ASSUME QueuedOnce(q, d), x \notin Queued(q, d) PROVE QueuedOnce(a, d)
  <2>1. \A k \in LineAt(q, d) : q[k] # x
    BY <1>6 DEF Queued
  <2>2. ASSUME NEW i \in LineAt(a, d), NEW j \in LineAt(a, d), a[i] = a[j] PROVE i = j
    BY <1>2, <1>4, <1>6, <2>1, <2>2 DEF QueuedOnce
  <2> QED
    BY <2>2 DEF QueuedOnce
<1> QED
  BY <1>3, <1>5, <1>6 DEF a

(* queue.put of a marker. *)
LEMMA QueuePutMarker ==
  ASSUME NEW q, IsSeq(q), NEW d
  PROVE  LET a == Append(q, d)
         IN  /\ LineAt(a, d) = LineAt(q, d) /\ Queued(a, d) = Queued(q, d)
             /\ QueuedOnce(q, d) => QueuedOnce(a, d)
             /\ Len(q) + 1 \in MarkersAt(a, d) /\ \A i \in LineAt(a, d) : i < Len(q) + 1
             /\ Cardinality(MarkersAt(a, d)) = Cardinality(MarkersAt(q, d)) + 1
<1> DEFINE a == Append(q, d)
           l == Len(q) + 1
<1>1. Extended(q, a, d)
  BY AppendExtends
<1> HIDE DEF a
<1>2. /\ a[l] = d /\ l \in DOMAIN a /\ l \notin DOMAIN q /\ DOMAIN q = 1 .. Len(q) /\ Len(q) \in Nat
      /\ \A k \in DOMAIN q : k \in DOMAIN a /\ a[k] = q[k]
      /\ \A k \in DOMAIN a : k = l \/ (k \in DOMAIN q /\ a[k] = q[k])
  BY <1>1 DEF Extended
<1>3. \A i \in DOMAIN q : i < l
  BY <1>2
<1> HIDE DEF l
<1>4. LineAt(a, d) = LineAt(q, d) /\ \A i \in LineAt(q, d) : a[i] = q[i] /\ i < l
  BY <1>2, <1>3 DEF LineAt
<1>5. Queued(a, d) = Queued(q, d)
  BY <1>4 DEF Queued
<1>6. QueuedOnce(q, d) => QueuedOnce(a, d)
  BY <1>4 DEF QueuedOnce
<1>7. MarkersAt(a, d) = MarkersAt(q, d) \cup {l} /\ l \notin MarkersAt(q, d) /\ MarkersAt(q, d) \subseteq 1 .. Len(q)
  BY <1>2 DEF MarkersAt
<1>8. IsFiniteSet(MarkersAt(q, d))
  BY MarkersFinite
<1>9. Cardinality(MarkersAt(a, d)) = Cardinality(MarkersAt(q, d)) + 1
  BY <1>7, <1>8, FS_AddElement
<1> QED
  BY <1>4, <1>5, <1>6, <1>7, <1>9 DEF a, l

(* queue.get *)
LEMMA QueueTail ==
  ASSUME NEW q, NEW t, IsSeq(q), Shortened(q, t), NEW d, QueuedOnce(q, d)
  PROVE  /\ QueuedOnce(t, d)
         /\ \A i \in LineAt(t, d) : i + 1 \in LineAt(q, d)
         /\ \A i \in MarkersAt(q, d) : i = 1 \/ i - 1 \in MarkersAt(t, d)
         /\ q[1] = d => /\ Queued(t, d) = Queued(q, d)
                        /\ Cardinality(MarkersAt(q, d)) = Cardinality(MarkersAt(t, d)) + 1
         /\ q[1] # d => /\ Queued(q, d) = Queued(t, d) \cup {q[1]} /\ q[1] \notin Queued(t, d)
                        /\ Cardinality(MarkersAt(q, d)) = Cardinality(MarkersAt(t, d))
         /\ IsFiniteSet(MarkersAt(q, d)) /\ IsFiniteSet(MarkersAt(t, d))
<1>1. /\ Len(q) \in Nat /\ Len(q) > 0 /\ DOMAIN q = 1 .. Len(q) /\ DOMAIN t = 1 .. Len(q) - 1
      /\ \A k \in DOMAIN t : k + 1 \in DOMAIN q /\ t[k] = q[k + 1]
      /\ \A k \in DOMAIN q : k = 1 \/ (k - 1 \in DOMAIN t /\ t[k - 1] = q[k])
  BY DEF Shortened
<1>2. \A k \in LineAt(t, d) : k \in Nat /\ k # 0 /\ k + 1 \in LineAt(q, d) /\ t[k] = q[k + 1]
  BY <1>1 DEF LineAt
<1>3. \A k \in LineAt(q, d) : k \in Nat /\ (k = 1 \/ (k - 1 \in LineAt(t, d) /\ t[k - 1] = q[k]))
  BY <1>1 DEF LineAt
<1>4. QueuedOnce(t, d)
  <2>1. ASSUME NEW i \in LineAt(t, d), NEW j \in LineAt(t, d), t[i] = t[j] PROVE i = j
    <3>1. i + 1 = j + 1
      BY <1>2, <2>1 DEF QueuedOnce
    <3> QED
      BY <1>2, <3>1
  <2> QED
    BY <2>1 DEF QueuedOnce
<1>5. Queued(t, d) \subseteq Queued(q, d)
  BY <1>2 DEF Queued
<1>6. ASSUME q[1] = d PROVE Queued(t, d) = Queued(q, d)
  <2>1. 1 \notin LineAt(q, d)
    BY <1>6 DEF LineAt
  <2>2. Queued(q, d) \subseteq Queued(t, d)
    BY <1>3, <2>1 DEF Queued
  <2> QED
    BY <1>5, <2>2
<1>7. ASSUME q[1] # d PROVE Queued(q, d) = Queued(t, d) \cup {q[1]} /\ q[1] \notin Queued(t, d)
  <2>1. 1 \in LineAt(q, d)
    BY <1>1, <1>7 DEF LineAt
  <2>2. q[1] \in Queued(q, d)
    BY <2>1 DEF Queued
  <2>3. ASSUME NEW k \in LineAt(q, d) PROVE q[k] \in Queued(t, d) \cup {q[1]}
    BY <1>3 DEF Queued
  <2>4. Queued(q, d) \subseteq Queued(t, d) \cup {q[1]}
    BY <2>3 DEF Queued
  <2>5. ASSUME NEW k \in LineAt(t, d), t[k] = q[1] PROVE FALSE
    <3>1. k + 1 \in LineAt(q, d) /\ t[k] = q[k + 1] /\ k + 1 # 1
      BY <1>2
    <3>2. k + 1 = 1
      BY <2>1, <2>5, <3>1 DEF QueuedOnce
    <3> QED
      BY <3>1, <3>2
  <2>6. q[1] \notin Queued(t, d)
    BY <2>5 DEF Queued
  <2> QED
    BY <1>5, <2>2, <2>4, <2>6
<1> DEFINE P == MarkersAt(q, d)
           R == MarkersAt(t, d)
           f == [i \in R |-> i + 1]
<1>9. IsFiniteSet(P) /\ IsFiniteSet(R)
  BY MarkersFinite DEF Shortened
<1>10. \A i \in R : i \in Nat /\ i # 0 /\ i + 1 \in P \ {1}
  BY <1>1 DEF MarkersAt
<1>11. \A i \in P : i \in Nat /\ (i = 1 \/ i - 1 \in R)
  BY <1>1 DEF MarkersAt
<1>12. f \in Bijection(R, P \ {1})
  <2>1. f \in [R -> P \ {1}]
    BY <1>10
  <2>2. \A i, j \in R : f[i] = f[j] => i = j
    BY <1>10
  <2>3. \A i \in P \ {1} : \E j \in R : f[j] = i
    <3>1. ASSUME NEW i \in P \ {1} PROVE i - 1 \in R /\ f[i - 1] = i
      BY <1>11
    <3> QED
      BY <3>1
  <2> HIDE DEF P, R, f
  <2> QED
    BY <2>1, <2>2, <2>3 DEF Bijection, Injection, Surjection, IsInjective
<1>13. Cardinality(P \ {1}) = Cardinality(R)
  BY <1>9, <1>12, FS_Bijection DEF ExistsBijection
<1>14. q[1] # d => P \ {1} = P
  BY DEF MarkersAt
<1>15. q[1] = d => Cardinality(P) = Cardinality(R) + 1
  <2>1. ASSUME q[1] = d PROVE Cardinality(P) = Cardinality(R) + 1
    <3>1. 1 \in P
      BY <1>1, <2>1 DEF MarkersAt
    <3>2. Cardinality(P \ {1}) = Cardinality(P) - 1 /\ Cardinality(P) \in Nat
      BY <1>9, <3>1, FS_RemoveElement, FS_CardinalityType
    <3> QED
      BY <1>13, <3>2
  <2> QED
    BY <2>1
<1> HIDE DEF P, R, f
<1> QED
  BY <1>2, <1>4, <1>6, <1>7, <1>9, <1>11, <1>13, <1>14, <1>15 DEF P, R

-----------------------------------------------------------------------------
(* Lines on the shards *)

(* A step that leaves the data of the shards alone. *)
LEMMA ForwardedSame ==
  ASSUME \A i \in 1 .. Shards["trans"] :
           /\ DataAt("trans", i)' = DataAt("trans", i)
           /\ \A k \in DataAt("trans", i) : shard'["trans"][i][k] = shard["trans"][i][k]
  PROVE  /\ Forwarded("trans")' = Forwarded("trans")
         /\ ForwardedOnce("trans") => ForwardedOnce("trans")'
<1> DEFINE N == 1 .. Shards["trans"]
           on(i) == {shard["trans"][i][k].batch : k \in DataAt("trans", i)}
           onNext(i) == {shard'["trans"][i][k].batch : k \in DataAt("trans", i)'}
<1>1. \A i \in N : onNext(i) = on(i)
  OBVIOUS
<1>2. Forwarded("trans") = UNION {on(i) : i \in N} /\ Forwarded("trans")' = UNION {onNext(i) : i \in N}
  BY DEF Forwarded
<1>3. Forwarded("trans")' = Forwarded("trans")
  <2> HIDE DEF on, onNext
  <2> QED
    BY <1>1, <1>2
<1>4. ForwardedOnce("trans") => ForwardedOnce("trans")'
  BY DEF ForwardedOnce
<1> QED
  BY <1>3, <1>4

(* The shards of the transactions get an EOF or an Abort each. *)
LEMMA ForwardedExtended ==
  ASSUME \A i \in 1 .. Shards["trans"] :
           \E x : x.type # "trans" /\ Extended(shard["trans"][i], shard'["trans"][i], x)
  PROVE  /\ Forwarded("trans")' = Forwarded("trans")
         /\ ForwardedOnce("trans") => ForwardedOnce("trans")'
<1>1. ASSUME NEW i \in 1 .. Shards["trans"]
      PROVE  /\ DataAt("trans", i)' = DataAt("trans", i)
             /\ \A k \in DataAt("trans", i) : shard'["trans"][i][k] = shard["trans"][i][k]
  <2> DEFINE q == shard["trans"][i]
             a == shard'["trans"][i]
             l == Len(q) + 1
  <2>1. PICK x : x.type # "trans" /\ Extended(q, a, x)
    OBVIOUS
  <2>2. /\ a[l] = x
        /\ \A k \in DOMAIN q : k \in DOMAIN a /\ a[k] = q[k]
        /\ \A k \in DOMAIN a : k = l \/ (k \in DOMAIN q /\ a[k] = q[k])
    BY <2>1 DEF Extended
  <2>3. DataAt("trans", i) = {k \in DOMAIN q : q[k].type = "trans"}
        /\ DataAt("trans", i)' = {k \in DOMAIN a : a[k].type = "trans"}
    BY DEF DataAt
  <2> HIDE DEF q, a, l
  <2>4. /\ DataAt("trans", i)' = DataAt("trans", i)
        /\ \A k \in DataAt("trans", i) : a[k] = q[k]
    BY <2>1, <2>2, <2>3
  <2> QED
    BY <2>4 DEF a, q
<1> QED
  BY <1>1, ForwardedSame

(* _forward_sharded puts a line on one shard. *)
LEMMA ForwardedNext ==
  ASSUME ShardInv, Forward("trans"), NEW b, b = Head(c2g).batch,
         ForwardedOnce("trans"), b \notin Forwarded("trans")
  PROVE  Forwarded("trans")' = Forwarded("trans") \cup {b} /\ ForwardedOnce("trans")'
<1> DEFINE n == Shards["trans"]
           m == [type |-> "trans", batch |-> b, seq |-> rr]
<1>0. n \in Nat \ {0} /\ "trans" \in Streams
  BY SessionAssumption DEF Streams
<1>1. DOMAIN shard = Streams /\ ShardsOK("trans") /\ rr \in Nat /\ reader = "trans"
  BY <1>0 DEF ShardInv, Forward
<1>2. PICK p \in 1 .. n : p = (rr % n) + 1
  BY <1>0, <1>1
<1>3. shard' = [shard EXCEPT !["trans"][p] = Append(shard["trans"][p], m)]
  BY <1>2 DEF Forward
<1>4. m.type = "trans" /\ m.batch = b
  OBVIOUS
<1> HIDE DEF m
<1>5. DOMAIN shard["trans"] = 1 .. n /\ \A i \in 1 .. n : IsSeq(shard["trans"][i])
  BY <1>1 DEF ShardsOK
<1>6. /\ shard'["trans"][p] = Append(shard["trans"][p], m)
      /\ \A i \in 1 .. n : i # p => shard'["trans"][i] = shard["trans"][i]
  BY <1>0, <1>1, <1>2, <1>3, <1>5
<1> DEFINE l == Len(shard["trans"][p]) + 1
<1>7. Extended(shard["trans"][p], shard'["trans"][p], m)
  BY <1>2, <1>5, <1>6, AppendExtends
<1>8. /\ l \in DOMAIN shard'["trans"][p] /\ shard'["trans"][p][l] = m /\ l \notin DOMAIN shard["trans"][p]
      /\ \A k \in DOMAIN shard["trans"][p] :
           k \in DOMAIN shard'["trans"][p] /\ shard'["trans"][p][k] = shard["trans"][p][k]
      /\ \A k \in DOMAIN shard'["trans"][p] :
           k = l \/ (k \in DOMAIN shard["trans"][p] /\ shard'["trans"][p][k] = shard["trans"][p][k])
  BY <1>7 DEF Extended
<1> HIDE DEF l
<1>9. /\ DataAt("trans", p)' = DataAt("trans", p) \cup {l} /\ l \notin DataAt("trans", p)
      /\ \A k \in DataAt("trans", p) : shard'["trans"][p][k] = shard["trans"][p][k]
  BY <1>4, <1>8 DEF DataAt
<1>10. \A i \in 1 .. n : i # p =>
         /\ DataAt("trans", i)' = DataAt("trans", i)
         /\ \A k \in DataAt("trans", i) : shard'["trans"][i][k] = shard["trans"][i][k]
  BY <1>6 DEF DataAt
<1>11. ASSUME NEW i \in 1 .. n, NEW k \in DataAt("trans", i)
       PROVE  k \in DataAt("trans", i)' /\ shard'["trans"][i][k] = shard["trans"][i][k]
              /\ ~(i = p /\ k = l)
  BY <1>9, <1>10
<1>12. ASSUME NEW i \in 1 .. n, NEW k \in DataAt("trans", i)'
       PROVE  \/ i = p /\ k = l
              \/ k \in DataAt("trans", i) /\ shard'["trans"][i][k] = shard["trans"][i][k]
  BY <1>9, <1>10
<1>13. ASSUME NEW i \in 1 .. n, NEW k \in DataAt("trans", i) PROVE shard["trans"][i][k].batch \in Forwarded("trans")
  BY DEF Forwarded
<1>14. Forwarded("trans")' \subseteq Forwarded("trans") \cup {b}
  <2>1. ASSUME NEW i \in 1 .. n, NEW k \in DataAt("trans", i)'
        PROVE  shard'["trans"][i][k].batch \in Forwarded("trans") \cup {b}
    BY <1>4, <1>8, <1>12, <1>13
  <2> QED
    BY <2>1 DEF Forwarded
<1>15. Forwarded("trans") \cup {b} \subseteq Forwarded("trans")'
  <2>1. ASSUME NEW i \in 1 .. n, NEW k \in DataAt("trans", i)'
        PROVE  shard'["trans"][i][k].batch \in Forwarded("trans")'
    BY DEF Forwarded
  <2>2. b \in Forwarded("trans")'
    BY <1>2, <1>4, <1>8, <1>9, <2>1
  <2>3. ASSUME NEW i \in 1 .. n, NEW k \in DataAt("trans", i)
        PROVE  shard["trans"][i][k].batch \in Forwarded("trans")'
    BY <1>11, <2>1
  <2>4. Forwarded("trans") \subseteq Forwarded("trans")'
    BY <2>3 DEF Forwarded
  <2> QED
    BY <2>2, <2>4
<1>16. ForwardedOnce("trans")'
  <2>1. ASSUME NEW i \in 1 .. n, NEW j \in 1 .. n, NEW k \in DataAt("trans", i)', NEW h \in DataAt("trans", j)',
               shard'["trans"][i][k].batch = shard'["trans"][j][h].batch
        PROVE  i = j /\ k = h
    <3>1. CASE (i = p /\ k = l) /\ (j = p /\ h = l)
      BY <3>1
    <3>2. CASE ~(i = p /\ k = l) /\ ~(j = p /\ h = l)
      <4>1. /\ k \in DataAt("trans", i) /\ h \in DataAt("trans", j)
            /\ shard["trans"][i][k].batch = shard["trans"][j][h].batch
        BY <1>12, <2>1, <3>2
      <4> QED
        BY <4>1 DEF ForwardedOnce
    <3>3. CASE (i = p /\ k = l) /\ ~(j = p /\ h = l)
      BY <1>4, <1>8, <1>12, <1>13, <2>1, <3>3
    <3>4. CASE ~(i = p /\ k = l) /\ (j = p /\ h = l)
      BY <1>4, <1>8, <1>12, <1>13, <2>1, <3>4
    <3> QED
      BY <3>1, <3>2, <3>3, <3>4
  <2> QED
    BY <2>1 DEF ForwardedOnce
<1> QED
  BY <1>14, <1>15, <1>16

-----------------------------------------------------------------------------
(* Steps of the upload *)

(* The file does not change. *)
LEMMA SameFile ==
  ASSUME layout' = layout
  PROVE  Lines' = Lines /\ DONE' = DONE /\ Assigned' = Assigned /\ \A w : Owned(w)' = Owned(w)
<1>1. Lines' = Lines /\ DONE' = DONE /\ Size' = Size /\ \A k : Offset(k)' = Offset(k)
  BY DEF Lines, DONE, Size, Offset
<1>2. \A w : Bound(w)' = Bound(w)
  BY <1>1 DEF Bound
<1> QED
  BY <1>1, <1>2 DEF Assigned, Owned

(* ClientSends of a message that is not a line. *)
LEMMA SendsOther ==
  ASSUME WireMsgs(c2g), BatchesOnce(c2g), NEW m, m.type \in {"hello", "accs", "eof"}, ClientSends(m),
         layout' = layout, closed \in BOOLEAN
  PROVE  /\ WireMsgs(c2g)' /\ BatchesOnce(c2g)'
         /\ BatchAt(c2g)' = BatchAt(c2g) /\ Batches(c2g)' = Batches(c2g)
         /\ EofOnWire' => EofOnWire \/ (m.type = "eof" /\ ~closed)
<1>1. CASE closed
  <2>1. c2g' = c2g
    BY <1>1 DEF ClientSends
  <2> QED
    BY <2>1, SameFile DEF WireMsgs, BatchesOnce, BatchAt, Batches, EofOnWire
<1>2. CASE ~closed
  <2>1. IsSeq(c2g) /\ c2g' = Append(c2g, m)
    BY <1>2 DEF ClientSends, WireMsgs
  <2>2. BatchAt(c2g') = BatchAt(c2g) /\ Batches(c2g') = Batches(c2g) /\ BatchesOnce(c2g')
    BY <2>1, WireAppend
  <2> DEFINE l == Len(c2g) + 1
  <2>3. Extended(c2g, c2g', m)
    BY <2>1, AppendExtends
  <2>4. /\ IsSeq(c2g') /\ c2g'[l] = m /\ DOMAIN c2g = 1 .. Len(c2g) /\ Len(c2g) \in Nat
        /\ \A k \in DOMAIN c2g' : k = l \/ (k \in DOMAIN c2g /\ c2g'[k] = c2g[k])
    BY <2>3 DEF Extended
  <2>5. \A k \in DOMAIN c2g : k < l
    BY <2>4
  <2> HIDE DEF l
  <2>6. WireMsgs(c2g')
    BY <2>4, <2>5 DEF WireMsgs
  <2>7. WireMsgs(c2g)'
    BY <2>6, SameFile DEF WireMsgs
  <2>8. EofOnWire' => EofOnWire \/ m.type = "eof"
    BY <2>4 DEF EofOnWire
  <2> QED
    BY <1>2, <2>2, <2>7, <2>8 DEF BatchAt, Batches, BatchesOnce
<1> QED
  BY <1>1, <1>2

(* recv in the handler. *)
LEMMA ReaderTakes ==
  ASSUME WireMsgs(c2g), BatchesOnce(c2g), c2g # <<>>, c2g' = Tail(c2g), layout' = layout
  PROVE  /\ WireMsgs(c2g)' /\ BatchesOnce(c2g)' /\ Head(c2g) = c2g[1] /\ 1 \in DOMAIN c2g
         /\ EofOnWire' => EofOnWire
         /\ BatchAt(c2g) = {} => BatchAt(c2g)' = {}
         /\ Head(c2g).type # "trans" => Batches(c2g)' = Batches(c2g)
         /\ Head(c2g).type = "trans" =>
              /\ Batches(c2g) = Batches(c2g)' \cup {Head(c2g).batch}
              /\ Head(c2g).batch \notin Batches(c2g)'
         /\ Head(c2g).type = "eof" => Batches(c2g)' = {} /\ EofOnWire
<1>1. IsSeq(c2g)
  BY DEF WireMsgs
<1>2. Shortened(c2g, c2g') /\ Head(c2g) = c2g[1] /\ 1 \in DOMAIN c2g
  BY <1>1, TailShortens
<1>3. /\ BatchesOnce(c2g')
      /\ c2g[1].type # "trans" => Batches(c2g') = Batches(c2g)
      /\ c2g[1].type = "trans" => Batches(c2g) = Batches(c2g') \cup {c2g[1].batch} /\ c2g[1].batch \notin Batches(c2g')
  BY <1>2, WireTail
<1>4. /\ IsSeq(c2g') /\ DOMAIN c2g \subseteq Nat /\ DOMAIN c2g' \subseteq Nat
      /\ \A k \in DOMAIN c2g' : k + 1 \in DOMAIN c2g /\ c2g'[k] = c2g[k + 1]
  BY <1>2 DEF Shortened
<1>5. WireMsgs(c2g')
  <2>1. ASSUME NEW i \in DOMAIN c2g', NEW j \in DOMAIN c2g', c2g'[i].type = "eof", c2g'[j].type = "trans"
        PROVE  j < i
    <3>1. i \in Nat /\ j \in Nat /\ j + 1 < i + 1
      BY <1>4, <2>1 DEF WireMsgs
    <3> QED
      BY <3>1
  <2>2. \A i \in DOMAIN c2g' :
          /\ c2g'[i].type \in {"hello", "trans", "accs", "eof"}
          /\ c2g'[i].type = "trans" => c2g'[i].batch \in Lines
    BY <1>4 DEF WireMsgs
  <2> QED
    BY <1>4, <2>1, <2>2 DEF WireMsgs
<1>6. WireMsgs(c2g)'
  BY <1>5, SameFile DEF WireMsgs
<1>7. EofOnWire' => EofOnWire
  BY <1>4 DEF EofOnWire
<1>8. BatchAt(c2g) = {} => BatchAt(c2g)' = {}
  BY <1>4 DEF BatchAt
<1>9. ASSUME c2g[1].type = "eof" PROVE Batches(c2g)' = {} /\ EofOnWire
  <2>1. ASSUME NEW j \in BatchAt(c2g) PROVE FALSE
    <3>1. j < 1 /\ j \in DOMAIN c2g
      BY <1>2, <1>9 DEF WireMsgs, BatchAt
    <3>2. \A k \in DOMAIN c2g : k >= 1
      BY <1>2 DEF Shortened
    <3> QED
      BY <1>4, <3>1, <3>2
  <2>2. BatchAt(c2g)' = {}
    BY <1>8, <2>1
  <2> QED
    BY <1>2, <1>9, <2>2 DEF Batches, EofOnWire
<1> QED
  BY <1>2, <1>3, <1>6, <1>7, <1>8, <1>9 DEF Batches, BatchesOnce, BatchAt

(* There are finitely many workers. *)
LEMMA WorkersFinite ==
  /\ Cardinality(1..Workers) = Workers
  /\ IsFiniteSet(Reading) /\ Cardinality(Reading) \in Nat
<1>1. Workers \in Nat \ {0}
  BY SessionAssumption
<1>2. 1 \in Int /\ Workers \in Int /\ ~(1 > Workers) /\ Workers - 1 + 1 = Workers
  BY <1>1
<1>3. IsFiniteSet(1..Workers) /\ Cardinality(1..Workers) = Workers
  BY <1>2, FS_Interval
<1>4. Reading \in SUBSET (1..Workers)
  BY DEF Reading
<1>5. IsFiniteSet(Reading)
  BY <1>3, <1>4, FS_Subset
<1> QED
  BY <1>3, <1>5, FS_CardinalityType

(* Steps that only move the threads: where they may move to. *)
LEMMA CoverQuiet ==
  ASSUME CoverInv,
         layout' = layout, left' = left, queue' = queue, finished' = finished, timeouts' = timeouts,
         c2g' = c2g, shard'["trans"] = shard["trans"], closed' \in BOOLEAN, closed => closed',
         client' \in {"start", "connected", "ack"} => client \in {"start", "connected", "ack"},
         client' = "trans" => client = "trans",
         client' \in {"accs", "wait", "done"} => client \in {"accs", "wait", "done"},
         reader' \in {"none", "hello", "helloAck"} => ~EofOnWire,
         reader' = "trans" => reader = "trans" \/ (~EofOnWire /\ client' \notin {"accs", "wait", "done"})
  PROVE  CoverInv'
<1>1. Lines' = Lines /\ DONE' = DONE /\ Assigned' = Assigned
  BY SameFile
<1>2. \A i \in 1 .. Shards["trans"] : DataAt("trans", i)' = DataAt("trans", i)
  BY DEF DataAt
<1>3. Forwarded("trans")' = Forwarded("trans") /\ (ForwardedOnce("trans") => ForwardedOnce("trans")')
  BY <1>2, ForwardedSame
<1>4. HasEOF("trans")' = HasEOF("trans")
  BY DEF HasEOF
<1>5. /\ BatchAt(c2g)' = BatchAt(c2g) /\ Batches(c2g)' = Batches(c2g)
      /\ BatchesOnce(c2g)' = BatchesOnce(c2g) /\ EofOnWire' = EofOnWire
  BY DEF BatchAt, Batches, BatchesOnce, EofOnWire
<1>6. /\ LineAt(queue, DONE)' = LineAt(queue, DONE) /\ Queued(queue, DONE)' = Queued(queue, DONE)
      /\ QueuedOnce(queue, DONE)' = QueuedOnce(queue, DONE)
      /\ MarkersAt(queue, DONE)' = MarkersAt(queue, DONE)
  BY <1>1 DEF LineAt, Queued, QueuedOnce, MarkersAt
<1>7. Unread' = Unread /\ Reading' = Reading
  BY <1>1 DEF Unread, Reading
<1>8. UploadTyped'
  <2>1. WireMsgs(c2g)'
    BY <1>1 DEF CoverInv, UploadTyped, WireMsgs
  <2> QED
    BY <1>1, <2>1 DEF CoverInv, UploadTyped, IsSeq
<1>9. NotStarted'
  BY <1>3, <1>5 DEF CoverInv, NotStarted
<1>10. InOnePlace'
  BY <1>1, <1>3, <1>5, <1>6, <1>7 DEF CoverInv, InOnePlace
<1>11. MarkersOK'
  BY <1>1, <1>6, <1>7 DEF CoverInv, MarkersOK
<1>12. Covers'
  BY <1>1, <1>3, <1>4, <1>5, <1>6, <1>7 DEF CoverInv, Covers
<1> QED
  BY <1>8, <1>9, <1>10, <1>11, <1>12 DEF CoverInv

(* Steps that leave the workers and their queue alone. *)
LEMMA QueueSame ==
  ASSUME CoverInv, layout' = layout, left' = left, queue' = queue, finished' = finished
  PROVE  /\ Lines' = Lines /\ DONE' = DONE /\ Assigned' = Assigned
         /\ Queued(queue, DONE)' = Queued(queue, DONE) /\ Unread' = Unread
         /\ QueuedOnce(queue, DONE)'
         /\ \A v, w \in 1..Workers : v # w => left'[v] \cap left'[w] \subseteq {DONE'}
         /\ (client' = "trans" => client = "trans") => MarkersOK'
         /\ layout' \in Layouts /\ finished' \in Nat
         /\ IsSeq(queue)' /\ (\A i \in DOMAIN queue' : queue'[i] \in Lines' \cup {DONE'})
         /\ DOMAIN left' = 1..Workers /\ \A w \in 1..Workers : left'[w] \subseteq Lines' \cup {DONE'}
<1>1. Lines' = Lines /\ DONE' = DONE /\ Assigned' = Assigned
  BY SameFile
<1>2. /\ LineAt(queue, DONE)' = LineAt(queue, DONE) /\ Queued(queue, DONE)' = Queued(queue, DONE)
      /\ QueuedOnce(queue, DONE)' = QueuedOnce(queue, DONE)
      /\ MarkersAt(queue, DONE)' = MarkersAt(queue, DONE)
  BY <1>1 DEF LineAt, Queued, QueuedOnce, MarkersAt
<1>3. Unread' = Unread /\ Reading' = Reading
  BY <1>1 DEF Unread, Reading
<1>4. (client' = "trans" => client = "trans") => MarkersOK'
  BY <1>1, <1>2, <1>3 DEF CoverInv, MarkersOK
<1> QED
  BY <1>1, <1>2, <1>3, <1>4 DEF CoverInv, InOnePlace, UploadTyped, IsSeq

(* ClientSends of a Hello, of accounts or of an EOF. *)
LEMMA CoverSendsOther ==
  ASSUME CoverInv, NEW m, m.type \in {"hello", "accs", "eof"}, ClientSends(m),
         layout' = layout, left' = left, queue' = queue, finished' = finished,
         shard'["trans"] = shard["trans"], closed' = closed, reader' = reader, timeouts' \in Nat,
         timeouts' = 0 => timeouts = 0,
         client' \in {"start", "connected", "ack"} => client \in {"start", "connected", "ack"} /\ m.type # "eof",
         client' # "trans",
         reader \in {"none", "hello", "helloAck"} => m.type # "eof",
         reader = "trans" /\ timeouts' = 0 /\ ~closed
           /\ (m.type = "eof" \/ client' \in {"accs", "wait", "done"})
           => Forwarded("trans") \cup Batches(c2g) = Assigned
  PROVE  CoverInv'
<1>1. /\ Lines' = Lines /\ DONE' = DONE /\ Assigned' = Assigned
      /\ Queued(queue, DONE)' = Queued(queue, DONE) /\ Unread' = Unread
      /\ QueuedOnce(queue, DONE)'
      /\ \A v, w \in 1..Workers : v # w => left'[v] \cap left'[w] \subseteq {DONE'}
      /\ MarkersOK'
      /\ layout' \in Layouts /\ finished' \in Nat
      /\ IsSeq(queue)' /\ (\A i \in DOMAIN queue' : queue'[i] \in Lines' \cup {DONE'})
      /\ DOMAIN left' = 1..Workers /\ \A w \in 1..Workers : left'[w] \subseteq Lines' \cup {DONE'}
  BY QueueSame
<1>2. \A i \in 1 .. Shards["trans"] : DataAt("trans", i)' = DataAt("trans", i)
  BY DEF DataAt
<1>3. Forwarded("trans")' = Forwarded("trans") /\ ForwardedOnce("trans")'
  BY <1>2, ForwardedSame DEF CoverInv, InOnePlace
<1>4. HasEOF("trans")' = HasEOF("trans")
  BY DEF HasEOF
<1>5. /\ WireMsgs(c2g)' /\ BatchesOnce(c2g)'
      /\ BatchAt(c2g)' = BatchAt(c2g) /\ Batches(c2g)' = Batches(c2g)
      /\ EofOnWire' => EofOnWire \/ (m.type = "eof" /\ ~closed)
  BY SendsOther DEF CoverInv, UploadTyped, InOnePlace
<1>6. UploadTyped'
  BY <1>1, <1>5 DEF CoverInv, UploadTyped
<1>7. NotStarted'
  BY <1>3, <1>5 DEF CoverInv, NotStarted
<1>8. InOnePlace'
  BY <1>1, <1>3, <1>5 DEF CoverInv, InOnePlace
<1>9. Covers'
  BY <1>1, <1>3, <1>4, <1>5 DEF CoverInv, Covers
<1> QED
  BY <1>1, <1>6, <1>7, <1>8, <1>9 DEF CoverInv

(* A worker puts a line or its marker: the line moves into the queue. *)
LEMMA CoverWorkerPut ==
  ASSUME CoverInv, NEW w \in 1..Workers, WorkerPut(w)
  PROVE  CoverInv'
<1>1. /\ client = "trans" /\ client' = client /\ layout' = layout /\ finished' = finished
      /\ timeouts' = timeouts /\ c2g' = c2g /\ shard' = shard /\ reader' = reader /\ closed' = closed
  BY DEF WorkerPut, gateVars
<1>2. PICK k \in left[w] : /\ \A j \in left[w] : k <= j
                           /\ queue' = Append(queue, k)
                           /\ left' = [left EXCEPT ![w] = left[w] \ {k}]
  BY DEF WorkerPut
<1>3. /\ layout \in Layouts /\ DOMAIN left = 1..Workers /\ IsSeq(queue) /\ left[w] \subseteq Lines \cup {DONE}
      /\ \A i \in DOMAIN queue : queue[i] \in Lines \cup {DONE}
      /\ \A v \in 1..Workers : left[v] \subseteq Lines \cup {DONE}
      /\ \A v \in 1..Workers : left[v] # {} => DONE \in left[v]
      /\ \A v, u \in 1..Workers : v # u => left[v] \cap left[u] \subseteq {DONE}
  BY DEF CoverInv, UploadTyped, MarkersOK, InOnePlace
<1>4. Lines' = Lines /\ DONE' = DONE /\ Assigned' = Assigned
  BY <1>1, SameFile
<1>5. /\ DOMAIN left' = 1..Workers /\ left'[w] = left[w] \ {k}
      /\ \A v \in 1..Workers : v # w => left'[v] = left[v]
  BY <1>2, <1>3
<1>6. DONE \in left[w] /\ k <= DONE /\ DONE \in Nat /\ DONE \notin Lines /\ \A j \in Lines : j \in Nat /\ j < DONE
  BY <1>2, <1>3, FileShape
<1>7. Extended(queue, queue', k)
  BY <1>2, <1>3, AppendExtends
<1>8. IsSeq(queue') /\ \A i \in DOMAIN queue' : queue'[i] \in Lines \cup {DONE}
  BY <1>2, <1>3, <1>7 DEF Extended
<1>9. /\ Forwarded("trans")' = Forwarded("trans") /\ ForwardedOnce("trans")' = ForwardedOnce("trans")
      /\ HasEOF("trans")' = HasEOF("trans")
      /\ Batches(c2g)' = Batches(c2g) /\ BatchesOnce(c2g)' = BatchesOnce(c2g) /\ EofOnWire' = EofOnWire
  <2>1. \A i \in 1 .. Shards["trans"] : DataAt("trans", i)' = DataAt("trans", i)
    BY <1>1 DEF DataAt
  <2>2. Forwarded("trans")' = Forwarded("trans") /\ ForwardedOnce("trans")' = ForwardedOnce("trans")
    BY <1>1, <2>1 DEF Forwarded, ForwardedOnce
  <2>3. HasEOF("trans")' = HasEOF("trans")
    BY <1>1 DEF HasEOF
  <2> QED
    BY <1>1, <2>2, <2>3 DEF BatchAt, Batches, BatchesOnce, EofOnWire
<1>10. UploadTyped'
  <2>1. WireMsgs(c2g)'
    BY <1>1, <1>4 DEF CoverInv, UploadTyped, WireMsgs
  <2>2. \A v \in 1..Workers : left'[v] \subseteq Lines \cup {DONE}
    BY <1>3, <1>5
  <2> QED
    BY <1>1, <1>4, <1>5, <1>8, <2>1, <2>2 DEF CoverInv, UploadTyped
<1>11. NotStarted'
  BY <1>1, <1>9 DEF CoverInv, NotStarted
<1>12. \A v, u \in 1..Workers : v # u => left'[v] \cap left'[u] \subseteq {DONE}
  BY <1>3, <1>5
<1>13. CASE k = DONE
  <2>1. left[w] = {DONE}
    <3>1. \A j \in left[w] : j \notin Lines
      BY <1>2, <1>6, <1>13
    <3> QED
      BY <1>3, <1>6, <3>1
  <2>2. left'[w] = {}
    BY <1>5, <1>13, <2>1
  <2>3. Unread' = Unread
    BY <1>4, <1>5, <1>6, <2>1, <2>2 DEF Unread
  <2>4. Reading' = Reading \ {w} /\ w \in Reading
    BY <1>4, <1>5, <1>6, <2>2 DEF Reading
  <2>5. Cardinality(Reading') = Cardinality(Reading) - 1 /\ Cardinality(Reading) \in Nat /\ IsFiniteSet(Reading)
    BY <2>4, WorkersFinite, FS_RemoveElement
  <2>6. /\ LineAt(queue', DONE) = LineAt(queue, DONE) /\ Queued(queue', DONE) = Queued(queue, DONE)
        /\ QueuedOnce(queue, DONE) => QueuedOnce(queue', DONE)
        /\ Len(queue) + 1 \in MarkersAt(queue', DONE) /\ \A i \in LineAt(queue', DONE) : i < Len(queue) + 1
        /\ Cardinality(MarkersAt(queue', DONE)) = Cardinality(MarkersAt(queue, DONE)) + 1
    BY <1>2, <1>3, <1>13, QueuePutMarker
  <2>7. Cardinality(MarkersAt(queue, DONE)) \in Nat
    BY <1>3, MarkersFinite
  <2>8. InOnePlace'
    BY <1>4, <1>9, <1>12, <2>3, <2>6 DEF CoverInv, InOnePlace
  <2>9. MarkersOK'
    <3>1. \A v \in 1..Workers : left'[v] # {} => DONE \in left'[v]
      BY <1>3, <1>5, <2>2
    <3>2. finished' + Cardinality(MarkersAt(queue', DONE)) + Cardinality(Reading') = Workers
      <4>1. finished + Cardinality(MarkersAt(queue, DONE)) + Cardinality(Reading) = Workers /\ finished \in Nat
        BY <1>1 DEF CoverInv, MarkersOK, UploadTyped
      <4> QED
        BY <1>1, <2>5, <2>6, <2>7, <4>1
    <3>3. \A i \in LineAt(queue', DONE) : \E j \in MarkersAt(queue', DONE) : i < j
      BY <2>6
    <3> QED
      BY <1>4, <3>1, <3>2, <3>3 DEF MarkersOK
  <2>10. Covers'
    BY <1>1, <1>4, <1>9, <2>3, <2>6 DEF CoverInv, Covers
  <2> QED
    BY <1>10, <1>11, <2>8, <2>9, <2>10 DEF CoverInv
<1>14. CASE k # DONE
  <2>1. k \in Lines /\ k \in Unread /\ DONE \in left'[w]
    BY <1>2, <1>3, <1>5, <1>6, <1>14 DEF Unread
  <2>2. Unread' = Unread \ {k}
    <3>1. ASSUME NEW v \in 1..Workers, v # w PROVE k \notin left[v]
      BY <1>2, <1>3, <1>14, <3>1
    <3>2. \A v \in 1..Workers : left'[v] = left[v] \ {k}
      BY <1>5, <3>1
    <3> QED
      BY <1>4, <3>2 DEF Unread
  <2>3. Reading' = Reading
    BY <1>4, <1>5, <1>6, <2>1 DEF Reading
  <2>4. k \notin Queued(queue, DONE)
    BY <2>1 DEF CoverInv, InOnePlace
  <2>5. /\ Queued(queue', DONE) = Queued(queue, DONE) \cup {k} /\ MarkersAt(queue', DONE) = MarkersAt(queue, DONE)
        /\ QueuedOnce(queue', DONE)
    BY <1>2, <1>3, <1>14, <2>4, QueuePutLine DEF CoverInv, InOnePlace
  <2>6. InOnePlace'
    BY <1>4, <1>9, <1>12, <2>1, <2>2, <2>5 DEF CoverInv, InOnePlace
  <2>7. MarkersOK'
    <3>1. \A v \in 1..Workers : left'[v] # {} => DONE \in left'[v]
      BY <1>3, <1>5, <2>1
    <3>2. finished' + Cardinality(MarkersAt(queue', DONE)) + Cardinality(Reading') = Workers
      BY <1>1, <2>3, <2>5 DEF CoverInv, MarkersOK
    <3>3. Reading' # {}
      BY <1>4, <2>1 DEF Reading
    <3> QED
      BY <1>4, <3>1, <3>2, <3>3 DEF MarkersOK
  <2>8. Covers'
    <3>1. Queued(queue', DONE) \cup Unread' = Queued(queue, DONE) \cup Unread
      BY <2>1, <2>2, <2>5
    <3>2. Forwarded("trans") \cup Batches(c2g) \cup Queued(queue', DONE) \cup Unread' =
            Forwarded("trans") \cup Batches(c2g) \cup Queued(queue, DONE) \cup Unread
      BY <3>1
    <3> QED
      BY <1>1, <1>4, <1>9, <3>2 DEF CoverInv, Covers
  <2> QED
    BY <1>10, <1>11, <2>6, <2>7, <2>8 DEF CoverInv
<1> QED
  BY <1>13, <1>14

(* After the HelloAck the workers share out the file. *)
LEMMA CoverRecvHelloAck ==
  ASSUME CoverInv, RecvHelloAck
  PROVE  CoverInv'
<1>1. /\ client = "ack" /\ client' = "trans" /\ layout' = layout /\ finished' = finished /\ queue' = queue
      /\ timeouts' = timeouts /\ c2g' = c2g /\ shard' = shard /\ reader' = reader /\ closed' = closed
      /\ left' = [w \in 1..Workers |-> Owned(w) \cup {DONE}]
  BY DEF RecvHelloAck, gateVars
<1>2. /\ layout \in Layouts /\ queue = <<>> /\ finished = 0
      /\ BatchAt(c2g) = {} /\ ~EofOnWire /\ Forwarded("trans") = {}
  BY <1>1 DEF CoverInv, UploadTyped, NotStarted
<1>3. Lines' = Lines /\ DONE' = DONE /\ Assigned' = Assigned
  BY <1>1, SameFile
<1>4. DOMAIN left' = 1..Workers /\ \A w \in 1..Workers : left'[w] = Owned(w) \cup {DONE}
  BY <1>1
<1>5. DONE \notin Lines /\ \A w \in 1..Workers : Owned(w) \subseteq Lines
  BY <1>2, FileShape DEF Owned
<1>6. /\ UNION {Owned(w) : w \in 1 .. Workers} = Assigned
      /\ \A v, w \in 1 .. Workers : v # w => Owned(v) \cap Owned(w) = {}
  BY <1>2, RangesSplit
<1>7. /\ Forwarded("trans")' = {} /\ ForwardedOnce("trans")' = ForwardedOnce("trans")
      /\ HasEOF("trans")' = HasEOF("trans")
      /\ Batches(c2g)' = {} /\ BatchesOnce(c2g)' = BatchesOnce(c2g) /\ ~EofOnWire'
  <2>1. \A i \in 1 .. Shards["trans"] : DataAt("trans", i)' = DataAt("trans", i)
    BY <1>1 DEF DataAt
  <2>2. Forwarded("trans")' = Forwarded("trans") /\ ForwardedOnce("trans")' = ForwardedOnce("trans")
    BY <1>1, <2>1 DEF Forwarded, ForwardedOnce
  <2>3. HasEOF("trans")' = HasEOF("trans")
    BY <1>1 DEF HasEOF
  <2> QED
    BY <1>1, <1>2, <2>2, <2>3 DEF BatchAt, Batches, BatchesOnce, EofOnWire
<1>8. Unread' = Assigned
  <2>1. Unread' = {k \in Lines : \E w \in 1..Workers : k \in Owned(w)}
    BY <1>3, <1>4, <1>5 DEF Unread
  <2>2. Assigned \subseteq Lines
    BY DEF Assigned
  <2> QED
    BY <1>6, <2>1, <2>2
<1>9. LineAt(queue', DONE) = {} /\ Queued(queue', DONE) = {} /\ QueuedOnce(queue', DONE) /\ MarkersAt(queue', DONE) = {}
  BY <1>1, <1>2 DEF LineAt, Queued, QueuedOnce, MarkersAt
<1>10. UploadTyped'
  <2>1. WireMsgs(c2g)'
    BY <1>1, <1>3 DEF CoverInv, UploadTyped, WireMsgs
  <2>2. \A w \in 1..Workers : left'[w] \subseteq Lines \cup {DONE}
    BY <1>4, <1>5
  <2> QED
    BY <1>1, <1>3, <1>4, <2>1, <2>2 DEF CoverInv, UploadTyped
<1>11. NotStarted'
  BY <1>1, <1>7 DEF NotStarted
<1>12. InOnePlace'
  <2>1. \A v, w \in 1..Workers : v # w => left'[v] \cap left'[w] \subseteq {DONE}
    BY <1>4, <1>6
  <2> QED
    BY <1>3, <1>7, <1>9, <2>1 DEF CoverInv, InOnePlace
<1>13. MarkersOK'
  <2>1. Reading' = 1..Workers
    BY <1>3, <1>4 DEF Reading
  <2>2. Cardinality(Reading') = Workers
    BY <2>1, WorkersFinite
  <2>3. Cardinality(MarkersAt(queue', DONE)) = 0
    BY <1>9, FS_EmptySet
  <2> QED
    BY <1>1, <1>2, <1>3, <1>4, <1>9, <2>2, <2>3, SessionAssumption DEF MarkersOK
<1>14. Covers'
  BY <1>1, <1>2, <1>3, <1>7, <1>8, <1>9 DEF CoverInv, Covers
<1> QED
  BY <1>10, <1>11, <1>12, <1>13, <1>14 DEF CoverInv

(* One turn of _send_transactions_parallel: a marker is counted, a line goes on the wire. *)
LEMMA CoverSendTransactions ==
  ASSUME CoverInv, SendTransactions
  PROVE  CoverInv'
<1>1. /\ client = "trans" /\ client' = client /\ layout' = layout /\ left' = left
      /\ timeouts' = timeouts /\ shard' = shard /\ reader' = reader /\ closed' = closed
      /\ queue # <<>> /\ queue' = Tail(queue)
  BY DEF SendTransactions, gateVars
<1>2. /\ layout \in Layouts /\ IsSeq(queue) /\ (\A i \in DOMAIN queue : queue[i] \in Lines \cup {DONE})
      /\ finished \in Nat /\ closed \in BOOLEAN /\ WireMsgs(c2g)
      /\ BatchesOnce(c2g) /\ QueuedOnce(queue, DONE)
  BY DEF CoverInv, UploadTyped, InOnePlace
<1>3. Lines' = Lines /\ DONE' = DONE /\ Assigned' = Assigned
  BY <1>1, SameFile
<1>4. Shortened(queue, queue') /\ Head(queue) = queue[1] /\ 1 \in DOMAIN queue
  BY <1>1, <1>2, TailShortens
<1>5. /\ QueuedOnce(queue', DONE)
      /\ \A i \in LineAt(queue', DONE) : i + 1 \in LineAt(queue, DONE)
      /\ \A i \in MarkersAt(queue, DONE) : i = 1 \/ i - 1 \in MarkersAt(queue', DONE)
      /\ queue[1] = DONE => /\ Queued(queue', DONE) = Queued(queue, DONE)
                            /\ Cardinality(MarkersAt(queue, DONE)) = Cardinality(MarkersAt(queue', DONE)) + 1
      /\ queue[1] # DONE => /\ Queued(queue, DONE) = Queued(queue', DONE) \cup {queue[1]}
                            /\ queue[1] \notin Queued(queue', DONE)
                            /\ Cardinality(MarkersAt(queue, DONE)) = Cardinality(MarkersAt(queue', DONE))
      /\ IsFiniteSet(MarkersAt(queue, DONE)) /\ IsFiniteSet(MarkersAt(queue', DONE))
  BY <1>2, <1>4, QueueTail
<1>6. /\ IsSeq(queue') /\ DOMAIN queue \subseteq Nat /\ DOMAIN queue' \subseteq Nat
      /\ \A i \in DOMAIN queue' : i >= 1 /\ queue'[i] \in Lines \cup {DONE}
  BY <1>2, <1>4 DEF Shortened
<1>7. Unread' = Unread /\ Reading' = Reading
  BY <1>1, <1>3 DEF Unread, Reading
<1>8. /\ Forwarded("trans")' = Forwarded("trans") /\ ForwardedOnce("trans")' = ForwardedOnce("trans")
      /\ HasEOF("trans")' = HasEOF("trans")
  <2>1. \A i \in 1 .. Shards["trans"] : DataAt("trans", i)' = DataAt("trans", i)
    BY <1>1 DEF DataAt
  <2> QED
    BY <1>1, <2>1 DEF Forwarded, ForwardedOnce, HasEOF
<1>9. \A i \in LineAt(queue', DONE) : Reading' # {} \/ \E j \in MarkersAt(queue', DONE) : i < j
  <2>1. ASSUME NEW i \in LineAt(queue', DONE), Reading = {} PROVE \E j \in MarkersAt(queue', DONE) : i < j
    <3>1. i + 1 \in LineAt(queue, DONE) /\ i \in Nat /\ i >= 1
      BY <1>5, <1>6 DEF LineAt
    <3>2. PICK j \in MarkersAt(queue, DONE) : i + 1 < j
      BY <1>1, <2>1, <3>1 DEF CoverInv, MarkersOK
    <3>3. j \in Nat /\ j # 1 /\ j - 1 \in MarkersAt(queue', DONE) /\ i < j - 1
      BY <1>5, <1>6, <3>1, <3>2 DEF MarkersAt
    <3> QED
      BY <3>3
  <2> QED
    BY <1>7, <2>1
<1>10. \A w \in 1..Workers : left'[w] # {} => DONE \in left'[w]
  BY <1>1 DEF CoverInv, MarkersOK
<1>11. Cardinality(MarkersAt(queue, DONE)) \in Nat /\ Cardinality(MarkersAt(queue', DONE)) \in Nat
  BY <1>5, FS_CardinalityType
<1>12. Cardinality(Reading) \in Nat
  BY WorkersFinite
<1>13. finished + Cardinality(MarkersAt(queue, DONE)) + Cardinality(Reading) = Workers
  BY <1>1 DEF CoverInv, MarkersOK
<1>14. ~EofOnWire /\ timeouts \in Nat /\ DOMAIN left = 1..Workers
       /\ \A w \in 1..Workers : left[w] \subseteq Lines \cup {DONE}
  BY <1>1 DEF CoverInv, Covers, UploadTyped
<1>15. \A v, w \in 1..Workers : v # w => left'[v] \cap left'[w] \subseteq {DONE}
  BY <1>1 DEF CoverInv, InOnePlace
<1>16. ASSUME WireMsgs(c2g)', finished' \in Nat PROVE UploadTyped'
  BY <1>1, <1>2, <1>3, <1>6, <1>14, <1>16 DEF UploadTyped
<1>17. ASSUME ~EofOnWire' PROVE NotStarted'
  BY <1>1, <1>17 DEF NotStarted
<1>18. CASE Head(queue) = DONE \/ closed
  <2>1. c2g' = c2g
    BY <1>18 DEF SendTransactions, ClientSends
  <2>2. /\ WireMsgs(c2g)' /\ BatchesOnce(c2g)' /\ Batches(c2g)' = Batches(c2g) /\ ~EofOnWire'
    BY <1>2, <1>3, <1>14, <2>1 DEF WireMsgs, BatchesOnce, Batches, BatchAt, EofOnWire
  <2>3. CASE Head(queue) = DONE
    <3>1. finished' = finished + 1
      BY <2>3 DEF SendTransactions
    <3>2. Queued(queue', DONE) = Queued(queue, DONE)
          /\ Cardinality(MarkersAt(queue, DONE)) = Cardinality(MarkersAt(queue', DONE)) + 1
      BY <1>4, <1>5, <2>3
    <3>3. InOnePlace'
      BY <1>3, <1>5, <1>7, <1>8, <1>15, <2>2, <3>2 DEF CoverInv, InOnePlace
    <3>4. finished' + Cardinality(MarkersAt(queue', DONE)) + Cardinality(Reading') = Workers
      BY <1>2, <1>7, <1>11, <1>12, <1>13, <3>1, <3>2
    <3>5. MarkersOK'
      BY <1>3, <1>9, <1>10, <3>4 DEF MarkersOK
    <3>6. Covers'
      BY <1>1, <1>3, <1>7, <1>8, <2>2, <3>2 DEF CoverInv, Covers
    <3>7. UploadTyped' /\ NotStarted'
      BY <1>2, <1>16, <1>17, <2>2, <3>1
    <3> QED
      BY <3>3, <3>5, <3>6, <3>7 DEF CoverInv
  <2>4. CASE Head(queue) # DONE /\ closed
    <3>1. finished' = finished
      BY <2>4 DEF SendTransactions
    <3>2. Queued(queue', DONE) \subseteq Queued(queue, DONE)
          /\ Cardinality(MarkersAt(queue, DONE)) = Cardinality(MarkersAt(queue', DONE))
      BY <1>4, <1>5, <2>4
    <3>3. InOnePlace'
      BY <1>3, <1>5, <1>7, <1>8, <1>15, <2>2, <3>2 DEF CoverInv, InOnePlace
    <3>4. finished' + Cardinality(MarkersAt(queue', DONE)) + Cardinality(Reading') = Workers
      BY <1>7, <1>13, <3>1, <3>2
    <3>5. MarkersOK'
      BY <1>3, <1>9, <1>10, <3>4 DEF MarkersOK
    <3>6. Covers'
      BY <1>1, <1>3, <1>7, <1>8, <2>2, <2>4 DEF CoverInv, Covers
    <3>7. UploadTyped' /\ NotStarted'
      BY <1>2, <1>16, <1>17, <2>2, <3>1
    <3> QED
      BY <3>3, <3>5, <3>6, <3>7 DEF CoverInv
  <2> QED
    BY <1>18, <2>3, <2>4
<1>19. CASE Head(queue) # DONE /\ ~closed
  <2> DEFINE x == Head(queue)
             m == [type |-> "trans", batch |-> x]
             l == Len(c2g) + 1
  <2>1. c2g' = Append(c2g, m) /\ m.type = "trans" /\ m.batch = x /\ IsSeq(c2g) /\ finished' = finished
    BY <1>2, <1>19 DEF SendTransactions, ClientSends, WireMsgs
  <2>2. x \in Lines /\ x \in Queued(queue, DONE)
        /\ Queued(queue, DONE) = Queued(queue', DONE) \cup {x} /\ x \notin Queued(queue', DONE)
        /\ Cardinality(MarkersAt(queue, DONE)) = Cardinality(MarkersAt(queue', DONE))
    BY <1>2, <1>4, <1>5, <1>19
  <2>3. Extended(c2g, c2g', m)
    BY <2>1, AppendExtends
  <2> HIDE DEF m, x
  <2>4. x \notin Batches(c2g) /\ x \notin Unread /\ x \notin Forwarded("trans")
    BY <2>2 DEF CoverInv, InOnePlace
  <2>5. Batches(c2g') = Batches(c2g) \cup {x} /\ BatchesOnce(c2g')
    BY <1>2, <2>1, <2>4, WireAppend
  <2>6. /\ IsSeq(c2g') /\ c2g'[l] = m
        /\ \A k \in DOMAIN c2g' : k = l \/ (k \in DOMAIN c2g /\ c2g'[k] = c2g[k])
    BY <2>3 DEF Extended
  <2> HIDE DEF l
  <2>7. \A k \in DOMAIN c2g' : c2g'[k].type # "eof"
    BY <1>14, <2>1, <2>6 DEF EofOnWire
  <2>8. WireMsgs(c2g')
    BY <1>2, <2>1, <2>2, <2>6, <2>7 DEF WireMsgs
  <2>9. WireMsgs(c2g)' /\ ~EofOnWire' /\ Batches(c2g)' = Batches(c2g) \cup {x} /\ BatchesOnce(c2g)'
    BY <1>3, <2>5, <2>7, <2>8 DEF WireMsgs, EofOnWire, Batches, BatchAt, BatchesOnce
  <2>10. InOnePlace'
    BY <1>3, <1>5, <1>7, <1>8, <1>15, <2>2, <2>4, <2>9 DEF CoverInv, InOnePlace
  <2>11. finished' + Cardinality(MarkersAt(queue', DONE)) + Cardinality(Reading') = Workers
    BY <1>7, <1>13, <2>1, <2>2
  <2>12. MarkersOK'
    BY <1>3, <1>9, <1>10, <2>11 DEF MarkersOK
  <2>13. Covers'
    <3>1. Forwarded("trans") \cup Batches(c2g)' \cup Queued(queue', DONE) \cup Unread =
            Forwarded("trans") \cup Batches(c2g) \cup Queued(queue, DONE) \cup Unread
      BY <2>2, <2>9
    <3> QED
      BY <1>1, <1>3, <1>7, <1>8, <2>9, <3>1 DEF CoverInv, Covers
  <2>14. UploadTyped' /\ NotStarted'
    BY <1>2, <1>16, <1>17, <2>1, <2>9
  <2> QED
    BY <2>10, <2>12, <2>13, <2>14 DEF CoverInv
<1> QED
  BY <1>18, <1>19

(* When every marker was counted nothing is left to read or in the queue. *)
LEMMA MarkersCounted ==
  ASSUME CoverInv, client = "trans", finished = Workers
  PROVE  Queued(queue, DONE) = {} /\ Unread = {}
<1>1. /\ finished + Cardinality(MarkersAt(queue, DONE)) + Cardinality(Reading) = Workers /\ finished \in Nat
      /\ \A i \in LineAt(queue, DONE) : Reading # {} \/ \E j \in MarkersAt(queue, DONE) : i < j
      /\ \A w \in 1..Workers : left[w] # {} => DONE \in left[w]
      /\ IsSeq(queue)
  BY DEF CoverInv, MarkersOK, UploadTyped
<1>2. IsFiniteSet(MarkersAt(queue, DONE)) /\ Cardinality(MarkersAt(queue, DONE)) \in Nat
  BY <1>1, MarkersFinite
<1>3. IsFiniteSet(Reading) /\ Cardinality(Reading) \in Nat
  BY WorkersFinite
<1>4. Cardinality(MarkersAt(queue, DONE)) = 0 /\ Cardinality(Reading) = 0
  BY <1>1, <1>2, <1>3
<1>5. MarkersAt(queue, DONE) = {} /\ Reading = {}
  BY <1>2, <1>3, <1>4, FS_EmptySet
<1>6. LineAt(queue, DONE) = {}
  BY <1>1, <1>5
<1>7. Queued(queue, DONE) = {}
  BY <1>6 DEF Queued
<1>8. \A w \in 1..Workers : left[w] = {}
  BY <1>1, <1>5 DEF Reading
<1> QED
  BY <1>7, <1>8 DEF Unread

(* The sends of the client that are not lines: Hello, accounts and both EOFs. *)
LEMMA CoverClientSends ==
  ASSUME ResponseInv, CoverInv, SendHello \/ SendTransactionsEOF \/ SendAccounts
  PROVE  CoverInv'
<1>1. timeouts \in Nat /\ closed \in BOOLEAN
  BY DEF CoverInv, UploadTyped
<1>2. client \in {"trans", "accs"} => reader \notin {"none", "hello", "helloAck"}
  BY DEF ResponseInv, HandshakeOK
<1>3. CASE SendHello
  <2> DEFINE m == [type |-> "hello"]
  <2>1. /\ client = "connected" /\ client' = "ack" /\ ClientSends(m) /\ m.type = "hello"
        /\ layout' = layout /\ left' = left /\ queue' = queue /\ finished' = finished
        /\ shard' = shard /\ closed' = closed /\ reader' = reader /\ timeouts' = timeouts
    BY <1>3 DEF SendHello, gateVars
  <2> HIDE DEF m
  <2> QED
    BY <1>1, <2>1, CoverSendsOther
<1>4. CASE SendTransactionsEOF
  <2> DEFINE m == [type |-> "eof"]
  <2>1. /\ client = "trans" /\ client' = "accs" /\ ClientSends(m) /\ m.type = "eof"
        /\ layout' = layout /\ left' = left /\ queue' = queue /\ finished' = finished
        /\ shard' = shard /\ closed' = closed /\ reader' = reader
        /\ (finished = Workers /\ timeouts' = timeouts) \/ timeouts' = timeouts + 1
    BY <1>4 DEF SendTransactionsEOF, gateVars
  <2> HIDE DEF m
  <2>2. timeouts' \in Nat /\ (timeouts' = 0 => timeouts = 0 /\ finished = Workers)
    BY <1>1, <2>1
  <2>3. ASSUME timeouts' = 0, ~closed PROVE Forwarded("trans") \cup Batches(c2g) = Assigned
    <3>1. Queued(queue, DONE) = {} /\ Unread = {}
      BY <2>1, <2>2, <2>3, MarkersCounted
    <3>2. Forwarded("trans") \cup Batches(c2g) \cup Queued(queue, DONE) \cup Unread = Assigned
      BY <2>1, <2>3 DEF CoverInv, Covers
    <3> QED
      BY <3>1, <3>2
  <2> QED
    BY <1>2, <2>1, <2>2, <2>3, CoverSendsOther
<1>5. CASE SendAccounts
  <2>1. PICK m : /\ m.type \in {"accs", "eof"} /\ ClientSends(m)
    BY <1>5 DEF SendAccounts
  <2>2. /\ client = "accs" /\ client' \in {"accs", "wait"}
        /\ layout' = layout /\ left' = left /\ queue' = queue /\ finished' = finished
        /\ shard' = shard /\ closed' = closed /\ reader' = reader /\ timeouts' = timeouts
    BY <1>5 DEF SendAccounts, gateVars
  <2>3. ASSUME reader = "trans", timeouts = 0, ~closed PROVE Forwarded("trans") \cup Batches(c2g) = Assigned
    BY <2>2, <2>3 DEF CoverInv, Covers
  <2> QED
    BY <1>1, <1>2, <2>1, <2>2, <2>3, CoverSendsOther
<1> QED
  BY <1>3, <1>4, <1>5

(* A client that leaves: what is lost of the wire is lost from its end. *)
LEMMA CoverClientLeaves ==
  ASSUME CoverInv, ClientLeaves
  PROVE  CoverInv'
<1>1. /\ client' = "left" /\ layout' = layout /\ left' = left /\ queue' = queue /\ finished' = finished
      /\ shard' = shard /\ closed' = closed /\ reader' = reader /\ timeouts' = timeouts
  BY DEF ClientLeaves, gateVars
<1>2. PICK n \in 0 .. Len(c2g) : c2g' = SubSeq(c2g, 1, n)
  BY DEF ClientLeaves
<1>3. WireMsgs(c2g) /\ IsSeq(c2g) /\ BatchesOnce(c2g)
  BY DEF CoverInv, UploadTyped, WireMsgs, InOnePlace
<1>4. /\ IsSeq(c2g') /\ DOMAIN c2g' = 1 .. n /\ DOMAIN c2g = 1 .. Len(c2g) /\ Len(c2g) \in Nat
      /\ \A k \in 1 .. n : c2g'[k] = c2g[k] /\ k \in DOMAIN c2g
  BY <1>2, <1>3, PrefixCuts
<1>5. /\ Lines' = Lines /\ DONE' = DONE /\ Assigned' = Assigned
      /\ Queued(queue, DONE)' = Queued(queue, DONE) /\ Unread' = Unread
      /\ QueuedOnce(queue, DONE)'
      /\ \A v, w \in 1..Workers : v # w => left'[v] \cap left'[w] \subseteq {DONE'}
      /\ MarkersOK'
      /\ layout' \in Layouts /\ finished' \in Nat
      /\ IsSeq(queue)' /\ (\A i \in DOMAIN queue' : queue'[i] \in Lines' \cup {DONE'})
      /\ DOMAIN left' = 1..Workers /\ \A w \in 1..Workers : left'[w] \subseteq Lines' \cup {DONE'}
  BY <1>1, QueueSame
<1>6. \A i \in 1 .. Shards["trans"] : DataAt("trans", i)' = DataAt("trans", i)
  BY <1>1 DEF DataAt
<1>7. Forwarded("trans")' = Forwarded("trans") /\ ForwardedOnce("trans")'
  BY <1>1, <1>6, ForwardedSame DEF CoverInv, InOnePlace
<1>8. HasEOF("trans")' = HasEOF("trans")
  BY <1>1 DEF HasEOF
<1>9. \A k \in DOMAIN c2g' : k \in DOMAIN c2g /\ c2g'[k] = c2g[k]
  BY <1>4
<1>10. WireMsgs(c2g)'
  BY <1>3, <1>4, <1>5, <1>9 DEF WireMsgs
<1>11. BatchesOnce(c2g)' /\ Batches(c2g)' \subseteq Batches(c2g) /\ (EofOnWire' => EofOnWire)
  BY <1>3, <1>9 DEF BatchesOnce, Batches, BatchAt, EofOnWire
<1>12. ASSUME EofOnWire' PROVE Batches(c2g)' = Batches(c2g)
  <2>1. PICK e \in 1 .. n : c2g[e].type = "eof" /\ e \in DOMAIN c2g
    BY <1>4, <1>12 DEF EofOnWire
  <2>2. ASSUME NEW j \in BatchAt(c2g) PROVE j \in BatchAt(c2g)' /\ c2g'[j] = c2g[j]
    <3>1. j \in DOMAIN c2g /\ j < e
      BY <1>3, <2>1 DEF WireMsgs, BatchAt
    <3>2. j \in 1 .. n
      BY <1>4, <2>1, <3>1
    <3> QED
      BY <1>4, <3>2 DEF BatchAt
  <2>3. Batches(c2g) \subseteq Batches(c2g)'
    BY <2>2 DEF Batches
  <2> QED
    BY <1>11, <2>3
<1>13. UploadTyped'
  BY <1>1, <1>5, <1>10 DEF CoverInv, UploadTyped
<1>14. NotStarted'
  BY <1>1, <1>11 DEF CoverInv, NotStarted
<1>15. InOnePlace'
  BY <1>5, <1>7, <1>11 DEF CoverInv, InOnePlace
<1>16. Covers'
  BY <1>1, <1>5, <1>7, <1>8, <1>11, <1>12 DEF CoverInv, Covers
<1> QED
  BY <1>5, <1>13, <1>14, <1>15, <1>16 DEF CoverInv

(* recv of anything but a line or the EOF of the transactions: Hello, accounts, second EOF. *)
LEMMA CoverTakesOther ==
  ASSUME CoverInv, c2g # <<>>, c2g' = Tail(c2g), Head(c2g).type # "trans",
         layout' = layout, left' = left, queue' = queue, finished' = finished, timeouts' = timeouts,
         shard'["trans"] = shard["trans"], closed' = closed, client' = client,
         reader' \in {"none", "hello", "helloAck"} => reader \in {"none", "hello", "helloAck"},
         reader' # "trans"
  PROVE  CoverInv'
<1>1. /\ Lines' = Lines /\ DONE' = DONE /\ Assigned' = Assigned
      /\ Queued(queue, DONE)' = Queued(queue, DONE) /\ Unread' = Unread
      /\ QueuedOnce(queue, DONE)'
      /\ \A v, w \in 1..Workers : v # w => left'[v] \cap left'[w] \subseteq {DONE'}
      /\ MarkersOK'
      /\ layout' \in Layouts /\ finished' \in Nat
      /\ IsSeq(queue)' /\ (\A i \in DOMAIN queue' : queue'[i] \in Lines' \cup {DONE'})
      /\ DOMAIN left' = 1..Workers /\ \A w \in 1..Workers : left'[w] \subseteq Lines' \cup {DONE'}
  BY QueueSame
<1>2. \A i \in 1 .. Shards["trans"] : DataAt("trans", i)' = DataAt("trans", i)
  BY DEF DataAt
<1>3. Forwarded("trans")' = Forwarded("trans") /\ ForwardedOnce("trans")'
  BY <1>2, ForwardedSame DEF CoverInv, InOnePlace
<1>4. HasEOF("trans")' = HasEOF("trans")
  BY DEF HasEOF
<1>5. /\ WireMsgs(c2g)' /\ BatchesOnce(c2g)' /\ (EofOnWire' => EofOnWire)
      /\ BatchAt(c2g) = {} => BatchAt(c2g)' = {}
      /\ Batches(c2g)' = Batches(c2g)
  BY ReaderTakes DEF CoverInv, UploadTyped, InOnePlace
<1>6. UploadTyped'
  BY <1>1, <1>5 DEF CoverInv, UploadTyped
<1>7. NotStarted'
  BY <1>3, <1>5 DEF CoverInv, NotStarted
<1>8. InOnePlace'
  BY <1>1, <1>3, <1>5 DEF CoverInv, InOnePlace
<1>9. Covers'
  BY <1>1, <1>3, <1>4, <1>5 DEF CoverInv, Covers
<1> QED
  BY <1>1, <1>6, <1>7, <1>8, <1>9 DEF CoverInv

(* _forward_sharded of a line: it moves from the wire to a shard. *)
LEMMA CoverForward ==
  ASSUME ShardInv, CoverInv, Forward("trans")
  PROVE  CoverInv'
<1> DEFINE b == Head(c2g).batch
<1>1. /\ reader = "trans" /\ reader' = reader /\ closed' = closed /\ client' = client /\ timeouts' = timeouts
      /\ layout' = layout /\ left' = left /\ queue' = queue /\ finished' = finished
      /\ c2g # <<>> /\ c2g' = Tail(c2g) /\ Head(c2g).type = "trans"
  BY DEF Forward, Recv, clientVars
<1>2. /\ WireMsgs(c2g)' /\ BatchesOnce(c2g)' /\ (EofOnWire' => EofOnWire)
      /\ Batches(c2g) = Batches(c2g)' \cup {b} /\ b \notin Batches(c2g)'
      /\ BatchAt(c2g) = {} => BatchAt(c2g)' = {}
  BY <1>1, ReaderTakes DEF CoverInv, UploadTyped, InOnePlace
<1>3. b \notin Forwarded("trans") /\ b \notin Queued(queue, DONE) /\ b \notin Unread
  BY <1>2 DEF CoverInv, InOnePlace
<1>4. Forwarded("trans")' = Forwarded("trans") \cup {b} /\ ForwardedOnce("trans")'
  BY <1>3, ForwardedNext DEF CoverInv, InOnePlace
<1> HIDE DEF b
<1>5. /\ Lines' = Lines /\ DONE' = DONE /\ Assigned' = Assigned
      /\ Queued(queue, DONE)' = Queued(queue, DONE) /\ Unread' = Unread
      /\ QueuedOnce(queue, DONE)'
      /\ \A v, w \in 1..Workers : v # w => left'[v] \cap left'[w] \subseteq {DONE'}
      /\ MarkersOK'
      /\ layout' \in Layouts /\ finished' \in Nat
      /\ IsSeq(queue)' /\ (\A i \in DOMAIN queue' : queue'[i] \in Lines' \cup {DONE'})
      /\ DOMAIN left' = 1..Workers /\ \A w \in 1..Workers : left'[w] \subseteq Lines' \cup {DONE'}
  BY <1>1, QueueSame
<1>6. ~HasEOF("trans")'
  <2>1. "trans" \in Streams /\ Shards["trans"] \in Nat \ {0} /\ DOMAIN shard = Streams /\ ShardsOK("trans")
    BY SessionAssumption DEF Streams, ShardInv
  <2>2. Announced("trans")
    BY <2>1 DEF ShardInv, ShardsAnnounced, Announced
  <2>3. counts \in [1 .. Shards["trans"] -> Nat] /\ rr \in Nat
    BY <1>1, <2>1 DEF ShardInv
  <2>4. ShardsOK("trans")'
    BY <2>1, <2>2, <2>3, ForwardShards
  <2>5. \A i \in 1..Shards["trans"] : \A k \in DOMAIN shard'["trans"][i] : shard'["trans"][i][k].type = "trans"
    BY <1>1, <2>4 DEF ShardsOK
  <2>6. 1 \in 1..Shards["trans"]
    BY <2>1
  <2> QED
    BY <2>5, <2>6 DEF HasEOF
<1>7. Forwarded("trans")' \cup Batches(c2g)' = Forwarded("trans") \cup Batches(c2g)
  BY <1>2, <1>4
<1>8. UploadTyped'
  BY <1>1, <1>2, <1>5 DEF CoverInv, UploadTyped
<1>9. NotStarted'
  <2>1. client \notin {"start", "connected", "ack"}
    <3>1. BatchAt(c2g) # {}
      BY <1>2 DEF Batches
    <3> QED
      BY <3>1 DEF CoverInv, NotStarted
  <2> QED
    BY <1>1, <2>1 DEF NotStarted
<1>10. InOnePlace'
  BY <1>2, <1>3, <1>4, <1>5 DEF CoverInv, InOnePlace
<1>11. Covers'
  BY <1>1, <1>2, <1>5, <1>6, <1>7 DEF CoverInv, Covers
<1> QED
  BY <1>5, <1>8, <1>9, <1>10, <1>11 DEF CoverInv

(* _forward_sharded of the EOF of the transactions: no line is behind it, so all are on shards. *)
LEMMA CoverForwardEOF ==
  ASSUME ShardInv, CoverInv, ForwardEOF("trans")
  PROVE  CoverInv'
<1>1. /\ reader = "trans" /\ reader' = "accs" /\ closed' = closed /\ client' = client /\ timeouts' = timeouts
      /\ layout' = layout /\ left' = left /\ queue' = queue /\ finished' = finished
      /\ c2g # <<>> /\ c2g' = Tail(c2g) /\ Head(c2g).type = "eof"
  BY DEF ForwardEOF, Recv, clientVars
<1>2. /\ WireMsgs(c2g)' /\ BatchesOnce(c2g)' /\ (EofOnWire' => EofOnWire)
      /\ Batches(c2g)' = Batches(c2g) /\ Batches(c2g)' = {} /\ EofOnWire
      /\ BatchAt(c2g) = {} => BatchAt(c2g)' = {}
  BY <1>1, ReaderTakes DEF CoverInv, UploadTyped, InOnePlace
<1>3. "trans" \in Streams /\ DOMAIN shard = Streams /\ ShardsOK("trans")
  BY DEF Streams, ShardInv
<1>4. DOMAIN shard["trans"] = 1 .. Shards["trans"] /\ \A i \in 1 .. Shards["trans"] : IsSeq(shard["trans"][i])
  BY <1>3 DEF ShardsOK
<1>5. ASSUME NEW i \in 1 .. Shards["trans"]
      PROVE  \E x : x.type # "trans" /\ Extended(shard["trans"][i], shard'["trans"][i], x)
  <2> DEFINE x == [type |-> "eof", expected |-> counts[i]]
  <2>1. shard'["trans"][i] = Append(shard["trans"][i], x) /\ x.type = "eof"
    BY <1>3, <1>4 DEF ForwardEOF
  <2> HIDE DEF x
  <2>2. Extended(shard["trans"][i], shard'["trans"][i], x)
    BY <1>4, <2>1, AppendExtends
  <2> QED
    BY <2>1, <2>2
<1>6. Forwarded("trans")' = Forwarded("trans") /\ ForwardedOnce("trans")'
  BY <1>5, ForwardedExtended DEF CoverInv, InOnePlace
<1>7. /\ Lines' = Lines /\ DONE' = DONE /\ Assigned' = Assigned
      /\ Queued(queue, DONE)' = Queued(queue, DONE) /\ Unread' = Unread
      /\ QueuedOnce(queue, DONE)'
      /\ \A v, w \in 1..Workers : v # w => left'[v] \cap left'[w] \subseteq {DONE'}
      /\ MarkersOK'
      /\ layout' \in Layouts /\ finished' \in Nat
      /\ IsSeq(queue)' /\ (\A i \in DOMAIN queue' : queue'[i] \in Lines' \cup {DONE'})
      /\ DOMAIN left' = 1..Workers /\ \A w \in 1..Workers : left'[w] \subseteq Lines' \cup {DONE'}
  BY <1>1, QueueSame
<1>8. timeouts = 0 => Forwarded("trans") \cup Batches(c2g) = Assigned
  BY <1>1, <1>2 DEF CoverInv, Covers
<1>9. timeouts = 0 => Forwarded("trans")' = Assigned
  BY <1>2, <1>6, <1>8
<1>10. UploadTyped'
  BY <1>1, <1>2, <1>7 DEF CoverInv, UploadTyped
<1>11. NotStarted'
  BY <1>1, <1>2, <1>6 DEF CoverInv, NotStarted
<1>12. InOnePlace'
  BY <1>2, <1>6, <1>7 DEF CoverInv, InOnePlace
<1>13. Covers'
  BY <1>1, <1>2, <1>6, <1>7, <1>9 DEF CoverInv, Covers
<1> QED
  BY <1>7, <1>10, <1>11, <1>12, <1>13 DEF CoverInv

(* _abort: an Abort behind what every shard holds changes nothing of the upload. *)
LEMMA CoverAbort ==
  ASSUME ShardInv, CoverInv, Abort, reader \in Streams
  PROVE  CoverInv'
<1>1. /\ closed /\ closed' = TRUE /\ reader' = "aborted" /\ client' = client /\ timeouts' = timeouts
      /\ layout' = layout /\ left' = left /\ queue' = queue /\ finished' = finished /\ c2g' = c2g
      /\ shard' = [s \in Streams |-> [i \in 1..Shards[s] |-> Append(shard[s][i], [type |-> "abort"])]]
  BY DEF Abort, RecvEmpty, Teardown, Close, Streams, clientVars
<1>2. "trans" \in Streams /\ DOMAIN shard = Streams /\ ShardsOK("trans")
  BY DEF Streams, ShardInv
<1>3. DOMAIN shard["trans"] = 1 .. Shards["trans"] /\ \A i \in 1 .. Shards["trans"] : IsSeq(shard["trans"][i])
  BY <1>2 DEF ShardsOK
<1> DEFINE x == [type |-> "abort"]
<1>4. x.type = "abort"
  OBVIOUS
<1>5. \A i \in 1 .. Shards["trans"] : shard'["trans"][i] = Append(shard["trans"][i], x)
  BY <1>1, <1>2
<1> HIDE DEF x
<1>6. \A i \in 1 .. Shards["trans"] : Extended(shard["trans"][i], shard'["trans"][i], x)
  BY <1>3, <1>5, AppendExtends
<1>7. Forwarded("trans")' = Forwarded("trans") /\ ForwardedOnce("trans")'
  BY <1>4, <1>6, ForwardedExtended DEF CoverInv, InOnePlace
<1>8. HasEOF("trans")' => HasEOF("trans")
  <2>1. ASSUME NEW i \in 1 .. Shards["trans"], NEW k \in DOMAIN shard'["trans"][i],
               shard'["trans"][i][k].type = "eof"
        PROVE  \E j \in DOMAIN shard["trans"][i] : shard["trans"][i][j].type = "eof"
    BY <1>4, <1>6, <2>1 DEF Extended
  <2> QED
    BY <2>1 DEF HasEOF
<1>9. /\ Lines' = Lines /\ DONE' = DONE /\ Assigned' = Assigned
      /\ Queued(queue, DONE)' = Queued(queue, DONE) /\ Unread' = Unread
      /\ QueuedOnce(queue, DONE)'
      /\ \A v, w \in 1..Workers : v # w => left'[v] \cap left'[w] \subseteq {DONE'}
      /\ MarkersOK'
      /\ layout' \in Layouts /\ finished' \in Nat
      /\ IsSeq(queue)' /\ (\A i \in DOMAIN queue' : queue'[i] \in Lines' \cup {DONE'})
      /\ DOMAIN left' = 1..Workers /\ \A w \in 1..Workers : left'[w] \subseteq Lines' \cup {DONE'}
  BY <1>1, QueueSame
<1>10. /\ WireMsgs(c2g)' /\ BatchesOnce(c2g)' /\ Batches(c2g)' = Batches(c2g)
       /\ BatchAt(c2g)' = BatchAt(c2g) /\ EofOnWire' = EofOnWire
  BY <1>1, <1>9 DEF CoverInv, UploadTyped, InOnePlace, WireMsgs, BatchesOnce, Batches, BatchAt, EofOnWire
<1>11. UploadTyped'
  BY <1>1, <1>9, <1>10 DEF CoverInv, UploadTyped
<1>12. NotStarted'
  BY <1>1, <1>7, <1>10 DEF CoverInv, NotStarted
<1>13. InOnePlace'
  BY <1>7, <1>9, <1>10 DEF CoverInv, InOnePlace
<1>14. Covers'
  BY <1>1, <1>7, <1>8, <1>9, <1>10 DEF CoverInv, Covers
<1> QED
  BY <1>9, <1>11, <1>12, <1>13, <1>14 DEF CoverInv

(* The session begins with nothing uploaded. *)
LEMMA InitCover == Init => CoverInv
<1> SUFFICES ASSUME Init PROVE CoverInv
  OBVIOUS
<1>1. /\ layout \in Layouts /\ left = [w \in 1..Workers |-> {}] /\ queue = <<>> /\ finished = 0
      /\ client = "start" /\ c2g = <<>> /\ closed = FALSE /\ timeouts = 0 /\ shard = DeclaredShards
      /\ reader = "none"
  BY DEF Init
<1>2. Len(<<>>) = 0 /\ DOMAIN <<>> = {} /\ IsSeq(<<>>)
  <2>1. Len(<<>>) = 0 /\ DOMAIN <<>> = {}
    BY EmptySeq
  <2> QED
    BY <2>1 DEF IsSeq
<1>3. Shards["trans"] \in Nat \ {0} /\ \A i \in 1 .. Shards["trans"] : shard["trans"][i] = <<>>
  BY <1>1, SessionAssumption DEF DeclaredShards, Streams
<1>4. \A i \in 1 .. Shards["trans"] : DataAt("trans", i) = {}
  BY <1>2, <1>3 DEF DataAt
<1>5. Forwarded("trans") = {} /\ ForwardedOnce("trans")
  BY <1>4 DEF Forwarded, ForwardedOnce
<1>6. ~HasEOF("trans")
  <2>1. 1 \in 1 .. Shards["trans"]
    BY <1>3
  <2> QED
    BY <1>2, <1>3, <2>1 DEF HasEOF
<1>7. BatchAt(c2g) = {} /\ Batches(c2g) = {} /\ BatchesOnce(c2g) /\ ~EofOnWire /\ WireMsgs(c2g)
  BY <1>1, <1>2 DEF BatchAt, Batches, BatchesOnce, EofOnWire, WireMsgs
<1>8. LineAt(queue, DONE) = {} /\ Queued(queue, DONE) = {} /\ QueuedOnce(queue, DONE)
  BY <1>1, <1>2 DEF LineAt, Queued, QueuedOnce
<1>9. DOMAIN left = 1..Workers /\ \A w \in 1..Workers : left[w] = {}
  BY <1>1
<1>10. UploadTyped
  BY <1>1, <1>2, <1>7, <1>9 DEF UploadTyped
<1>11. NotStarted
  BY <1>1, <1>5, <1>7, <1>9 DEF NotStarted
<1>12. InOnePlace
  BY <1>5, <1>7, <1>8, <1>9 DEF InOnePlace
<1>13. MarkersOK
  BY <1>1, <1>9 DEF MarkersOK
<1>14. Covers
  BY <1>1, <1>6 DEF Covers
<1> QED
  BY <1>10, <1>11, <1>12, <1>13, <1>14 DEF CoverInv

(* The steps that touch neither file, workers, wire nor shards. *)
LEMMA CoverThreads ==
  ASSUME ResponseInv, CoverInv,
         \/ Connect \/ ConnectGivesUp \/ RecvResponse \/ ConnectionEnded
         \/ SendHelloAck \/ HandshakeFails \/ ReaderFails \/ (Abort /\ reader \notin Streams)
         \/ ResponderNext \/ JoinNext \/ Shutdown \/ UNCHANGED vars
  PROVE  CoverInv'
<1> USE DEF clientVars, gateVars
<1>0. /\ closed \in BOOLEAN /\ (reader \in {"none", "hello", "helloAck"} => ~EofOnWire)
      /\ client \in {"start", "connected", "ack"} => ~EofOnWire
      /\ reader = "helloAck" => client \notin {"trans", "accs", "wait", "done"}
  BY DEF CoverInv, UploadTyped, NotStarted, ResponseInv, HandshakeOK
<1> DEFINE Quiet ==
         /\ layout' = layout /\ left' = left /\ queue' = queue /\ finished' = finished /\ timeouts' = timeouts
         /\ c2g' = c2g /\ shard' = shard
<1>1. CASE Connect
  <2>1. Quiet /\ client = "start" /\ client' = "connected" /\ reader' = "hello" /\ closed' = closed
    BY <1>1 DEF Connect
  <2> QED
    BY <1>0, <2>1, CoverQuiet
<1>2. CASE ConnectGivesUp \/ ConnectionEnded
  <2>1. Quiet /\ client' = "ended" /\ reader' = reader /\ closed' = closed
    BY <1>2 DEF ConnectGivesUp, ConnectionEnded
  <2> QED
    BY <1>0, <2>1, CoverQuiet
<1>3. CASE RecvResponse
  <2>1. Quiet /\ client = "wait" /\ client' \in {"wait", "done"} /\ reader' = reader /\ closed' = closed
    BY <1>3 DEF RecvResponse
  <2> QED
    BY <1>0, <2>1, CoverQuiet
<1>4. CASE SendHelloAck
  <2>1. Quiet /\ client' = client /\ reader = "helloAck" /\ reader' = "trans" /\ closed' = closed
    BY <1>4 DEF SendHelloAck
  <2> QED
    BY <1>0, <2>1, CoverQuiet
<1>5. CASE HandshakeFails \/ ReaderFails \/ (Abort /\ reader \notin Streams)
  <2>1. Quiet /\ client' = client /\ reader' = "failed" /\ (closed' = closed \/ closed' = TRUE)
    BY <1>5 DEF HandshakeFails, ReaderFails, Abort, Teardown, Close
  <2> QED
    BY <1>0, <2>1, CoverQuiet
<1>6. CASE ResponderNext \/ JoinNext \/ Shutdown \/ UNCHANGED vars
  <2>1. Quiet /\ client' = client /\ reader' = reader /\ (closed' = closed \/ closed' = TRUE)
    <3>1. CASE ResponderNext
      BY <3>1 DEF ResponderNext, StartConsuming, DeliverResponse, DeliveryFails, CloseResponses, Teardown, Close
    <3>2. CASE JoinNext
      BY <3>2 DEF JoinNext, Respond, Finalize, JoinCrash
    <3>3. CASE Shutdown
      BY <3>3 DEF Shutdown, Close
    <3>4. CASE UNCHANGED vars
      BY <3>4 DEF vars
    <3> QED
      BY <1>6, <3>1, <3>2, <3>3, <3>4
  <2> QED
    BY <1>0, <2>1, CoverQuiet
<1> QED
  BY <1>1, <1>2, <1>3, <1>4, <1>5, <1>6

(* Every step of client, handler, pipeline and faults keeps account of the lines. *)
LEMMA NextCover == ResponseInv /\ ShardInv /\ CoverInv /\ [Next]_vars => CoverInv'
<1> SUFFICES ASSUME ResponseInv, ShardInv, CoverInv, [Next]_vars PROVE CoverInv'
  OBVIOUS
<1>1. CASE \/ Connect \/ ConnectGivesUp \/ RecvResponse \/ ConnectionEnded
           \/ SendHelloAck \/ HandshakeFails \/ ReaderFails \/ (Abort /\ reader \notin Streams)
           \/ ResponderNext \/ JoinNext \/ Shutdown \/ UNCHANGED vars
  BY <1>1, CoverThreads
<1>2. CASE SendHello \/ SendTransactionsEOF \/ SendAccounts
  BY <1>2, CoverClientSends
<1>3. CASE RecvHelloAck
  BY <1>3, CoverRecvHelloAck
<1>4. CASE \E w \in 1..Workers : WorkerPut(w)
  BY <1>4, CoverWorkerPut
<1>5. CASE SendTransactions
  BY <1>5, CoverSendTransactions
<1>6. CASE ClientLeaves
  BY <1>6, CoverClientLeaves
<1>7. CASE RecvHello
  <2>1. /\ reader = "hello" /\ reader' = "helloAck" /\ closed' = closed /\ client' = client /\ timeouts' = timeouts
        /\ layout' = layout /\ left' = left /\ queue' = queue /\ finished' = finished /\ shard' = shard
        /\ c2g # <<>> /\ c2g' = Tail(c2g) /\ Head(c2g).type = "hello"
    BY <1>7 DEF RecvHello, Recv, clientVars
  <2> QED
    BY <2>1, CoverTakesOther
<1>8. CASE Abort /\ reader \in Streams
  BY <1>8, CoverAbort
<1>9. CASE \E s \in Streams : Forward(s) \/ ForwardEOF(s)
  <2>1. Streams = {"trans", "accs"} /\ DOMAIN shard = Streams
    BY DEF Streams, ShardInv
  <2>2. CASE Forward("trans")
    BY <2>2, CoverForward
  <2>3. CASE ForwardEOF("trans")
    BY <2>3, CoverForwardEOF
  <2>4. CASE Forward("accs")
    <3>1. /\ reader = "accs" /\ reader' = "accs" /\ closed' = closed /\ client' = client /\ timeouts' = timeouts
          /\ layout' = layout /\ left' = left /\ queue' = queue /\ finished' = finished
          /\ c2g # <<>> /\ c2g' = Tail(c2g) /\ Head(c2g).type = "accs"
      BY <2>4 DEF Forward, Recv, clientVars
    <3>2. shard'["trans"] = shard["trans"]
      BY <2>1, <2>4 DEF Forward
    <3> QED
      BY <3>1, <3>2, CoverTakesOther
  <2>5. CASE ForwardEOF("accs")
    <3>1. /\ reader = "accs" /\ reader' = "finished" /\ closed' = closed /\ client' = client /\ timeouts' = timeouts
          /\ layout' = layout /\ left' = left /\ queue' = queue /\ finished' = finished
          /\ c2g # <<>> /\ c2g' = Tail(c2g) /\ Head(c2g).type = "eof"
      BY <2>5 DEF ForwardEOF, Recv, clientVars
    <3>2. shard'["trans"] = shard["trans"]
      BY <2>1, <2>5 DEF ForwardEOF
    <3> QED
      BY <3>1, <3>2, CoverTakesOther
  <2> QED
    BY <1>9, <2>1, <2>2, <2>3, <2>4, <2>5
<1> QED
  BY <1>1, <1>2, <1>3, <1>4, <1>5, <1>6, <1>7, <1>8, <1>9 DEF Next, ClientNext, ReaderNext

(* What the pipeline has when it has the EOF of the transactions. *)
EofCoversAssigned ==
  HasEOF("trans") /\ timeouts = 0 => Forwarded("trans") = Assigned /\ ForwardedOnce("trans")

(* Once the pipeline has the EOF of the transactions it has, each once, exactly *)
(* the lines that no worker's range begins with: the input split of             *)
(* _send_transactions_parallel loses those and only those, for every file and   *)
(* number of workers, whatever crashes, closes or overtakes.                    *)
THEOREM EofCovers == Spec => []EofCoversAssigned
<1>1. CoverInv => EofCoversAssigned
  BY DEF CoverInv, Covers, InOnePlace, EofCoversAssigned
<1>2. Init => ResponseInv /\ ShardInv /\ CoverInv
  BY InitResponses, InitShards, InitCover
<1>3. ResponseInv /\ ShardInv /\ CoverInv /\ [Next]_vars => ResponseInv' /\ ShardInv' /\ CoverInv'
  BY NextResponses, NextShards, NextCover
<1> QED
  BY <1>1, <1>2, <1>3, PTL DEF Spec

(* No range begins exactly where a line does. *)
RangesInsideLines == \A w \in 0..Workers : \A k \in Lines : Offset(k) # Bound(w)

(* For a file in which no range begins exactly where a line does, the EOF of the *)
(* transactions covers the file: the pipeline has every line of it, once, unless *)
(* the client gave up waiting for its workers.                                   *)
THEOREM EofCoversWholeFile == Spec /\ RangesInsideLines => []EofCoversFile
<1>1. CoverInv /\ RangesInsideLines => EofCoversFile
  <2> SUFFICES ASSUME CoverInv, RangesInsideLines PROVE EofCoversFile
    OBVIOUS
  <2>1. Assigned = Lines
    BY DEF Assigned, RangesInsideLines
  <2> QED
    BY <2>1 DEF CoverInv, Covers, InOnePlace, EofCoversFile
<1>2. Init => ResponseInv /\ ShardInv /\ CoverInv
  BY InitResponses, InitShards, InitCover
<1>3. ResponseInv /\ ShardInv /\ CoverInv /\ [Next]_vars => ResponseInv' /\ ShardInv' /\ CoverInv'
  BY NextResponses, NextShards, NextCover
<1>4. RangesInsideLines /\ [Next]_vars => RangesInsideLines'
  <2> SUFFICES ASSUME RangesInsideLines, [Next]_vars PROVE RangesInsideLines'
    OBVIOUS
  <2>1. layout' = layout
    BY DEF Next, vars, clientVars, ClientNext, ReaderNext, ResponderNext, Connect, ConnectGivesUp, SendHello,
           RecvHelloAck, WorkerPut, SendTransactions, SendTransactionsEOF, SendAccounts, RecvResponse,
           ConnectionEnded, RecvHello, SendHelloAck, HandshakeFails, ReaderFails, Abort, Forward, ForwardEOF,
           StartConsuming, DeliverResponse, DeliveryFails, CloseResponses, JoinNext, Respond, Finalize, JoinCrash,
           ClientLeaves, Shutdown
  <2> QED
    BY <2>1 DEF RangesInsideLines, Lines, Offset, Bound, Size
<1> QED
  BY <1>1, <1>2, <1>3, <1>4, PTL DEF Spec
=============================================================================
