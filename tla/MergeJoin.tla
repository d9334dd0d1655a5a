------------------------------ MODULE MergeJoin ------------------------------
(***************************************************************************)
(* A controller of a merge and a join, composed through the queue between  *)
(* them.  Both may crash, messages of the merge's inputs may come again,   *)
(* and a client may drop; another peer of the merge's ring then sends the  *)
(* join its own Abort.  The nodes differ between the use cases:            *)
(*                  AtLeastOne  ReplayInOrder  MergeSpilled  JoinSpilled   *)
(*   use case 2        yes           yes            no           no        *)
(*   use case 3        yes           yes            yes          yes       *)
(*   use case 4        no            no             yes          no        *)
(* Only uc2_merge writes to its join directly; in the others fleets stand  *)
(* between the two.  What is promised here is promised of use case 2; each *)
(* of the other settings breaks it (MergeJoinSpilled.cfg and its like).    *)
(***************************************************************************)
EXTENDS Integers, Sequences, SequencesExt, FiniteSets

CONSTANTS
  Clients,
  LeftKeys,          \* LeftKeys[c]: keys in the broadcast side, one message each
  ClientOf, KeyOf,   \* client and key of each row of the sharded side
  Arrivals,          \* orders in which the rows may have been queued
  AtLeastOne,        \* is a result without rows sent as one empty message?
  ReplayInOrder, MergeSpilled, JoinSpilled,
  CheckpointEvery,
  Droppers,          \* clients that may drop
  MaxFaults          \* bound: crashes, input messages that come again, and drops

ASSUME MergeJoinAssumption ==
  /\ IsFiniteSet(Clients) /\ Clients # {} /\ Droppers \subseteq Clients
  /\ {AtLeastOne, ReplayInOrder, MergeSpilled, JoinSpilled} \subseteq BOOLEAN
  /\ CheckpointEvery \in Nat /\ MaxFaults \in Nat
  /\ \A c \in Clients : IsFiniteSet(LeftKeys[c])
  /\ ClientOf \in [DOMAIN ClientOf -> Clients]
  \* a row is one message, whatever it holds
  /\ \A a \in Arrivals : a \in Seq(DOMAIN ClientOf) /\ IsInjective(a)

VARIABLES qin, mheld, mmem, mckpt, mdirty, mpc, mtask, mat, mclient, todo, mcrashes,
          link, jheld, jmem, jckpt, jdirty, jpc, jtask, jclient, chunks, responses, jcrashes,
          input,    \* history: what was queued at first, by side
          stamped,  \* history: every message the merge has put on the link
          resends,
          dropped   \* clients that have dropped

\* The elements of r at the positions P, in order.
Nth(P, n) == CHOOSE i \in P : Cardinality({j \in P : j <= i}) = n
Subsequence(r, P) == [n \in 1..Cardinality(P) |-> r[Nth(P, n)]]

\* The nodes of use case 2.
UseCase2 == AtLeastOne /\ ReplayInOrder /\ ~MergeSpilled /\ ~JoinSpilled

\* get_result: the right rows whose key the left side has, a message each.  Use case 2 puts them in
\* one message, which this covers.
Result(l, r) ==
  LET matching == {i \in DOMAIN r : KeyOf[r[i]] \in ToSet(l)} IN
  IF matching = {} /\ AtLeastOne THEN <<"empty">> ELSE Subsequence(r, matching)

M == INSTANCE Merge WITH
  MaxCrashes <- MaxFaults, Spilled <- MergeSpilled, held <- mheld, mem <- mmem, ckpt <- mckpt, dirty <- mdirty,
  pc <- mpc, task <- mtask, at <- mat, client <- mclient, crashes <- mcrashes
J == INSTANCE Join WITH
  MaxCrashes <- MaxFaults, Spilled <- JoinSpilled, held <- jheld, mem <- jmem, ckpt <- jckpt, dirty <- jdirty,
  pc <- jpc, task <- jtask, client <- jclient, crashes <- jcrashes

mergeVars == <<qin, mheld, mmem, mckpt, mdirty, mpc, mtask, mat, mclient, todo, mcrashes>>
joinVars == <<jheld, jmem, jckpt, jdirty, jpc, jtask, jclient, chunks, responses, jcrashes>>
envVars == <<input, resends, dropped>>
vars == <<mergeVars, link, joinVars, envVars, stamped>>

\* Where the data of client c are in a queue, and which messages are data.
DataAt(q, c) == {i \in DOMAIN q : q[i].kind = "data" /\ q[i].client = c}
DataIn(q) == {m \in ToSet(q) : m.kind = "data"}

\* What upstream stages have queued: the data of all clients, and behind it their EOFs, which
\* the two sides' stages send in orders of their own.
Queued(data, order) ==
  data \o [k \in DOMAIN order |-> M!Eof(order[k], Cardinality(DataAt(data, order[k])))]
LeftData ==
  LET keys == SetToSeq(UNION {{c} \X LeftKeys[c] : c \in Clients})
  IN  [i \in DOMAIN keys |-> M!Data(keys[i][1], <<"left", i>>, keys[i][2])]
RightData(a) == [i \in DOMAIN a |-> M!Data(ClientOf[a[i]], <<"right", i>>, a[i])]

Init ==
  /\ \E a \in Arrivals :
       input = [s \in M!Sides |-> IF s = "left" THEN Queued(LeftData, SetToSeq(Clients))
                             ELSE Queued(RightData(a), Reverse(SetToSeq(Clients)))]
  /\ qin = input
  /\ M!Init /\ J!Init
  /\ stamped = {} /\ resends = 0 /\ dropped = {}

-----------------------------------------------------------------------------
\* Steps of the merge; what it puts on the link is remembered.
MergeStep ==
  /\ M!Step
  /\ stamped' = stamped \cup DataIn(link')
  /\ UNCHANGED <<joinVars, envVars>>

JoinStep == J!Step /\ UNCHANGED <<mergeVars, envVars, stamped>>

FaultsLeft == mcrashes + jcrashes + resends + Cardinality(dropped) < MaxFaults

MergeCrash == FaultsLeft /\ M!Crash /\ UNCHANGED <<joinVars, envVars, stamped>>
JoinCrash == FaultsLeft /\ J!Crash /\ UNCHANGED <<mergeVars, envVars, stamped>>

\* A message of an input comes again: sent again upstream, or its ack was lost.
Resend(s, i) ==
  /\ FaultsLeft /\ resends' = resends + 1
  /\ qin' = [qin EXCEPT ![s] = Append(@, input[s][i])]
  /\ UNCHANGED <<mheld, mmem, mckpt, mdirty, mpc, mtask, mat, mclient, todo, mcrashes,
                 link, joinVars, input, stamped, dropped>>

\* The client's stream is aborted: on both inputs, and at another peer of the merge's ring.
Drop(c) ==
  /\ FaultsLeft /\ c \in Droppers \ dropped
  /\ dropped' = dropped \cup {c}
  /\ qin' = [s \in M!Sides |-> Append(qin[s], M!Abort(c))]
  /\ link' = Append(link, M!Abort(c))
  /\ UNCHANGED <<mheld, mmem, mckpt, mdirty, mpc, mtask, mat, mclient, todo, mcrashes,
                 joinVars, input, stamped, resends>>

Next ==
  \/ MergeStep \/ JoinStep \/ MergeCrash \/ JoinCrash
  \/ \E s \in M!Sides : \E i \in DOMAIN input[s] : Resend(s, i)
  \/ \E c \in Clients : Drop(c)

\* Live processes go on, and the supervisor starts dead ones.
Spec == Init /\ [][Next]_vars /\ WF_vars(MergeStep) /\ WF_vars(JoinStep)

-----------------------------------------------------------------------------
(* Properties *)

RowsOf(s, c) == {input[s][i].row : i \in DataAt(input[s], c)}

\* What the merge of the client's whole input consists of.
Whole(c) ==
  LET matching == {row \in RowsOf("right", c) : KeyOf[row] \in RowsOf("left", c)} IN
  IF matching = {} /\ AtLeastOne THEN {"empty"} ELSE matching

\* Held messages are in the queues and no table holds what was not sent.
TypeOK ==
  /\ \A s \in M!Sides : mheld[s] \in 0 .. Len(qin[s])
  /\ jheld \in 0 .. Len(link)
  /\ mmem.seen \subseteq {m.id : m \in DataIn(input["left"]) \cup DataIn(input["right"])}
  /\ jmem.seen \subseteq {m.id : m \in stamped}
  /\ mmem.seq \in Nat /\ mckpt.seq <= mmem.seq
  /\ \A c \in Clients : jmem.of[c].received \in 0 .. Cardinality(Whole(c))

\* A number of the output counter always stands for one message: whatever a revived
\* controller sends again, the dedup table downstream drops repeats and nothing else.
StampedOnce == \A m, n \in stamped : m.id = n.id => m = n

\* A response is published from every message of the merge's whole result, each applied
\* once, across crashes of both nodes and messages that come again.
AnswersWholeResult == jpc = "respond" =>
  LET rows == jmem.of[jclient].rows IN
  ToSet(rows) = Whole(jclient) /\ Len(rows) = Cardinality(Whole(jclient))

\* The join never finalizes a client from a data message, which would wait for ever for the
\* lock that it holds: an EOF reaches the queue behind the messages that it announces.
NeverStuck == jpc # "stuck"

\* A client that the join has dropped for good gets no chunk any more, though an EOF of it
\* may follow the Abort of another peer: the EOF counts a message that the join has dropped.
\* _on_eof does not look at the tombstone, so an EOF of no message would publish.
SilentAfterAbort ==
  [][\A c \in Clients : jckpt.of[c].aborted => responses'[c] = responses[c]]_vars

Answered(c) == \E i \in DOMAIN responses[c] : responses[c][i].last

\* Every client is answered or drops, and both nodes let go of its rows.
AnsweredAndReleased == <>[](\A c \in Clients :
  /\ Answered(c) \/ c \in dropped
  /\ jmem.of[c].rows = <<>> /\ \A s \in M!Sides : mmem.of[c].rows[s] = <<>>)

\* A redelivered EOF does not publish a response again.
NotRepublished == \A c \in Clients :
  \A i, k \in DOMAIN responses[c] : responses[c][i] = responses[c][k] => i = k
=============================================================================
