------------------------------ MODULE Pipeline ------------------------------
(***************************************************************************)
(* One use case of one client from its files to its answer: every fleet of *)
(* controllers on the way, the queues between them, and the join.  Peers   *)
(* of all fleets work at the same time and take the messages of their      *)
(* queues in any order.  That each message is taken once and that a stage  *)
(* closes when it has seen all its input is what RingStage and MergeJoin   *)
(* show; here a peer knows that its input is complete once every writer of *)
(* its queues has closed.                                                  *)
(***************************************************************************)
EXTENDS Oracle, Topology, Bags, BagsExt

CONSTANT Inputs    \* the cases: [uc, seed, batches, accounts], batches of file lines

VARIABLES
  input,     \* the case of this behaviour
  mail,      \* queue -> shard -> the messages in it
  acc,       \* fleet -> peer -> what an aggregate or a merge holds
  emitted,   \* the peers <<fleet, peer>> that have sent their result
  closed,    \* the gateway, and the fleets that have told the next ones that they are done
  joined,    \* join replica -> what it has collected
  answered   \* the join replicas that have answered
vars == <<input, mail, acc, emitted, closed, joined, answered>>

Peers == 0..(NPeers - 1)
uc == input.uc
fleet(f) == Fleets[uc][f]
OfKind(kind) == {f \in DOMAIN Fleets[uc] : fleet(f).kind = kind}
Replicas == {j \in DOMAIN JoinPartition : uc \in JoinPartition[j]}

\* ------------------------------------------ what each strategy runs (main.py)
DefaultKeep(q, t) ==
  CASE q = "uc1_join" -> UC1Keep(t)
    [] q = "uc2_filtered_transactions" -> UC2Keep(t)
    [] q = "uc3_transactions_period_a" -> UC3KeepPeriodA(t)
    [] q = "uc3_transactions_period_b" -> UC3KeepPeriodB(t)
    [] q = "uc4_filtered_transactions" -> UC4Keep(t)
    [] q = "uc5_filtered_transactions" -> UC5Keep(t)
FilterFn(f, q, body) ==
  CASE f = "default_filter" -> SelectSeq(body, LAMBDA t : DefaultKeep(q, t))
    [] f = "uc3_average_filter" -> UC3AvgFilter(body)
    [] f = "uc5_amount_filter" -> SelectSeq(body, UC5AmountKeep)
\* identity stands for hash((producer_id, seq)) of the message.
GroupByFn(f, body, identity) ==
  CASE f = "uc2_max_amount_group_by" -> UC2MaxAmountGroupBy(input.seed, body)
    [] f = "uc2_bank_names_group_by" -> UC2BankNamesGroupBy(input.seed, body)
    [] f = "uc3_group_by_format" -> UC3SumGroupBy(input.seed, body)
    [] f = "uc4_compute_graph_group_by" -> UC4ComputeGraph(input.seed, body)
    [] f = "uc5_converter" -> One(UC5Converter(body), identity)
    [] f = "uc5_count_group_by" -> One(UC5Count(body), 0)
AggregateFn(f, st, body) ==
  CASE f = "uc2_max_amount_aggregate" -> UC2MaxAmountAggregate(st, body)
    [] f = "uc2_bank_names_aggregate" -> UC2BankNamesAggregate(st, body)
    [] f = "uc3_average_aggregate" -> UC3AvgAggregate(st, body)
    [] f = "uc4_aggregate_graphs" -> UC4AggregateGraphs(st, body)
    [] f = "uc4_degree_aggregate" -> UC4Degree(st, body)
    [] f = "uc4_count_paths" -> UC4CountPaths(st, body)
    [] f = "uc4_paths_aggregate" -> UC4AggregatePaths(st, body)
AggregateResult(f, st) ==
  CASE f = "uc2_max_amount_aggregate" -> UC2MaxAmountResult(input.seed, st)
    [] f = "uc2_bank_names_aggregate" -> UC2BankNamesResult(input.seed, st)
    [] f = "uc3_average_aggregate" -> UC3AvgResult(input.seed, st)
    [] f = "uc4_aggregate_graphs" -> UC4AggregateGraphsResult(input.seed, st)
    [] f = "uc4_degree_aggregate" -> UC4DegreeResult(input.seed, st)
    [] f = "uc4_count_paths" -> UC4CountPathsResult(input.seed, st)
    [] f = "uc4_paths_aggregate" -> UC4AggregatePathsResult(input.seed, st)
MergeFn(f, side, st, body) ==
  CASE f = "uc2_merge" -> IF side = 1 THEN UC2MergeLeft(st, body) ELSE UC2MergeRight(st, body)
    [] f = "uc3_merge" -> IF side = 1 THEN UC3MergeLeft(st, body) ELSE UC3MergeRight(st, body)
    [] f = "uc4_prune" -> IF side = 1 THEN UC4MergeLeft(st, body) ELSE UC4MergeRight(st, body)
MergeResult(f, st) ==
  CASE f = "uc2_merge" -> UC2MergeResult(st)
    [] f = "uc3_merge" -> UC3MergeResult(st)
    [] f = "uc4_prune" -> UC4MergeResult(st)
\* What a peer of a fleet holds of a client it has not seen.
Fresh(f) ==
  CASE f \in {"uc2_max_amount_aggregate", "uc2_bank_names_aggregate", "uc3_average_aggregate"} -> Empty
    [] f \in {"uc4_aggregate_graphs", "uc4_degree_aggregate", "uc4_count_paths",
              "uc4_paths_aggregate"} -> FreshSpill
    [] f = "uc2_merge" -> [left |-> Empty, right |-> Empty]
    [] f = "uc3_merge" -> [left |-> Empty, right |-> <<>>]
    [] f = "uc4_prune" -> [left |-> [hiOut |-> {}, hiIn |-> {}], right |-> <<>>]
    [] OTHER -> Empty
JoinFn(st, body) ==
  CASE uc = 1 -> UC1Join(st, body) [] uc = 2 -> UC2Join(st, body) [] uc = 3 -> UC3Join(st, body)
    [] uc = 4 -> UC4Join(st, body) [] uc = 5 -> UC5Join(st, body)
FreshJoin == IF uc = 5 THEN 0 ELSE <<>>

\* ------------------------------------------------------------------ queues
Into(ml, q, shard, m) == [ml EXCEPT ![q][shard] = BagAdd(@, m)]
From(ml, q, shard, m) == [ml EXCEPT ![q][shard] = BagRemove(@, m)]
\* A sequence of [q, shard, m] goes out in order.
SendAll(ml, sends) == Fold(LAMBDA x, s : Into(x, s.q, s.shard, s.m), ml, sends)
Sends(q, f, body, affinity) ==
  [q |-> q, shard |-> affinity % NShards[uc][q], m |-> Serialize(fleet(f).out, body)]
\* Every result of a node to every fleet downstream, on the shard its affinity gives.
ByAffinity(f, results) ==
  FlattenSeq(MapSeq(LAMBDA r : MapSeq(LAMBDA q : Sends(q, f, r.body, r.affinity), fleet(f).tx), results))
Broadcast(f, results) ==
  FlattenSeq(MapSeq(LAMBDA r : [i \in 1..NShards[uc][fleet(f).tx[1]] |->
                                 Sends(fleet(f).tx[1], f, r.body, i - 1)], results))
RoundRobin(f, bodies) ==
  [i \in DOMAIN bodies |-> Sends(fleet(f).tx[1], f, bodies[i], i - 1)]

\* A peer takes one message of its shard of the fleet's i-th queue.
Takes(f, p, i, m) == m \in BagToSet(mail[fleet(f).rx[i]][p])
Without(f, p, i, m) == From(mail, fleet(f).rx[i], p, m)
\* The EOF of a queue comes from its writers: a queue that nobody writes is never closed.
Closed(q) == Writers[uc][q] # {} /\ Writers[uc][q] \subseteq closed
\* All the input of a peer has come and been taken.
Complete(f, p) ==
  \A i \in DOMAIN fleet(f).rx :
    /\ Closed(fleet(f).rx[i])
    /\ mail[fleet(f).rx[i]][p] = EmptyBag

\* ------------------------------------------------------------------ actions
\* The client parses its lines into batches, which the gateway deals out to the filters and then
\* closes with its EOFs (Session); the accounts likewise.  The filters take them in any order.
Forwarded(ml, q, type, parse(_), batches) ==
  SendAll(ml, [i \in DOMAIN batches |->
    [q |-> q, shard |-> (i - 1) % NShards[uc][q], m |-> Serialize(type, MapSeq(parse, batches[i]))]])
Init ==
  /\ input \in Inputs
  /\ LET none == [q \in Queues[uc] |-> [s \in 0..(NShards[uc][q] - 1) |-> EmptyBag]]
         txns == Forwarded(none, "client_transactions", "TRANSACTIONS", ParseTransaction, input.batches)
     IN  mail = IF uc = 2
                THEN Forwarded(txns, "client_accounts", "ACCOUNTS", ParseAccount, input.accounts)
                ELSE txns
  /\ acc = [f \in DOMAIN Fleets[uc] |-> [p \in Peers |-> Fresh(f)]]
  /\ emitted = {} /\ closed = {"gateway"} /\ answered = {}
  /\ joined = [j \in DOMAIN JoinPartition |-> FreshJoin]

\* shard_of: the shard follows from the producer and the number of the message, which are any.
Filter(f, p) ==
  /\ f \in OfKind("filter")
  /\ \E m \in BagToSet(mail[fleet(f).rx[1]][p]), identity \in Peers :
     \E body \in {DeserializeMessage(m)} :
       mail' = SendAll(Without(f, p, 1, m),
                       MapSeq(LAMBDA q : Sends(q, f, FilterFn(f, q, body), identity), fleet(f).tx))
  /\ UNCHANGED <<input, acc, emitted, closed, joined, answered>>

GroupBy(f, p) ==
  /\ f \in OfKind("group_by")
  /\ \E m \in BagToSet(mail[fleet(f).rx[1]][p]) :
     \E identity \in IF f = "uc5_converter" THEN Peers ELSE {0} :
     \E results \in {GroupByFn(f, DeserializeMessage(m), identity)} :
       mail' = SendAll(Without(f, p, 1, m), ByAffinity(f, results))
  /\ UNCHANGED <<input, acc, emitted, closed, joined, answered>>

Aggregate(f, p) ==
  /\ f \in OfKind("aggregate")
  /\ \E m \in BagToSet(mail[fleet(f).rx[1]][p]) : \E body \in {DeserializeMessage(m)} :
       /\ acc' = [acc EXCEPT ![f][p] = AggregateFn(f, @, body)]
       /\ mail' = Without(f, p, 1, m)
  /\ UNCHANGED <<input, emitted, closed, joined, answered>>

Merge(f, p) ==
  /\ f \in OfKind("merge")
  /\ \E side \in {1, 2} : \E m \in BagToSet(mail[fleet(f).rx[side]][p]) :
     \E body \in {DeserializeMessage(m)} :
       /\ acc' = [acc EXCEPT ![f][p] = MergeFn(f, side, @, body)]
       /\ mail' = Without(f, p, side, m)
  /\ UNCHANGED <<input, emitted, closed, joined, answered>>

\* _emit, once: the result goes out and the accumulation is freed.
MayEmit(f, p) == <<f, p>> \notin emitted /\ Complete(f, p)
Emit(f, p, sends) ==
  /\ mail' = SendAll(mail, sends)
  /\ emitted' = emitted \cup {<<f, p>>}
  /\ acc' = [acc EXCEPT ![f][p] = Fresh(f)]
  /\ UNCHANGED <<input, closed, joined, answered>>
AggregateEmit(f, p) ==
  /\ f \in OfKind("aggregate") /\ MayEmit(f, p)
  /\ \E results \in {AggregateResult(f, acc[f][p])} :
       Emit(f, p, IF fleet(f).broadcast THEN Broadcast(f, results) ELSE ByAffinity(f, results))
MergeEmit(f, p) ==
  /\ f \in OfKind("merge") /\ MayEmit(f, p)
  /\ \E results \in {MergeResult(f, acc[f][p])} : Emit(f, p, RoundRobin(f, results))

\* The ring's barrier has closed and every shard downstream is told its count.
Close(f) ==
  /\ f \in DOMAIN Fleets[uc] \ closed
  /\ \A p \in Peers :
       Complete(f, p) /\ (fleet(f).kind \in {"aggregate", "merge"} => <<f, p>> \in emitted)
  /\ closed' = closed \cup {f}
  /\ UNCHANGED <<input, mail, acc, emitted, joined, answered>>

JoinData(j) ==
  /\ j \in Replicas
  /\ \E m \in BagToSet(mail[JoinQueue[uc]][0]) :
       /\ joined' = [joined EXCEPT ![j] = JoinFn(@, DeserializeMessage(m))]
       /\ mail' = From(mail, JoinQueue[uc], 0, m)
  /\ UNCHANGED <<input, acc, emitted, closed, answered>>
Respond(j) ==
  /\ j \in Replicas \ answered
  /\ Closed(JoinQueue[uc])
  /\ mail[JoinQueue[uc]][0] = EmptyBag
  /\ answered' = answered \cup {j}
  /\ UNCHANGED <<input, mail, acc, emitted, closed, joined>>

Next ==
  \/ \E f \in DOMAIN Fleets[uc] :
       \/ Close(f)
       \/ \E p \in Peers :
            \/ Filter(f, p) \/ GroupBy(f, p)
            \/ Aggregate(f, p) \/ AggregateEmit(f, p)
            \/ Merge(f, p) \/ MergeEmit(f, p)
  \/ \E j \in Replicas : JoinData(j) \/ Respond(j)
Spec == Init /\ [][Next]_vars /\ WF_vars(Next)

\* --------------------------------------------------------------- properties
\* The message a reader of each queue is written for (the types of left, right, aggregate, ...).
Accepts(f) ==
  CASE f \in {"default_filter", "uc2_max_amount_group_by", "uc3_group_by_format",
              "uc4_compute_graph_group_by", "uc5_converter", "uc5_amount_filter",
              "uc5_count_group_by"} -> <<"TRANSACTIONS">>
    [] f = "uc2_bank_names_group_by" -> <<"ACCOUNTS">>
    [] f = "uc2_max_amount_aggregate" -> <<"MAX_BY_BANK">>
    [] f = "uc2_bank_names_aggregate" -> <<"BANK_NAMES">>
    [] f = "uc2_merge" -> <<"MAX_BY_BANK", "BANK_NAMES">>
    [] f = "uc3_average_aggregate" -> <<"SUM_BY_PAYMENT_FORMAT">>
    [] f = "uc3_merge" -> <<"AVG_BY_FORMAT", "TRANSACTIONS">>
    [] f = "uc3_average_filter" -> <<"MERGED_TRANSACTIONS">>
    [] f \in {"uc4_aggregate_graphs", "uc4_degree_aggregate", "uc4_count_paths"} -> <<"GRAPH">>
    [] f = "uc4_prune" -> <<"HIGH_DEGREE", "GRAPH">>
    [] f = "uc4_paths_aggregate" -> <<"PATH_COUNTS">>

\* Every message a fleet finds in its queues is of the type its handler is written for, and a fleet
\* that closed is never written to again.
TypeOK ==
  /\ input \in Inputs /\ answered \subseteq Replicas
  /\ \A f \in DOMAIN Fleets[uc] : \A i \in DOMAIN fleet(f).rx : \A p \in Peers :
       LET box == mail[fleet(f).rx[i]][p] IN
       /\ \A m \in BagToSet(box) : m.type = Accepts(f)[i]
       /\ f \in closed => box = EmptyBag

\* What an answer is compared with does not depend on which version of the generator made it: the
\* whole table and its cut into chunks give the same rows.
OraclesAgree == answered # {} => VersionsAgree(input.batches, FlattenSeq(input.accounts))

\* A key is accumulated by one peer of a fleet: what the affinity of a partial result is for, and
\* what fails if two producers hash a key differently.
KeysOf(f, p) ==
  CASE f \in {"uc2_max_amount_aggregate", "uc2_bank_names_aggregate", "uc3_average_aggregate"} ->
         DOMAIN acc[f][p]
    [] f \in {"uc4_aggregate_graphs", "uc4_degree_aggregate", "uc4_paths_aggregate"} ->
         UNION {DOMAIN d : d \in {acc[f][p].mem} \cup ToSet(acc[f][p].disk)}
    [] f = "uc2_merge" -> DOMAIN acc[f][p].right
    [] f = "uc4_prune" -> {line[1] : line \in ToSet(acc[f][p].right)}
    [] OTHER -> {}
KeyInOnePlace ==
  \A f \in DOMAIN Fleets[uc] : \A p, q \in Peers : p # q => KeysOf(f, p) \cap KeysOf(f, q) = {}

\* The transfers use case 4 looks at.
E == EdgesOf(Joined(input.batches))
\* A prune merge that has heard of every degree peer knows exactly the nodes of high degree, though
\* each peer saw some of the nodes only, in capped and spilled partial sets.
HighDegreeExact ==
  (uc = 4 /\ "uc4_degree_aggregate" \in closed) =>
    \A p \in Peers :
      (mail["uc4_high_degree"][p] = EmptyBag /\ <<"uc4_prune", p>> \notin emitted) =>
        LET g == E IN acc["uc4_prune"][p].left = [hiOut |-> HiOut(g), hiIn |-> HiIn(g)]

\* The paths of graph g that a peer of uc4_paths_aggregate adds up: a pair of ends of high degree and
\* the number of its intermediaries.
PathsOf(g, p) ==
  LET pairs == {pair \in HiOut(g) \X HiIn(g) :
                  /\ pair[1] # pair[2] /\ Mids(g, pair[1], pair[2]) # {}
                  /\ (Hash(input.seed, "path", pair) % AffinityShards) % NShards[uc]["uc4_paths"] = p}
  IN  [pair \in pairs |-> Cardinality(Mids(g, pair[1], pair[2]))]
\* An aggregator of paths that has all its input has counted each intermediary of each of its pairs
\* once: the tiles of a split node neither overlap nor leave a pair out, whoever counted them.
PathsCounted ==
  (uc = 4 /\ "uc4_count_paths" \in closed) =>
    \A p \in Peers :
      (mail["uc4_paths"][p] = EmptyBag /\ <<"uc4_paths_aggregate", p>> \notin emitted) =>
        LET st == acc["uc4_paths_aggregate"][p]
            g == E
        IN  Fold(AddCounts, st.mem, st.disk) = PathsOf(g, p)

Times(s, x) == Cardinality({i \in DOMAIN s : s[i] = x})
SameRows(s, t) == Len(s) = Len(t) /\ \A x \in ToSet(s) : Times(s, x) = Times(t, x)
\* Among the accounts that attain the maximum of a bank either may be named (the partials of a
\* bank come in any order); bank, amount and name are the oracle's.
SameMaxima(s, rows, accounts) ==
  LET expected == GenUC2(rows, accounts) IN
  /\ Len(s) = Cardinality(expected)
  /\ \A e \in expected : \E i \in DOMAIN s :
       /\ s[i][1] = e[1] /\ s[i][3] = e[3] /\ s[i][4] = e[4]
       /\ \E r \in ToSet(Usd(rows)) : r.fb.id = e[1] /\ r.fa = s[i][2] /\ r.paid = e[3]
\* The answer of the cluster to a use case is the answer of the oracle to the client's files.
AnswerIsOracle ==
  LET rows == Joined(input.batches) IN
  \A j \in answered :
    CASE uc = 1 -> SameRows(joined[j], GenUC1(rows))
      [] uc = 2 -> SameMaxima(joined[j], rows, FlattenSeq(input.accounts))
      [] uc = 3 -> SameRows(joined[j], GenUC3(rows))
      [] uc = 4 -> UC4Response(joined[j]) = GenUC4(rows)
      [] uc = 5 -> joined[j] = GenUC5(rows)

\* Every use case is answered by the one join that has it, and no message stays behind in a queue:
\* every queue that is written is read, and every queue a fleet waits for is closed by somebody.
Answered ==
  <>(/\ Cardinality(Replicas) = 1 /\ Replicas \subseteq answered
     /\ \A q \in Queues[uc] : \A s \in DOMAIN mail[q] : mail[q][s] = EmptyBag)
==============================================================================
