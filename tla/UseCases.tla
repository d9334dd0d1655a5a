------------------------------ MODULE UseCases ------------------------------
(***************************************************************************)
(* The functions the controllers run for the five use cases: the filters,  *)
(* the group-bys, the aggregates, the merges and the joins.  Amounts are   *)
(* in cents and a timestamp is its day of September 2022; an average is    *)
(* kept as the pair of its sum and its count.  A group-by and an aggregate *)
(* return the messages they send as a sequence of [body, affinity].        *)
(***************************************************************************)
EXTENDS PathGraph, Messages, FiniteSetsExt, TLC

CONSTANTS
  Hash(_, _, _),    \* hash(key) under a seed: seed, kind of key, key
  AffinityShards,   \* AFFINITY_SHARDS of use case 2 and of uc4_count_paths (10)
  BatchAffinityShards,   \* AFFINITY_SHARDS of uc4_compute_graph (50)
  GraphAffinityShards,   \* AFFINITY_SHARDS of uc4_aggregate_graph (100)
  ShardingFiles,    \* SHARDING_FILES of a MultiShardSpill
  SpillThreshold,   \* keys in memory that make an aggregate spill
  SplitThreshold,   \* pairs of a node above which the prune merge tiles it
  ChunkSize,        \* rows per message of a merge that streams its result
  EurRates(_)       \* external: the rates service's answer for a day, units per euro

ASSUME UseCasesAssumption ==
  {AffinityShards, BatchAffinityShards, GraphAffinityShards, ShardingFiles,
   SpillThreshold, SplitThreshold, ChunkSize} \subseteq Nat \ {0}

USD == "US Dollar"
RateUnit == 100    \* rates are in hundredths; a converted amount is in hundredths of a cent
Empty == <<>>    \* the empty dict

\* ---------------------------------------------------------------- parsers
\* Bank ids may be padded with zeros, differently in the two files; str(int(x)) drops them.
ParseTransaction(line) ==
  [line EXCEPT !.ts = fast_datetime(@), !.fb = @.id, !.tb = @.id]
ParseAccount(line) == [line EXCEPT !.bank = @.id]

\* ---------------------------------------------------------------- filters
\* Mutant: the bound is inclusive.
UC1KeepInclusive(t) == t.cur = USD /\ t.paid <= 5000
UC1Keep(t) == t.cur = USD /\ t.paid < 5000
UC2Keep(t) == t.cur = USD
UC3KeepPeriodA(t) == t.cur = USD /\ 1 <= t.ts.day /\ t.ts.day <= 5
UC3KeepPeriodB(t) == t.cur = USD /\ 6 <= t.ts.day /\ t.ts.day <= 15
UC4Keep(t) == t.cur = USD /\ 1 <= t.ts.day /\ t.ts.day < 6
UC5Keep(t) == t.fmt \in {"Wire", "ACH"} /\ 1 <= t.ts.day /\ t.ts.day < 6
UC5AmountKeep(t) == t.paid < 100 * RateUnit    \* of converted transactions

\* amount < 0.01 * average, of the averages the message carries.
UC3AvgFilter(m) ==
  SelectSeq(m.txns, LAMBDA t :
    /\ t.fmt \in DOMAIN m.averages
    /\ t.paid * 100 * m.averages[t.fmt][2] < m.averages[t.fmt][1])

\* -------------------------------------------------------------- group-bys
\* Op of a value that is evaluated once.
With(value, Op(_)) == CHOOSE r \in {Op(v) : v \in {value}} : TRUE
Fold(Op(_, _), base, s) ==
  FoldLeft(LAMBDA acc, x : With(acc, LAMBDA a : Op(a, x)), base, s)
\* The keys of a dict in some order.
Listed(S) == FoldSet(LAMBDA x, s : Append(s, x), <<>>, S)
OverSet(S, Op(_)) == MapSeq(Op, Listed(S))
One(body, affinity) == <<[body |-> body, affinity |-> affinity]>>

\* One message per affinity shard, with the keys that hash to it.
Grouped(dict, Affinity(_)) ==
  With(dict, LAMBDA d :
    OverSet({Affinity(k) : k \in DOMAIN d},
            LAMBDA a : [body |-> RestrictDomain(d, LAMBDA k : Affinity(k) = a), affinity |-> a]))
\* One message per key.
OneEach(d, Affinity(_)) ==
  OverSet(DOMAIN d, LAMBDA k : [body |-> k :> d[k], affinity |-> Affinity(k)])

\* The strict comparison keeps the account that came first among equal amounts.
RaiseMax(d, bank, account, amount) ==
  IF bank \notin DOMAIN d \/ amount > d[bank][2] THEN (bank :> <<account, amount>>) @@ d ELSE d

\* Mutant: the affinity is that of the account.
UC2MaxAmountGroupByAccount(seed, txns) ==
  LET d == Fold(LAMBDA e, t : RaiseMax(e, t.fb, t.fa, t.paid), Empty, txns) IN
  Grouped(d, LAMBDA b : Hash(seed, "node", <<b, d[b][1]>>) % AffinityShards)
UC2MaxAmountGroupBy(seed, txns) ==
  Grouped(Fold(LAMBDA d, t : RaiseMax(d, t.fb, t.fa, t.paid), Empty, txns),
          LAMBDA b : Hash(seed, "bank", b) % AffinityShards)
UC2BankNamesGroupBy(seed, accs) ==
  Grouped(Fold(LAMBDA d, a : (a.bank :> a.name) @@ d, Empty, accs),
          LAMBDA b : Hash(seed, "bank", b) % AffinityShards)

SumOf(d, k) == IF k \in DOMAIN d THEN d[k] ELSE <<0, 0>>
AddSum(d, k, s) == (k :> <<SumOf(d, k)[1] + s[1], SumOf(d, k)[2] + s[2]>>) @@ d
UC3SumGroupBy(seed, txns) ==
  OneEach(Fold(LAMBDA d, t : AddSum(d, t.fmt, <<t.paid, 1>>), Empty, txns),
          LAMBDA f : Hash(seed, "format", f))

\* Every endpoint of a transfer, with the neighbours this batch gives it on each side.
Edges(txns) == {<<<<t.fb, t.fa>>, <<t.tb, t.ta>>>> : t \in ToSet(txns)}
UC4ComputeGraph(seed, txns) ==
  LET E == Edges(txns) IN
  Grouped([n \in Nodes(E) |-> <<Preds(E, n), Succs(E, n)>>],
          LAMBDA n : Hash(seed, "node", n) % BatchAffinityShards)

\* The service quotes units per euro; three currencies it may lack have fixed rates.
Fallback == "Bitcoin" :> 7833 @@ "Ruble" :> 1 @@ "Saudi Riyal" :> 27
GetRates(day) ==
  LET eur == EurRates(day) IN
  Fallback @@ USD :> RateUnit @@ "Euro" :> eur[USD]
           @@ [c \in (DOMAIN eur) \ {USD} |-> (eur[USD] * RateUnit) \div eur[c]]
BitcoinRates == [day \in 1..5 |-> (20000 - day) * RateUnit]
\* The day's rates, fetched until the service answers and then kept.
RatesFor(day) ==
  IF day \in DOMAIN BitcoinRates THEN "Bitcoin" :> BitcoinRates[day] @@ GetRates(day)
  ELSE GetRates(day)
RateOf(day, currency) ==
  IF currency \in DOMAIN RatesFor(day) THEN RatesFor(day)[currency] ELSE RateUnit
\* The affinity is the hash of the message's identity: the controller's choice is any shard.
UC5Converter(txns) ==
  MapSeq(LAMBDA t : [t EXCEPT !.paid = @ * RateOf(t.ts.day, t.cur), !.cur = USD], txns)
UC5Count(txns) == Len(txns)

\* ------------------------------------------------------------- aggregates
UC2MaxAmountAggregate(d, m) ==
  Fold(LAMBDA e, b : RaiseMax(e, b, m[b][1], m[b][2]), d, Listed(DOMAIN m))
UC2MaxAmountResult(seed, d) == OneEach(d, LAMBDA b : Hash(seed, "bank", b))
UC2BankNamesAggregate(d, m) == m @@ d
UC2BankNamesResult(seed, d) == OneEach(d, LAMBDA b : Hash(seed, "bank", b))
UC3AvgAggregate(d, m) == Fold(LAMBDA e, f : AddSum(e, f, m[f]), d, Listed(DOMAIN m))
UC3AvgResult(seed, d) == OneEach(d, LAMBDA f : Hash(seed, "format", f))

\* An aggregate of use case 4 keeps a dict in memory and the partial dicts it has written out.
FreshSpill == [mem |-> Empty, disk |-> <<>>]
SpillToDisk(st) == [mem |-> Empty, disk |-> Append(st.disk, st.mem)]
SpillIfFull(st) ==
  IF Cardinality(DOMAIN st.mem) >= SpillThreshold THEN SpillToDisk(st) ELSE st
\* get_result reads the spill files one by one; a key is in one file only.
FileOf(seed, kind, k) == Hash(seed, kind, k) % ShardingFiles
PerFile(seed, kind, dict, Op(_)) ==
  With(dict, LAMBDA d :
    FlattenSeq(OverSet({FileOf(seed, kind, k) : k \in DOMAIN d},
                       LAMBDA f : Op(RestrictDomain(d, LAMBDA k : FileOf(seed, kind, k) = f)))))

Side(d, n, i) == IF n \in DOMAIN d THEN d[n][i] ELSE {}
GraphUnion(d, m) ==
  [n \in (DOMAIN d) \cup (DOMAIN m) |->
     <<Side(d, n, 1) \cup Side(m, n, 1), Side(d, n, 2) \cup Side(m, n, 2)>>]
UC4AggregateGraphs(st, m) == SpillIfFull([st EXCEPT !.mem = GraphUnion(@, m)])
UC4AggregateGraphsResult(seed, st) ==
  PerFile(seed, "node", Fold(GraphUnion, Empty, SpillToDisk(st).disk),
          LAMBDA d : Grouped(d, LAMBDA n : Hash(seed, "node", n) % GraphAffinityShards))

\* A bucket stops growing at MIN_DEGREE; which neighbours it holds does not matter.
CappedUpdate(bucket, more) ==
  IF Cardinality(bucket \cup more) <= MinDegree THEN bucket \cup more
  ELSE bucket \cup CHOOSE S \in SUBSET (more \ bucket) :
                     Cardinality(S) = MinDegree - Cardinality(bucket)
DegreeUpdate(d, m) ==
  [n \in (DOMAIN d) \cup (DOMAIN m) |->
     <<CappedUpdate(Side(d, n, 1), Side(m, n, 1)), CappedUpdate(Side(d, n, 2), Side(m, n, 2))>>]
\* The buckets are out-neighbours, then in-neighbours; the message has them the other way round.
UC4Degree(st, m) ==
  SpillIfFull([st EXCEPT !.mem = DegreeUpdate(@, [n \in DOMAIN m |-> <<m[n][2], m[n][1]>>])])
\* Mutant: each partial is judged by itself.
UC4DegreeResultPerPartial(seed, st) ==
  LET all == ToSet(SpillToDisk(st).disk)
      High(i) == UNION {{n \in DOMAIN d : Cardinality(d[n][i]) >= MinDegree} : d \in all}
  IN  One([hiOut |-> High(1), hiIn |-> High(2)], 0)
UC4DegreeResult(seed, st) ==
  LET all == Fold(DegreeUpdate, Empty, SpillToDisk(st).disk)
      High(i) == {n \in DOMAIN all : Cardinality(all[n][i]) >= MinDegree}
  IN  One([hiOut |-> High(1), hiIn |-> High(2)], 0)

CountOf(d, p) == IF p \in DOMAIN d THEN d[p] ELSE 0
AddCounts(d, m) == [p \in (DOMAIN d) \cup (DOMAIN m) |-> CountOf(d, p) + CountOf(m, p)]
\* Predecessor by predecessor, so that one hub cannot fill the memory.
UC4CountPaths(st, m) ==
  LET from == UNION {{<<n, a>> : a \in m[n][1]} : n \in DOMAIN m}
      OnePred(s, x) ==
        SpillIfFull([s EXCEPT !.mem =
          AddCounts(@, [p \in {x[2]} \X (m[x[1]][2] \ {x[2]}) |-> 1])])
  IN  SpillIfFull(Fold(OnePred, st, Listed(from)))
UC4CountPathsResult(seed, st) ==
  PerFile(seed, "path", Fold(AddCounts, Empty, SpillToDisk(st).disk),
          LAMBDA d : Grouped(d, LAMBDA p : Hash(seed, "path", p) % AffinityShards))
UC4AggregatePaths(st, m) == SpillIfFull([st EXCEPT !.mem = AddCounts(@, m)])
UC4AggregatePathsResult(seed, st) ==
  PerFile(seed, "path", Fold(AddCounts, Empty, SpillToDisk(st).disk),
          LAMBDA d : One(RestrictValues(d, LAMBDA n : n >= MinPathCount), 0))

\* ----------------------------------------------------------------- merges
Chunks(s, n) ==
  [k \in 1..((Len(s) + n - 1) \div n) |-> SubSeq(s, (k - 1) * n + 1, Min({k * n, Len(s)}))]

UC2MergeLeft(st, m) == [st EXCEPT !.left = UC2MaxAmountAggregate(@, m)]
UC2MergeRight(st, m) == [st EXCEPT !.right = m @@ @]
UC2MergeResult(st) ==
  <<OverSet(DOMAIN st.left \cap DOMAIN st.right,
            LAMBDA b : <<b, st.left[b][1], st.left[b][2], st.right[b]>>)>>

UC3MergeLeft(st, m) == [st EXCEPT !.left = m @@ @]
UC3MergeRight(st, txns) == [st EXCEPT !.right = @ \o txns]
\* At least one message, with no transactions when none matches.
UC3MergeResult(st) ==
  LET matching == SelectSeq(st.right, LAMBDA t : t.fmt \in DOMAIN st.left)
      batches == IF matching = <<>> THEN <<<<>>>> ELSE Chunks(matching, ChunkSize)
  IN  MapSeq(LAMBDA b : [txns |-> b, averages |-> st.left], batches)

\* int(sqrt(SPLIT_THRESHOLD * m / n)), at least 1.
TileSide(m, n) == Max({1} \cup {k \in 1..(SplitThreshold * m) : k * k * n <= SplitThreshold * m})
\* Mutant: a last tile that is not full is left out.
FullChunks(s, n) == [k \in 1..(Len(s) \div n) |-> SubSeq(s, (k - 1) * n + 1, k * n)]
SaltedTilesFull(node, P, S) ==
  LET ps == Chunks(Listed(P), TileSide(Cardinality(P), Cardinality(S)))
      ss == FullChunks(Listed(S), TileSide(Cardinality(S), Cardinality(P)))
  IN  FlattenSeq([i \in DOMAIN ps |-> [j \in DOMAIN ss |->
        node :> <<ToSet(ps[i]), ToSet(ss[j])>>]])
SaltedTiles(node, P, S) ==
  LET ps == Chunks(Listed(P), TileSide(Cardinality(P), Cardinality(S)))
      ss == Chunks(Listed(S), TileSide(Cardinality(S), Cardinality(P)))
  IN  FlattenSeq([i \in DOMAIN ps |-> [j \in DOMAIN ss |->
        node :> <<ToSet(ps[i]), ToSet(ss[j])>>]])

UC4MergeLeft(st, m) ==
  [st EXCEPT !.left = [hiOut |-> @.hiOut \cup m.hiOut, hiIn |-> @.hiIn \cup m.hiIn]]
UC4MergeRight(st, m) ==
  [st EXCEPT !.right = @ \o OverSet(DOMAIN m, LAMBDA n : <<n, m[n][1], m[n][2]>>)]
\* One node of the file: dropped, tiled, or added to the batch, which is sent when it is large.
PruneNode(hi, acc, line) ==
  LET P == line[2] \cap hi.hiOut
      S == line[3] \cap hi.hiIn
      batch == (line[1] :> <<P, S>>) @@ acc.batch
      size == acc.size + Cardinality(P) + Cardinality(S)
  IN  IF P = {} \/ S = {} THEN acc
      ELSE IF Cardinality(P) * Cardinality(S) > SplitThreshold
      THEN [acc EXCEPT !.out = @ \o SaltedTiles(line[1], P, S)]
      ELSE IF size >= ChunkSize
      THEN [batch |-> Empty, size |-> 0, out |-> Append(acc.out, batch)]
      ELSE [acc EXCEPT !.batch = batch, !.size = size]
UC4MergeResult(st) ==
  LET acc == Fold(LAMBDA a, line : PruneNode(st.left, a, line),
                      [batch |-> Empty, size |-> 0, out |-> <<>>], st.right)
  IN  IF DOMAIN acc.batch = {} THEN acc.out ELSE Append(acc.out, acc.batch)

\* ------------------------------------------------------------------ joins
UC1Join(lines, txns) ==
  lines \o MapSeq(LAMBDA t : <<t.fb, t.fa, t.tb, t.ta, t.paid>>, txns)
UC2Join(entries, m) == entries \o m
UC3Join(lines, txns) == lines \o MapSeq(LAMBDA t : <<t.fb, t.fa, t.fmt, t.paid>>, txns)
UC4Join(counts, m) == m @@ counts
UC4Response(counts) == {p[1] : p \in DOMAIN counts} \cup {p[2] : p \in DOMAIN counts}
UC5Join(total, n) == total + n
==============================================================================
