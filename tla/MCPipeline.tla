----------------------------- MODULE MCPipeline -----------------------------
(* Small files for each use case, with the amounts and the days at the bounds. *)
EXTENDS Pipeline

Bank(id, zeros) == [id |-> id, zeros |-> zeros]
Txn(day, from, to, paid, cur, fmt) ==
  [ts |-> [as |-> "str", day |-> day], fb |-> Bank(from[1], 1), fa |-> from[2], tb |-> Bank(to[1], 0), ta |-> to[2],
   recv |-> 7, rcur |-> "Yuan", paid |-> paid, cur |-> cur, fmt |-> fmt]
Usd1(day, from, to, paid) == Txn(day, from, to, paid, USD, "Wire")
A1 == <<1, "a">>
A2 == <<2, "a">>
B1 == <<1, "b">>
B2 == <<2, "b">>
A3 == <<3, "a">>
C1 == <<1, "c">>
C2 == <<2, "c">>
C3 == <<3, "c">>

\* In the fourth, B1 has three predecessors and three successors and is split both ways, with a
\* smaller last tile; B2 is sent whole; A1 and C1 have more neighbours than a bucket holds.
Files ==
  <<<<<<Usd1(1, A1, A2, 4999), Usd1(1, A1, A2, 5000)>>,
      <<Usd1(20, A2, A1, 10), Txn(2, A1, A2, 10, "Euro", "ACH")>>,
      <<Usd1(1, A1, A2, 4999), Usd1(1, B1, A2, 5000)>>>>,
    <<<<Usd1(1, A1, A2, 300), Usd1(1, A2, A1, 200)>>,
      <<Usd1(2, B1, A2, 300), Txn(2, A2, A1, 900, "Euro", "ACH")>>,
      <<Usd1(3, A2, A1, 400)>>>>,
    <<<<Usd1(5, A1, A2, 400), Usd1(6, A2, A1, 2)>>,
      <<Usd1(1, A1, A2, 200), Usd1(15, A2, A1, 3), Usd1(16, A2, A1, 1)>>,
      <<Txn(7, A1, A2, 1, USD, "ACH"), Usd1(6, A1, B1, 2)>>>>,
    <<<<Usd1(1, A1, B1, 1), Usd1(5, B1, C1, 1), Usd1(2, A2, B1, 1), Usd1(2, B1, C2, 1),
        Usd1(4, A1, B2, 1), Usd1(4, B2, C1, 1)>>,
      <<Usd1(1, A3, B1, 1), Usd1(5, B1, C3, 1), Usd1(3, A2, B2, 1), Usd1(3, B2, C2, 1),
        Usd1(4, A1, C1, 1), Usd1(4, A3, C3, 1), Usd1(6, A3, B2, 1)>>>>,
    <<<<Txn(1, A1, A2, 100, "Euro", "Wire"), Txn(5, A1, A2, 99, USD, "ACH")>>,
      <<Txn(6, A1, A2, 1, USD, "ACH"), Txn(2, A1, A2, 150, "Yen", "Wire"),
        Txn(2, A1, A2, 1, "Bitcoin", "Wire")>>,
      <<Txn(3, A1, A2, 1, USD, "Cheque"), Txn(3, A1, A2, 100, "Shell", "ACH")>>>>>>
AccountFile ==
  <<<<[name |-> "First", bank |-> Bank(1, 1)]>>, <<[name |-> "Second", bank |-> Bank(2, 2)],
    [name |-> "Third", bank |-> Bank(3, 0)]>>>>
\* The second seed puts every key on one shard.
MCCases ==
  {[uc |-> c[1], seed |-> c[2], batches |-> Files[c[1]], accounts |-> AccountFile] :
     c \in (1..5) \X {0} \cup {1, 3, 5} \X {1}}

Code(node) == node[1] + (CASE node[2] = "a" -> 0 [] node[2] = "b" -> 1 [] OTHER -> 3)
MCHash(seed, kind, key) ==
  CASE kind = "bank" -> (seed + 1) * key
    [] kind = "format" -> seed + (IF key = "Wire" THEN 0 ELSE 1)
    [] kind = "node" -> Code(key) * (seed + 1) + seed
    [] kind = "path" -> Code(key[1]) * (seed + 1) + Code(key[2])
MCEurRates(day) == (USD :> 99) @@ ("Yen" :> 150) @@ ("Yuan" :> 33)
==============================================================================
