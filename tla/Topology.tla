------------------------------ MODULE Topology ------------------------------
(***************************************************************************)
(* Which fleet reads which queue and writes which, as the generator of the *)
(* compose file wires them (scripts/gen_compose) and the controllers' main *)
(* modules read it back.  A queue of a fleet has one shard per peer; the   *)
(* queue of a join has one.                                                *)
(***************************************************************************)
EXTENDS Integers, Sequences, Functions, TLC

CONSTANT NPeers    \* peers per fleet; topology.py has 2 everywhere
ASSUME NPeersAssumption == NPeers \in Nat \ {0}

Fleet(kind, rx, tx, out, broadcast) ==
  [kind |-> kind, rx |-> rx, tx |-> tx, out |-> out, broadcast |-> broadcast]

DefaultFilters(uc) ==
  "default_filter" :> Fleet("filter", <<"client_transactions">>,
    CASE uc = 1 -> <<"uc1_join">>
      [] uc = 2 -> <<"uc2_filtered_transactions">>
      [] uc = 3 -> <<"uc3_transactions_period_a", "uc3_transactions_period_b">>
      [] uc = 4 -> <<"uc4_filtered_transactions">>
      [] uc = 5 -> <<"uc5_filtered_transactions">>, "TRANSACTIONS", FALSE)

UC2Fleets ==
  "uc2_max_amount_group_by" :> Fleet("group_by", <<"uc2_filtered_transactions">>,
    <<"uc2_partial_max_amount">>, "MAX_BY_BANK", FALSE)
  @@ "uc2_max_amount_aggregate" :> Fleet("aggregate", <<"uc2_partial_max_amount">>,
    <<"uc2_max_amounts_by_bank">>, "MAX_BY_BANK", TRUE)
  @@ "uc2_bank_names_group_by" :> Fleet("group_by", <<"client_accounts">>,
    <<"uc2_partial_bank_names">>, "BANK_NAMES", FALSE)
  @@ "uc2_bank_names_aggregate" :> Fleet("aggregate", <<"uc2_partial_bank_names">>,
    <<"uc2_bank_id_name_mappings">>, "BANK_NAMES", FALSE)
  @@ "uc2_merge" :> Fleet("merge", <<"uc2_max_amounts_by_bank", "uc2_bank_id_name_mappings">>,
    <<"uc2_join">>, "MERGED_BANK_DATA", FALSE)
UC3FleetsWith(mergeInputs) ==
  "uc3_group_by_format" :> Fleet("group_by", <<"uc3_transactions_period_a">>,
    <<"uc3_sum_by_format">>, "SUM_BY_PAYMENT_FORMAT", FALSE)
  @@ "uc3_average_aggregate" :> Fleet("aggregate", <<"uc3_sum_by_format">>,
    <<"uc3_avg">>, "AVG_BY_FORMAT", TRUE)
  @@ "uc3_merge" :> Fleet("merge", mergeInputs,
    <<"uc3_average_merged">>, "MERGED_TRANSACTIONS", FALSE)
  @@ "uc3_average_filter" :> Fleet("filter", <<"uc3_average_merged">>,
    <<"uc3_join">>, "TRANSACTIONS", FALSE)
\* Mutant: the merge has its two inputs the other way round.
UC3FleetsSwapped == UC3FleetsWith(<<"uc3_transactions_period_b", "uc3_avg">>)
UC3Fleets == UC3FleetsWith(<<"uc3_avg", "uc3_transactions_period_b">>)
UC4FleetsWith(highDegree) ==
  "uc4_compute_graph_group_by" :> Fleet("group_by", <<"uc4_filtered_transactions">>,
    <<"uc4_graphs", "uc4_degree_graphs">>, "GRAPH", FALSE)
  @@ "uc4_aggregate_graphs" :> Fleet("aggregate", <<"uc4_graphs">>,
    <<"uc4_graphs_to_prune">>, "GRAPH", FALSE)
  @@ "uc4_degree_aggregate" :> Fleet("aggregate", <<"uc4_degree_graphs">>,
    <<"uc4_high_degree">>, "HIGH_DEGREE", TRUE)
  @@ "uc4_prune" :> Fleet("merge", <<highDegree, "uc4_graphs_to_prune">>,
    <<"uc4_pruned">>, "GRAPH", FALSE)
  @@ "uc4_count_paths" :> Fleet("aggregate", <<"uc4_pruned">>,
    <<"uc4_paths">>, "PATH_COUNTS", FALSE)
  @@ "uc4_paths_aggregate" :> Fleet("aggregate", <<"uc4_paths">>,
    <<"uc4_join">>, "PATH_COUNTS", FALSE)
\* Mutant: the prune merge is started on a queue that no fleet writes.
UC4FleetsMiswired == UC4FleetsWith("uc4_high_degrees")
UC4Fleets == UC4FleetsWith("uc4_high_degree")
UC5Fleets ==
  "uc5_converter" :> Fleet("group_by", <<"uc5_filtered_transactions">>,
    <<"uc5_converted_transactions">>, "TRANSACTIONS", FALSE)
  @@ "uc5_amount_filter" :> Fleet("filter", <<"uc5_converted_transactions">>,
    <<"uc5_filtered_converted_transactions">>, "TRANSACTIONS", FALSE)
  @@ "uc5_count_group_by" :> Fleet("group_by", <<"uc5_filtered_converted_transactions">>,
    <<"uc5_join">>, "COUNT", FALSE)

UseCaseIds == 1..5
\* The fleets that work for each use case, and the queue of its join.
Fleets ==
  [uc \in UseCaseIds |-> DefaultFilters(uc) @@
    CASE uc = 1 -> <<>> [] uc = 2 -> UC2Fleets [] uc = 3 -> UC3Fleets
      [] uc = 4 -> UC4Fleets [] uc = 5 -> UC5Fleets]
JoinQueue == <<"uc1_join", "uc2_join", "uc3_join", "uc4_join", "uc5_join">>
\* The use cases of each join replica: one consumer per queue.
JoinPartition == <<{1}, {3}, {2, 4, 5}>>

\* Every queue somebody reads or writes.
Queues ==
  [uc \in UseCaseIds |->
    {JoinQueue[uc], "client_accounts"}
      \cup UNION {Range(fleet.rx) \cup Range(fleet.tx) : fleet \in Range(Fleets[uc])}]
NShards == [uc \in UseCaseIds |-> [q \in Queues[uc] |-> IF q = JoinQueue[uc] THEN 1 ELSE NPeers]]
\* Whose EOF a reader of the queue waits for: the fleets that write it, or the gateway.
Writers ==
  [uc \in UseCaseIds |-> [q \in Queues[uc] |->
    IF q \in {"client_transactions", "client_accounts"} THEN {"gateway"}
    ELSE {f \in DOMAIN Fleets[uc] : q \in Range(Fleets[uc][f].tx)}]]
==============================================================================
