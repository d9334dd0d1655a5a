---------------------------- MODULE MCRingStage ----------------------------
(* Instances of RingStage for TLC: inputs, routes and results. *)
EXTENDS RingStage, TLC

\* Two peers: the leader is sent two messages, the other peer one.
TwoPeersInput == 0 :> {"a", "b"} @@ 1 :> {"c"}

\* Two peers, of which the leader is sent only its EOF, for the liveness run.
EmptyLeaderInput == 0 :> {} @@ 1 :> {"c"}

\* A stateless controller sends "a" to both shards (a broadcast route), "b"
\* to one of them and filters nothing out.
MCRoute(m) == {[shard |-> s, body |-> m] : s \in IF m = "b" THEN {1} ELSE Shards}

\* A stateful controller sends the result of what it accumulated to each
\* shard; nothing accumulated gives no result.
MCResults(n, A) == {[shard |-> s, body |-> <<n, A>>] :
                      s \in IF A = {} THEN {} ELSE Shards}
=============================================================================
