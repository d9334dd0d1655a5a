---------------------------- MODULE StageBarrier ----------------------------
(***************************************************************************)
(* What a stage promises to the stages after it, for one client.  Outputs  *)
(* reach the downstream shards in any order; the stream of a shard may be  *)
(* closed only after the last output of the WHOLE stage was sent, and the  *)
(* closing EOF carries the number of outputs of that shard.  A downstream  *)
(* consumer that counts distinct messages up to the announced number thus  *)
(* neither stops early nor waits for ever.                                 *)
(***************************************************************************)
EXTENDS Integers, FiniteSets

CONSTANTS
  Shards,     \* downstream shards
  Outputs,    \* every output the stage produces for the client
  Total(_)    \* number of outputs of a shard

VARIABLES
  sent,       \* distinct outputs sent so far
  announced   \* announced[s]: counts that EOFs sent to s carry

bvars == <<sent, announced>>

Init == sent = {} /\ announced = [s \in Shards |-> {}]

Send(o) == o \in Outputs /\ sent' = sent \cup {o} /\ UNCHANGED announced

Announce(s) ==
  /\ sent = Outputs
  /\ announced' = [announced EXCEPT ![s] = @ \cup {Total(s)}]
  /\ UNCHANGED sent

Next == (\E o \in Outputs : Send(o)) \/ (\E s \in Shards : Announce(s))

Spec == Init /\ [][Next]_bvars
=============================================================================
