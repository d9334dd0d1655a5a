------------------------------ MODULE MCDedup ------------------------------
(* Instances of Dedup for TLC. *)
EXTENDS Dedup

\* The producer stamps one counter on the messages of two shards: this
\* consumer's share has gaps that no message will ever fill.
Striped == {2, 4, 5}
Contiguous == 1 .. 4
=============================================================================
