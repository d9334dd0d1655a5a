---------------------------- MODULE MCMergeJoin ----------------------------
(* Instances of MergeJoin for TLC. *)
EXTENDS MergeJoin, TLC

\* "c" has two rows that match; "d" has one row and no key for it.
KeysOfTwo == "c" :> {"k"} @@ "d" :> {}
Owners == [r \in {"c1", "c2"} |-> "c"] @@ "d1" :> "d"
RowKeys == [r \in DOMAIN Owners |-> "k"]

Interleaved == {<<"c1", "d1", "c2">>}
=============================================================================
