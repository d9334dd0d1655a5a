------------------------------ MODULE MCSpill ------------------------------
(* Instances of Spill for TLC. *)
EXTENDS Spill, TLC

\* Three messages of one client, all in the client's one file.
OneFile == "a" :> {"f"} @@ "b" :> {"f"} @@ "c" :> {"f"}

\* Two buckets; message "a" has partials in both.
TwoFiles == "a" :> {"f", "g"} @@ "b" :> {"f"} @@ "c" :> {"g"}
=============================================================================
