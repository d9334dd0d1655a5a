---------------------------- MODULE MCNodeWatch ----------------------------
(* Instances of NodeWatch for TLC. *)
EXTENDS NodeWatch
=============================================================================
