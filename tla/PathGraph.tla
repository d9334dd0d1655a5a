------------------------------ MODULE PathGraph ------------------------------
(***************************************************************************)
(* What use case 4 asks of the graph of transfers: the pairs of accounts   *)
(* with enough distinct intermediaries between them.  A graph is its set   *)
(* of edges.                                                               *)
(***************************************************************************)
EXTENDS Integers, FiniteSets

CONSTANTS
  MinDegree,      \* uc4_degree.MIN_DEGREE
  MinPathCount    \* uc4_aggregate_paths.MIN_PATH_COUNT

\* The code has 5 for both.  Pruning by degree only needs the first not to exceed the second.
ASSUME ThresholdAssumption ==
  /\ MinDegree \in Nat \ {0} /\ MinPathCount \in Nat
  /\ MinDegree <= MinPathCount

Nodes(E) == {e[1] : e \in E} \cup {e[2] : e \in E}
Succs(E, a) == {b \in Nodes(E) : <<a, b>> \in E}
Preds(E, b) == {a \in Nodes(E) : <<a, b>> \in E}

\* The intermediaries of a pair: every b with a transfer from a and one to c.
Mids(E, a, c) == {b \in Nodes(E) : <<a, b>> \in E /\ <<b, c>> \in E}
Qualifying(E) ==
  {p \in Nodes(E) \X Nodes(E) :
     p[1] # p[2] /\ Cardinality(Mids(E, p[1], p[2])) >= MinPathCount}

\* What the degree fleet reports and what the prune merge leaves of a node's neighbours.
HiOut(E) == {a \in Nodes(E) : Cardinality(Succs(E, a)) >= MinDegree}
HiIn(E) == {c \in Nodes(E) : Cardinality(Preds(E, c)) >= MinDegree}
PrunedMids(E, a, c) ==
  {b \in Nodes(E) : a \in Preds(E, b) \cap HiOut(E) /\ c \in Succs(E, b) \cap HiIn(E)}
QualifyingPruned(E) ==
  {p \in Nodes(E) \X Nodes(E) :
     p[1] # p[2] /\ Cardinality(PrunedMids(E, p[1], p[2])) >= MinPathCount}
==============================================================================
