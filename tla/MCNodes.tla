------------------------------- MODULE MCNodes -------------------------------
(* Instances of Nodes for TLC. *)
EXTENDS Nodes, TLC

Symmetry == Permutations(Node)

\* Two addresses, of one network group.
OneGroup == [a \in Ip |-> "g"]
=============================================================================
