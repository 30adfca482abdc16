------------------------------- MODULE MCMiner -------------------------------
(* Instances of Miner for TLC. *)
EXTENDS Miner, TLC

\* The second transaction spends from the first.
TwoInARow == "a" :> {} @@ "b" :> {"a"}

\* Where another thread came between what a call does in ProcessBlock, and mining was not
\* switched before that, what has begun is followed to its end.
Finishing == raced => calls = 0 /\ \A m \in Maker : pc[m] \notin {"read", "collected"}
=============================================================================
