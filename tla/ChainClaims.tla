----------------------------- MODULE ChainClaims -----------------------------
(***************************************************************************)
(* What a message says of the block chain and the code does not keep.      *)
(***************************************************************************)
EXTENDS BlockChain

\* "rejected by checkpoint lockin at %d" (main.cpp:1348): a block that contradicts
\* a checkpoint is rejected, so the best chain has none.
CheckpointLockin ==
    \A c \in Checkpoints, b \in Anc[pindexBest] : Height[b] = Height[c] => b = c
=============================================================================
