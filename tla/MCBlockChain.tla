---------------------------- MODULE MCBlockChain ----------------------------
(***************************************************************************)
(* Small block trees for BlockChain and ChainClaims.                       *)
(***************************************************************************)
EXTENDS ChainClaims, BlockChainInv, SmallTrees

-----------------------------------------------------------------------------
\* fork: a2, a3, a4 and z2, z3 follow s.  The best branch can be a2, then z3, then a4, or go
\* straight on.  t and u spend the same output, v is in both branches, w spends u within one
\* block; u is too early in a block after s, and z2 connects only where a2 was the tip.  x1
\* holds both t and u, and is final only above height 2; x2 and y2, y3 follow it.
ForkPrev == [g |-> "none", s |-> "g", a2 |-> "s", a3 |-> "a2", a4 |-> "a3", z2 |-> "s", z3 |-> "z2",
             x1 |-> "s", x2 |-> "x1", y2 |-> "x1", y3 |-> "y2"]
ForkBody == [a3 |-> <<tx("t"), tx("v")>>, z2 |-> <<tx("u"), tx("w")>>,
             z3 |-> <<tx("v")>>, x1 |-> <<tx("t"), tx("u")>>]
ForkVin  == [t |-> <<<<cb("s"), 1>>>>, u |-> <<<<cb("s"), 1>>>>,
             v |-> <<<<cb("s"), 2>>>>, w |-> <<<<tx("u"), 1>>>>]

\* claim: two branches of two and three blocks, c2 beside b2; a1 is a checkpoint.
ClaimPrev == [g |-> "none", a1 |-> "g", a2 |-> "a1",
              b1 |-> "g", b2 |-> "b1", b3 |-> "b2", c2 |-> "b1"]

-----------------------------------------------------------------------------
ForkBlock      == DOMAIN ForkPrev
ForkHeight_    == HeightIn(ForkPrev)
ForkAnc        == AncIn(ForkPrev)
ForkTx         == TxIn(ForkPrev, ForkVin)
ForkCoinBase   == {cb(b) : b \in ForkBlock}
ForkVtx        == VtxIn(ForkPrev, ForkBody)
ForkVinAll     == VinIn(ForkPrev, ForkVin)
ForkVout       == [t \in ForkTx |-> {1, 2}]
ForkLockHeight == [b \in ForkBlock |-> IF b = "x1" THEN 2 ELSE 0]
ForkClaim      == [b \in ForkBlock |-> 2]

ClaimBlock      == DOMAIN ClaimPrev
ClaimHeight     == HeightIn(ClaimPrev)
ClaimAnc        == AncIn(ClaimPrev)
ClaimTx         == TxIn(ClaimPrev, <<>>)
ClaimCoinBase   == {cb(b) : b \in ClaimBlock}
ClaimVtx        == VtxIn(ClaimPrev, <<>>)
ClaimVinAll     == VinIn(ClaimPrev, <<>>)
ClaimVout       == [t \in ClaimTx |-> {1}]
ClaimLockHeight == [b \in ClaimBlock |-> 0]
ClaimNormal     == [b \in ClaimBlock |-> 1]
=============================================================================
