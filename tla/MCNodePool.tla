------------------------------ MODULE MCNodePool ------------------------------
(***************************************************************************)
(* Small instances of NodePool.                                            *)
(***************************************************************************)
EXTENDS NodePool, SmallTrees

\* pool: after m the branches of a5 and b5 compete.  t and u spend the same
\* output, v is in both branches and w, which spends an output of v, in one.
PoolPrev == [g |-> "none", s |-> "g", m |-> "s", a3 |-> "m", a4 |-> "a3", a5 |-> "a4",
             b3 |-> "m", b4 |-> "b3", b5 |-> "b4"]
PoolBody == [a3 |-> <<tx("t"), tx("v")>>, b3 |-> <<tx("v")>>, b4 |-> <<tx("w")>>,
             b5 |-> <<tx("u")>>]
PoolVin  == [t |-> <<<<cb("s"), 1>>>>, u |-> <<<<cb("s"), 1>>>>, v |-> <<<<cb("s"), 2>>>>,
             w |-> <<<<tx("v"), 1>>>>, y |-> <<<<tx("v"), 2>>>>]

-----------------------------------------------------------------------------
NoTransaction == <<"none", "none">>

PoolBlock    == DOMAIN PoolPrev
PoolHeight   == HeightIn(PoolPrev)
PoolAnc      == AncIn(PoolPrev)
PoolTx       == TxIn(PoolPrev, PoolVin)
PoolCoinBase == {cb(b) : b \in PoolBlock}
PoolVtx      == VtxIn(PoolPrev, PoolBody)
PoolVinAll   == VinIn(PoolPrev, PoolVin)
PoolVout     == [t \in PoolTx |-> {1, 2}]
PoolZero     == [b \in PoolBlock |-> 0]
PoolHeard    == {tx("u"), tx("v"), tx("w"), tx("y"), cb("a3")}
PoolWallet   == {tx("t"), tx("v")}
PoolNewer    == {<<tx("u"), tx("t")>>}
=============================================================================
