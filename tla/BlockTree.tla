------------------------------ MODULE BlockTree ------------------------------
(***************************************************************************)
(* The immutable data every node sees: blocks, the transactions in them,   *)
(* and the consensus parameters.  A block here has passed CheckBlock       *)
(* (main.cpp:1417), which looks at nothing but the block and the clock.    *)
(* Hash links make the blocks a tree, and a hash commits to a block's      *)
(* whole history, so the parent, the height and the ancestors of a block   *)
(* are constants: the state of a node is which blocks it has and what it   *)
(* has done with them.                                                     *)
(***************************************************************************)
EXTENDS Naturals, Sequences

CONSTANTS
    Block,          \* the blocks that may ever be mined, genesis included
    NoBlock,        \* the null block pointer, the zero hash
    Genesis,        \* the block of hashGenesisBlock
    Prev,           \* Prev[b]: the block b.hashPrevBlock names
    Height,         \* Height[b]: distance from genesis
    Anc,            \* Anc[b]: b and all its ancestors
    WellTimed,      \* blocks whose nTime and nBits their ancestors allow
    LockHeight,     \* LockHeight[b]: highest height-based nLockTime of its
                    \*   transactions that are not final by nSequence, 0 if none
    Tx,             \* the transactions
    CoinBase,       \* those of them that are coinbases
    Sound,          \* those whose signatures verify and whose fee is not negative
    Index,          \* output indices
    Vout,           \* Vout[t]: the output indices t has
    Vin,            \* Vin[t]: the sequence of outpoints t spends
    Vtx,            \* Vtx[b]: the sequence of transactions of b, coinbase first
    Claim,          \* Claim[b]: what b's coinbase pays out beyond its fees
    InitialSubsidy, \* 50 * COIN, in the unit of Claim
    HalvingInterval,\* 210000
    CoinbaseMaturity, \* GetCoinbaseMaturity()
    Checkpoints     \* the blocks of mapCheckpoints

OutPoint == Tx \X Index

TxsOf(b) == {Vtx[b][i] : i \in DOMAIN Vtx[b]}

\* The outpoints that the transactions of b spend.
Inputs(t) == {Vin[t][k] : k \in DOMAIN Vin[t]}
Spends(b) == UNION {Inputs(t) : t \in TxsOf(b)}

\* The blocks of the branch that ends in b whose transactions count: the coinbase
\* of genesis never enters the transaction index.
Branch(b) == Anc[b] \ {Genesis}

\* Every input of a transaction of a branch names an output of an earlier one.
InputsExist(b) ==
    \A a \in Branch(b) : \A i \in DOMAIN Vtx[a] : \A o \in Inputs(Vtx[a][i]) :
        /\ o[2] \in Vout[o[1]]
        /\ \E c \in Branch(a) : \E j \in DOMAIN Vtx[c] :
              Vtx[c][j] = o[1] /\ (c # a \/ j < i)

\* No output is spent twice on a branch.
NoDoubleSpend(b) ==
    \A a, c \in Branch(b) : \A i \in DOMAIN Vtx[a], j \in DOMAIN Vtx[c] :
        \A k \in DOMAIN Vin[Vtx[a][i]], l \in DOMAIN Vin[Vtx[c][j]] :
            Vin[Vtx[a][i]][k] = Vin[Vtx[c][j]][l] => a = c /\ i = j /\ k = l

ValidBranch(b) == InputsExist(b) /\ NoDoubleSpend(b)

\* CBlock::GetBlockValue without the fees: one right shift per interval.
BlockValue(nBestHeight) == InitialSubsidy \div 2^(nBestHeight \div HalvingInterval)

-----------------------------------------------------------------------------
\* Blocks form a tree rooted at genesis; Height and Anc are what the links say.
ASSUME TreeAssumption ==
    /\ Genesis \in Block
    /\ NoBlock \notin Block
    /\ Prev \in [Block -> Block \cup {NoBlock}]
    /\ \A b \in Block : Prev[b] = NoBlock <=> b = Genesis
    /\ Height \in [Block -> Nat]
    /\ Height[Genesis] = 0
    /\ \A b \in Block \ {Genesis} : Height[b] = Height[Prev[b]] + 1
    /\ Anc \in [Block -> SUBSET Block]
    /\ Anc[Genesis] = {Genesis}
    /\ \A b \in Block \ {Genesis} : Anc[b] = Anc[Prev[b]] \cup {b}

\* CheckBlock: one coinbase, the first; CheckTransaction: vin is never empty
\* (the null input of a coinbase is left out).
ASSUME TxAssumption ==
    /\ CoinBase \subseteq Tx
    /\ Vout \in [Tx -> SUBSET Index]
    /\ Vin \in [Tx -> Seq(OutPoint)]
    /\ \A t \in Tx : Vin[t] = <<>> <=> t \in CoinBase
    /\ Vtx \in [Block -> Seq(Tx)]
    /\ \A b \in Block : \A i \in DOMAIN Vtx[b] : Vtx[b][i] \in CoinBase <=> i = 1

\* Nothing in ConnectBlock keeps two blocks of one branch from holding the same
\* coinbase; that they do not is a property of miners, which pay each block to a
\* new key (main.cpp:3171) and count bnExtraNonce.
ASSUME CoinbaseAssumption ==
    \A b \in Block : \A a \in Anc[b] \ {b} : TxsOf(a) \cap TxsOf(b) \cap CoinBase = {}

ASSUME ParameterAssumption ==
    /\ WellTimed \subseteq Block
    /\ LockHeight \in [Block -> Nat]
    /\ Sound \subseteq Tx
    /\ Claim \in [Block -> Nat]
    /\ InitialSubsidy \in Nat
    /\ HalvingInterval \in Nat \ {0}
    /\ CoinbaseMaturity \in Nat
    /\ Checkpoints \subseteq Block
=============================================================================
