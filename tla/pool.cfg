CONSTANTS
    Block <- PoolBlock
    NoBlock = "none"
    Genesis = "g"
    Prev <- PoolPrev
    Height <- PoolHeight
    Anc <- PoolAnc
    WellTimed <- PoolBlock
    LockHeight <- PoolZero
    Tx <- PoolTx
    CoinBase <- PoolCoinBase
    Sound <- PoolTx
    Index = {1, 2}
    Vout <- PoolVout
    Vin <- PoolVinAll
    Vtx <- PoolVtx
    Claim <- PoolZero
    InitialSubsidy = 2
    HalvingInterval = 8
    CoinbaseMaturity = 2
    Checkpoints = {"g"}
    NoTx <- NoTransaction
    Standard <- PoolTx
    Newer <- PoolNewer
    Heard <- PoolHeard
    WalletTx <- PoolWallet
SPECIFICATION NodeSpec
INVARIANTS
    NextTxValid
    PoolUnconfirmed
PROPERTIES
    UnconfirmedKept
    OrphansProcessed
