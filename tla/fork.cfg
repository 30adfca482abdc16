CONSTANTS
    Block <- ForkBlock
    NoBlock = "none"
    Genesis = "g"
    Prev <- ForkPrev
    Height <- ForkHeight_
    Anc <- ForkAnc
    WellTimed <- ForkBlock
    LockHeight <- ForkLockHeight
    Tx <- ForkTx
    CoinBase <- ForkCoinBase
    Sound <- ForkTx
    Index = {1, 2}
    Vout <- ForkVout
    Vin <- ForkVinAll
    Vtx <- ForkVtx
    Claim <- ForkClaim
    InitialSubsidy = 2
    HalvingInterval = 8
    CoinbaseMaturity = 2
    Checkpoints = {"g"}
SPECIFICATION FairSpec
INVARIANTS
    IndexReplaysChain
    MainChainLinked
    BestBranchStored
PROPERTIES
    BranchAdopted
    RestartRestores
    ImplementsLedger
