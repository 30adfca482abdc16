CONSTANTS
    Block <- ClaimBlock
    NoBlock = "none"
    Genesis = "g"
    Prev <- ClaimPrev
    Height <- ClaimHeight
    Anc <- ClaimAnc
    WellTimed <- ClaimBlock
    LockHeight <- ClaimLockHeight
    Tx <- ClaimTx
    CoinBase <- ClaimCoinBase
    Sound <- ClaimTx
    Index = {1}
    Vout <- ClaimVout
    Vin <- ClaimVinAll
    Vtx <- ClaimVtx
    Claim <- ClaimNormal
    InitialSubsidy = 2
    HalvingInterval = 8
    CoinbaseMaturity = 2
    Checkpoints = {"g", "a1"}
SPECIFICATION Spec
INVARIANT CheckpointLockin
