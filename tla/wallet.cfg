CONSTANTS
    Coin = {"c1", "c2"}
    Copy = {"k"}
    Own = {"o1", "o2"}
    Spends <- TwoSpends
    Value <- TwoValues
    Amount = {2}
    Cent = 2
    MaxChain = 2
SPECIFICATION Spec
INVARIANTS
    WalletInv
    ChainSpentKnown
    RelayedRecoverable
PROPERTIES
    StartRestores
CHECK_DEADLOCK FALSE
