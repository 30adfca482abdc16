SPECIFICATION Spec
CONSTANTS
    Txs <- MCTxs
    Coinbases = {"base"}
    In <- MCIn
    Out <- MCOut
    Foreign = "foreign"
    FirstKeys = {"h1"}
    NewKeys = {"h2"}
    Strings <- MCStrings
    AddressOf <- MCAddressOf
    Invalid = "invalid"
    Labels = {"", "x"}
    CoinbaseMaturity = 1
    Buffer = 1
    MaxBlocks = 3
    ListTxs <- MCListTxs
    AnswerTxs <- MCAnswerTxs
    MaxBook = 2
    Pages = {"all", "sent"}
INVARIANTS
    ListInv
    AmountsAgree
    CancelledNotPaid
    DestroyedOnce
CHECK_DEADLOCK FALSE
