CONSTANTS
    File = {"wallet.dat", "blkindex.dat"}
    Wallet = "wallet.dat"
    Thread = {"message", "irc"}
    Counted = {"message"}
    MaxWrites = 2
    MaxOpen = 2
SPECIFICATION Spec
INVARIANTS
    DatabasesInv
PROPERTIES
    OrderlyExit
    RecoveryKeeps
