SPECIFICATION Spec
CONSTANTS
    Threads = {t1, t2}
    Arguments <- MCArguments
    MaxData = 1
    TooLarge = 4
    MaxPushed = 2
    MaxDamaged = 1
    MaxWire = 3
INVARIANTS
    MessagesInv
PROPERTIES
    AllDelivered
CHECK_DEADLOCK FALSE
