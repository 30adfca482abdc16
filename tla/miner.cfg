CONSTANTS
    Tx = {"a", "b"}
    Needs <- TwoInARow
    Thread = {m1}
    Limits = {0, 1}
    MaxCalls = 1
    MaxHeight = 2
    Halving = 1
    MaxWork = 1
SPECIFICATION Spec
INVARIANTS
    MinerInv
    MinedAccepted
CONSTRAINT
    Finishing
