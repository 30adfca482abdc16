CONSTANTS
    TargetTimespan = 16
    TargetSpacing = 5
    MedianTimeSpan = 3
    MaxAhead = 2
    MaxFuture = 1
    ActivationHeight = 4
    ProofOfWorkLimit = 62
    Mantissa = 32
    Units = {1, 2, 4}
    UInt = 4096
    MaxTime = 17
    MaxHeight = 6
SPECIFICATION DifficultySpec
PROPERTIES
    MedianAdvances
    FastNeverEasier
CHECK_DEADLOCK FALSE
