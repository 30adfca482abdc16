CONSTANTS
    p1 = p1
    p2 = p2
    Peer = {p1, p2}
    Top = 7
    First <- AheadBy
    Branch = 2
    Batch = 2
    MaxDrops = 1
    Later = 1
    MaxWait = 4
    Node = {"a", "b", "c", "d", "s"}
    Public = {"a", "s"}
    MayLeave = {"a"}
    MayRestart = {"c"}
    Configured <- ToOpen
    ConnectOnly = {"d"}
    Seeds = {"s"}
    Irc = {"a", "b", "c"}
    Situations <- AllSituations
    InDNS = {"a"}
    Few = 1
    RelayNodes = 3
    FewPeers = 1
    MaxConnections = 3
    MaxRestarts = 1
SPECIFICATION RelaySpec
INVARIANTS
    RelayTypeOK
PROPERTIES
    CatchesUp
    Announced
    DeadForgotten
CHECK_DEADLOCK FALSE
