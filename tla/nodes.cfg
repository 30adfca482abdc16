CONSTANTS
    Node = {n1, n2}
    NoNode = NoNode
    Ip = {a}
    NoIp = NoIp
    Group <- OneGroup
    Seeds = {a}
    MaxInbound = 1
    MaxOutbound = 1
    MaxNodes = 2
    FewNodes = 1
    Dialog = TRUE
    Hangs = TRUE
SPECIFICATION Spec
INVARIANTS
    NoneDeletedInUse
    InboundBounded
    OpenedOnce
    PeerRefsReleased
SYMMETRY Symmetry
