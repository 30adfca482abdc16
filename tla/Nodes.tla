-------------------------------- MODULE Nodes --------------------------------
(***************************************************************************)
(* The connections of a node: how CNode objects are made, listed in vNodes,*)
(* disconnected and deleted by the socket thread, the thread that opens    *)
(* connections, the message thread and a payment dialog.                   *)
(***************************************************************************)
EXTENDS Integers, FiniteSets

CONSTANTS
    Node,         \* places for CNode objects
    NoNode,       \* the null pointer
    Ip,           \* addresses
    NoIp,
    Group,        \* Group[a]: the network group of address a
    Seeds,        \* what is tried first: anchors, -addnode, pnSeed
    MaxInbound,   \* MAX_INBOUND_PER_GROUP
    MaxOutbound,  \* MAX_OUTBOUND_PER_GROUP
    MaxNodes,     \* nMaxConnections
    FewNodes,     \* with fewer connections than these the seeds are tried
    Dialog,       \* whether a payment to an address is being made
    Hangs         \* whether the socket thread may hang, once

ASSUME NodeAssumption ==
    /\ NoNode \notin Node /\ IsFiniteSet(Node)
    /\ NoIp \notin Ip
    /\ Seeds \subseteq Ip
    /\ {MaxInbound, MaxOutbound, MaxNodes, FewNodes} \subseteq Nat
    /\ {Dialog, Hangs} \subseteq BOOLEAN

VARIABLES
    where,        \* "free", "listed" in vNodes, "held" in vNodesDisconnected, or "lost"
                  \*   with the list of a socket thread that was cancelled
    addr,         \* the address of a node
    fInbound, fNetworkNode, fDisconnect,
    nRefCount,
    timed,        \* GetTime() < nReleaseTime
    sPc, sCopy,      \* the socket thread, its vNodesCopy and what is left of it
    mPc, mCopy,      \* the message thread
    oPc, oNode, oIp, oTodo, oBack, \* ThreadOpenConnections: its pnode, the address it connects
                            \*   to, the seeds still to be tried, and where it goes on
    dPc, dNode, dIp,        \* the dialog, in ConnectNode and after
    restarted     \* the socket thread was cancelled and another started

flags == <<addr, fInbound, fNetworkNode>>
nodes == <<where, flags, fDisconnect, nRefCount, timed>>
socket == <<sPc, sCopy>>
message == <<mPc, mCopy>>
opener == <<oPc, oNode, oIp, oTodo, oBack>>
dialog == <<dPc, dNode, dIp>>
nodesVars == <<nodes, socket, message, opener, dialog, restarted>>

NodesTypeOK ==
    /\ where \in [Node -> {"free", "listed", "held", "lost"}]
    /\ addr \in [Node -> Ip \cup {NoIp}]
    /\ fInbound \in [Node -> BOOLEAN]
    /\ fNetworkNode \in [Node -> BOOLEAN]
    /\ fDisconnect \in [Node -> BOOLEAN]
    /\ nRefCount \in [Node -> Nat]
    /\ timed \in [Node -> BOOLEAN]
    /\ sPc \in {"prune", "select", "copy", "service", "hung"}
    /\ sCopy \in SUBSET Node
    /\ mPc \in {"copy", "work"}
    /\ mCopy \in SUBSET Node
    /\ oPc \in {"seeds", "pick", "sleep", "find", "reuse", "connect", "mark"}
    /\ oNode \in Node \cup {NoNode} /\ oIp \in Ip \cup {NoIp} /\ oTodo \in SUBSET Seeds
    /\ oBack \in {"seeds", "sleep"}
    /\ dPc \in {"find", "reuse", "connect", "push"}
    /\ dNode \in Node \cup {NoNode} /\ dIp \in Ip
    /\ restarted \in BOOLEAN

Init ==
    /\ where = [n \in Node |-> "free"]
    /\ addr = [n \in Node |-> NoIp]
    /\ fInbound = [n \in Node |-> FALSE]
    /\ fNetworkNode = [n \in Node |-> FALSE]
    /\ fDisconnect = [n \in Node |-> FALSE]
    /\ nRefCount = [n \in Node |-> 0]
    /\ timed = [n \in Node |-> FALSE]
    /\ sPc = "prune" /\ sCopy = {}
    /\ mPc = "copy" /\ mCopy = {}
    /\ oPc = "seeds" /\ oNode = NoNode /\ oIp = NoIp /\ oTodo = Seeds /\ oBack = "seeds"
    /\ dPc = "find" /\ dNode = NoNode /\ dIp \in Ip
    /\ restarted = FALSE

-----------------------------------------------------------------------------
Listed == {n \in Node : where[n] = "listed"}

\* GetRefCount() <= 0
Unreferenced(n) == nRefCount[n] <= 0 /\ ~timed[n]

\* FindNode: the first of vNodes with address a.
Found(a) == {n \in Listed : addr[n] = a}

\* Mutant of Unconnected: nobody looks for a connection to the address.
UnconnectedAny(a) == TRUE
\* FindNode(a) returns the null pointer.
Unconnected(a) == Found(a) = {}

\* GetInboundGroupCount, and an entry of GetNetworkGroupCounts.
InboundCount(g) == Cardinality({n \in Listed : fInbound[n] /\ Group[addr[n]] = g})
OutboundCount(g) == Cardinality({n \in Listed : ~fInbound[n] /\ Group[addr[n]] = g})

\* new CNode, its first reference, counted or timed, and its entry in vNodes: before
\* that nobody else can see it.
Made(n, a, in, time) ==
    /\ where[n] = "free"
    /\ where' = [where EXCEPT ![n] = "listed"]
    /\ addr' = [addr EXCEPT ![n] = a]
    /\ fInbound' = [fInbound EXCEPT ![n] = in]
    /\ timed' = [timed EXCEPT ![n] = time]
    /\ nRefCount' = [nRefCount EXCEPT ![n] = IF time THEN 0 ELSE 1]
    /\ UNCHANGED <<fNetworkNode, fDisconnect>>

\* AddRef and Release of the nodes of a set.
Counted(S, d) == nRefCount' = [n \in Node |-> IF n \in S THEN nRefCount[n] + d ELSE nRefCount[n]]

\* Nodes a thread has a pointer to that it holds no reference for.
Raw == {oNode, dNode} \ {NoNode}

-----------------------------------------------------------------------------
(* ThreadSocketHandler2                                                    *)

\* Mutant of Kept: a disconnected node is held by its count only.
KeptByCount(gone) == {n \in Node : timed[n]}
\* The nodes with a release time to come, when gone are disconnected: these are held
\* for 15 minutes at least.
Kept(gone) == {n \in Node : timed[n]} \cup gone

\* Mutant of Connected: nodes that connected to this one keep a reference for ever.
ConnectedOut(gone) == {n \in gone : fNetworkNode[n]}
\* Mutant of Connected: every node that is disconnected loses a reference.
ConnectedAll(gone) == gone
\* The nodes whose reference as a connection is released when they are disconnected.
Connected(gone) == {n \in gone : fNetworkNode[n] \/ fInbound[n]}

\* The blocks under cs_vNodes: nodes that are to be disconnected, and nodes without
\* references or data, leave vNodes and are held; of those held, the unreferenced
\* ones that nobody has locked are deleted.  Which nodes have no data, and which of
\* those that threads point to are locked, is left open.
SocketPrune ==
    /\ sPc = "prune"
    /\ \E empty \in SUBSET {n \in Listed : Unreferenced(n)}, locked \in SUBSET Raw :
         LET gone == {n \in Listed : fDisconnect[n]} \cup empty
             dead == {n \in Node : where[n] = "held" /\ Unreferenced(n)} \ locked
         IN  /\ where' = [n \in Node |-> CASE n \in gone -> "held"
                                           [] n \in dead -> "free"
                                           [] OTHER      -> where[n]]
             /\ addr' = [n \in Node |-> IF n \in dead THEN NoIp ELSE addr[n]]
             /\ fInbound' = [n \in Node |-> fInbound[n] /\ n \notin dead]
             /\ fNetworkNode' = [n \in Node |-> fNetworkNode[n] /\ n \notin dead]
             /\ fDisconnect' = [n \in Node |-> n \in gone \/ (fDisconnect[n] /\ n \notin dead)]
             /\ timed' = [n \in Node |-> n \in Kept(gone)]
             /\ nRefCount' = [n \in Node |-> CASE n \in dead -> 0
                                               [] n \in Connected(gone) -> nRefCount[n] - 1
                                               [] OTHER -> nRefCount[n]]
    /\ sPc' = "select"
    /\ UNCHANGED <<sCopy, message, opener, dialog, restarted>>

\* select returns, with nobody at the listening socket or somebody there is no room for.
SocketSelect ==
    /\ sPc = "select"
    /\ sPc' = "copy"
    /\ UNCHANGED <<nodes, sCopy, message, opener, dialog, restarted>>

\* Mutant of RoomFor: the limit is passed by one.
RoomForMore(a) == InboundCount(Group[a]) <= MaxInbound
RoomFor(a) == InboundCount(Group[a]) < MaxInbound

\* A peer of address a connects.
SocketAccept(n, a) ==
    /\ sPc = "select"
    /\ RoomFor(a)
    /\ Made(n, a, TRUE, FALSE)
    /\ sPc' = "copy"
    /\ UNCHANGED <<sCopy, message, opener, dialog, restarted>>

SocketCopy ==
    /\ sPc = "copy"
    /\ sCopy' = Listed
    /\ Counted(Listed, 1)
    /\ sPc' = "service"
    /\ UNCHANGED <<where, flags, fDisconnect, timed, message, opener, dialog, restarted>>

\* The nodes of the copy are serviced: of some the peer has closed, an error came back, or
\* nothing was sent or heard for too long, and they will be disconnected.  Nobody else
\* acts on that, so the services and the release of the references are one step.
SocketService ==
    /\ sPc = "service"
    /\ \E closed \in SUBSET sCopy : fDisconnect' = [n \in Node |-> fDisconnect[n] \/ n \in closed]
    /\ Counted(sCopy, -1)
    /\ sCopy' = {}
    /\ sPc' = "prune"
    /\ UNCHANGED <<where, flags, timed, message, opener, dialog,
                   restarted>>

\* recv or send does not return.
SocketHang ==
    /\ Hangs /\ ~restarted
    /\ sPc = "service" /\ sCopy # {}
    /\ sPc' = "hung"
    /\ UNCHANGED <<nodes, sCopy, message, opener, dialog, restarted>>

\* The heartbeat is old, and the loop of StartNode cancels the thread and starts
\* another.  The copy and the list of disconnected nodes were local to the thread.
SocketRestart ==
    /\ sPc = "hung"
    /\ sPc' = "prune" /\ sCopy' = {}
    /\ where' = [n \in Node |-> IF where[n] = "held" THEN "lost" ELSE where[n]]
    /\ restarted' = TRUE
    /\ UNCHANGED <<flags, fDisconnect, nRefCount, timed, message, opener, dialog>>

-----------------------------------------------------------------------------
(* ThreadMessageHandler2                                                   *)

\* Mutant of Borrowed: the copy of vNodes takes no references.
BorrowedBare == {}
Borrowed == Listed

MessageCopy ==
    /\ mPc = "copy"
    /\ mCopy' = Listed
    /\ Counted(Borrowed, 1)
    /\ mPc' = "work"
    /\ UNCHANGED <<where, flags, fDisconnect, timed, socket, opener, dialog, restarted>>

\* ProcessMessages and SendMessages of the nodes of the copy; a node that turns out to be
\* this one will be disconnected.
MessageWork(n) ==
    /\ mPc = "work"
    /\ n \in mCopy
    /\ fDisconnect' = [fDisconnect EXCEPT ![n] = TRUE]
    /\ UNCHANGED <<where, flags, nRefCount, timed, mPc, mCopy, socket, opener, dialog,
                   restarted>>

MessageRelease ==
    /\ mPc = "work"
    /\ Counted(mCopy, -1)
    /\ mCopy' = {}
    /\ mPc' = "copy"
    /\ UNCHANGED <<where, flags, fDisconnect, timed, socket, opener, dialog, restarted>>

-----------------------------------------------------------------------------
(* ThreadOpenConnections2                                                  *)

\* OpenNetworkConnection(a), which returns to back: nothing if the address is connected,
\* else ConnectNode.
OpenNetworkConnection(a, back) ==
    /\ oBack' = back
    /\ IF Unconnected(a) THEN oPc' = "find" /\ oIp' = a
                         ELSE oPc' = back /\ UNCHANGED oIp

\* The next seed.
OpenSeed(a) ==
    /\ oPc = "seeds"
    /\ a \in oTodo /\ oTodo' = oTodo \ {a}
    /\ OpenNetworkConnection(a, "seeds")
    /\ UNCHANGED <<nodes, socket, message, oNode, dialog, restarted>>

\* All seeds are tried; when there are connections enough one seed may have to go.
OpenFree ==
    /\ oPc = "seeds" /\ oTodo = {}
    /\ oPc' = "pick"
    /\ \/ UNCHANGED fDisconnect
       \/ /\ Cardinality(Listed) >= MaxNodes - 1
          /\ \E n \in Listed : /\ addr[n] \in Seeds
                               /\ fDisconnect' = [fDisconnect EXCEPT ![n] = TRUE]
    /\ UNCHANGED <<where, flags, nRefCount, timed, socket, message, oNode, oIp, oTodo, oBack, dialog,
                   restarted>>

\* An address that is not connected, of a group that has room for another.
MayPick(a) == Unconnected(a) /\ OutboundCount(Group[a]) < MaxOutbound

\* The best address of mapAddresses is connected to, or there is none, and the thread
\* sleeps.  Which one is best, and when it was tried last, is left open.
OpenPick ==
    /\ oPc = "pick"
    /\ \/ \E a \in Ip : MayPick(a) /\ OpenNetworkConnection(a, "sleep")
       \/ oPc' = "sleep" /\ UNCHANGED <<oIp, oBack>>
    /\ UNCHANGED <<nodes, socket, message, oNode, oTodo, dialog, restarted>>

\* After the sleep, when there is room for a connection.  With very few connections, or
\* none but to seeds and to peers that do not answer, the seeds are tried.
OpenWake ==
    /\ oPc = "sleep"
    /\ Cardinality(Listed) < MaxNodes
    /\ oPc' = "seeds"
    /\ oTodo' \in {{}, Seeds}
    /\ Cardinality(Listed) < FewNodes => oTodo' = Seeds
    /\ UNCHANGED <<nodes, socket, message, oNode, oIp, oBack, dialog, restarted>>

\* ConnectNode looks for the address again.
OpenFind ==
    /\ oPc = "find"
    /\ IF Unconnected(oIp) THEN oPc' = "connect" /\ UNCHANGED oNode
                          ELSE oPc' = "reuse" /\ oNode' \in Found(oIp)
    /\ UNCHANGED <<nodes, socket, message, oIp, oTodo, oBack, dialog, restarted>>

\* AddRef of the node found, when cs_vNodes is no longer held.
OpenReuse ==
    /\ oPc = "reuse"
    /\ Counted({oNode}, 1)
    /\ oPc' = "mark"
    /\ UNCHANGED <<where, flags, fDisconnect, timed, socket, message, oNode, oIp, oTodo, oBack, dialog,
                   restarted>>

\* ConnectSocket succeeds.
OpenConnect(n) ==
    /\ oPc = "connect"
    /\ Made(n, oIp, FALSE, FALSE)
    /\ oNode' = n
    /\ oPc' = "mark"
    /\ UNCHANGED <<socket, message, oIp, oTodo, oBack, dialog, restarted>>

\* ConnectSocket fails.
OpenFail ==
    /\ oPc = "connect"
    /\ oPc' = oBack /\ oIp' = NoIp
    /\ UNCHANGED <<nodes, socket, message, oNode, oTodo, oBack, dialog, restarted>>

\* The node is marked as a connection of this node's, and the first messages are pushed.
OpenMark ==
    /\ oPc = "mark"
    /\ fNetworkNode' = [fNetworkNode EXCEPT ![oNode] = TRUE]
    /\ oPc' = oBack /\ oNode' = NoNode /\ oIp' = NoIp
    /\ UNCHANGED <<where, addr, fInbound, fDisconnect, nRefCount, timed, socket, message, oTodo, oBack,
                   dialog, restarted>>

-----------------------------------------------------------------------------
(* CSendingDialog: ConnectNode with a timeout, then a request is pushed.   *)

DialogFind ==
    /\ Dialog /\ dPc = "find"
    /\ IF Unconnected(dIp) THEN dPc' = "connect" /\ UNCHANGED dNode
       ELSE dPc' = "reuse" /\ dNode' \in Found(dIp)
    /\ UNCHANGED <<nodes, socket, message, opener, dIp, restarted>>

\* AddRef with a timeout.
DialogReuse ==
    /\ dPc = "reuse" /\ dPc' = "push"
    /\ timed' = [timed EXCEPT ![dNode] = TRUE]
    /\ UNCHANGED <<where, flags, fDisconnect, nRefCount, socket, message, opener, dNode, dIp,
                   restarted>>

DialogConnect(n) ==
    /\ dPc = "connect" /\ dPc' = "push"
    /\ Made(n, dIp, FALSE, TRUE)
    /\ dNode' = n
    /\ UNCHANGED <<socket, message, opener, dIp, restarted>>

\* The request is pushed, or the dialog gave up.
DialogDone ==
    /\ dPc \in {"connect", "push"}
    /\ dPc' = "find" /\ dNode' = NoNode
    /\ UNCHANGED <<nodes, socket, message, opener, dIp, restarted>>

-----------------------------------------------------------------------------
\* The release time of a node passes.  A thread uses the pointer ConnectNode gave it
\* within that time, which is 15 minutes or more.
Expire(n) ==
    /\ timed[n] /\ n \notin Raw
    /\ timed' = [timed EXCEPT ![n] = FALSE]
    /\ UNCHANGED <<where, flags, fDisconnect, nRefCount, socket, message, opener, dialog,
                   restarted>>

Socket ==
    \/ SocketPrune \/ SocketSelect \/ SocketCopy \/ SocketService
    \/ \E n \in Node, a \in Ip : SocketAccept(n, a)
Message == MessageCopy \/ MessageRelease \/ \E n \in Node : MessageWork(n)
Open ==
    \/ OpenFree \/ OpenPick \/ OpenWake \/ OpenFind \/ OpenReuse \/ OpenFail \/ OpenMark
    \/ \E a \in Seeds : OpenSeed(a)
    \/ \E n \in Node : OpenConnect(n)
Payment == DialogFind \/ DialogReuse \/ DialogDone \/ \E n \in Node : DialogConnect(n)

Next ==
    \/ Socket \/ SocketHang \/ SocketRestart
    \/ Message \/ Open \/ Payment
    \/ \E n \in Node : Expire(n)

Spec == Init /\ [][Next]_nodesVars

-----------------------------------------------------------------------------
\* "wait until threads are done using it": no thread has a pointer to a node that was
\* deleted, whether it holds a reference or relies on the release time.
NoneDeletedInUse ==
    \A n \in sCopy \cup mCopy \cup Raw : where[n] # "free"

\* A peer's network group has no more than its share of the connections made to this
\* node, at any time.
InboundBounded == \A a \in Ip : InboundCount(Group[a]) <= MaxInbound

\* The thread that opens connections has no two to one address, though a peer may connect from
\* that address, and a payment to it, which may make one of its own, at the same time.
OpenedOnce ==
    \A m, n \in Listed : m # n /\ fNetworkNode[m] /\ fNetworkNode[n] => addr[m] # addr[n]

\* A connection that a peer opened does not stay in memory when it is closed: once no
\* thread uses it its references are released, unless the opening thread took it over
\* or the socket thread was restarted.
PeerRefsReleased ==
    \A n \in Node : /\ where[n] = "held" /\ ~fNetworkNode[n] /\ fInbound[n] /\ ~restarted
                    /\ n \notin sCopy \cup mCopy \cup Raw
                    => nRefCount[n] <= 0
=============================================================================
