----------------------------- MODULE NodesProofs -----------------------------
(***************************************************************************)
(* For any number of nodes, addresses and limits: no thread is left with a *)
(* pointer to a node that was deleted, the limit of a network group is     *)
(* kept, no address is opened twice, and references are released.          *)
(***************************************************************************)
EXTENDS Nodes, FiniteSetTheorems, TLAPS

One(b) == IF b THEN 1 ELSE 0

\* The references to n that a thread, or vNodes for a connection, will release.
Owed(n) ==
    One(n \in sCopy) + One(n \in mCopy)
      + One(/\ where[n] = "listed"
            /\ fInbound[n] \/ fNetworkNode[n] \/ (oPc = "mark" /\ oNode = n))

\* The count covers what is owed.
Covered == \A n \in Node : nRefCount[n] >= Owed(n)

\* A place that is free is unknown to the threads and marked by nothing.
FreeUnknown ==
    \A n \in Node : where[n] = "free" =>
        n \notin sCopy \cup mCopy \cup Raw /\ ~fInbound[n] /\ ~fNetworkNode[n]

\* A pointer without a reference is to a node that is listed, or held for a time.
RawTimed == \A n \in Raw : where[n] = "held" => timed[n]

\* A thread has a copy, or a node, only where it works with it.
Places ==
    /\ sPc \notin {"service", "hung"} => sCopy = {}
    /\ mPc # "work" => mCopy = {}
    /\ oPc \in {"reuse", "mark"} => oNode # NoNode
    /\ dPc \in {"reuse", "push"} => dNode # NoNode

RefInv == NodesTypeOK /\ Covered /\ FreeUnknown /\ RawTimed /\ Places

-----------------------------------------------------------------------------
LEMMA InitRef == Init => RefInv
<1> SUFFICES ASSUME Init PROVE RefInv
  OBVIOUS
<1>1. NodesTypeOK
  BY NodeAssumption DEF Init, NodesTypeOK
<1>2. Covered
  BY NodeAssumption DEF Init, Covered, Owed, One
<1>3. FreeUnknown /\ RawTimed /\ Places
  BY NodeAssumption DEF Init, FreeUnknown, RawTimed, Raw, Places
<1> QED
  BY <1>1, <1>2, <1>3 DEF RefInv

LEMMA RefNone == RefInv => NoneDeletedInUse
  BY NodeAssumption DEF RefInv, NodesTypeOK, NoneDeletedInUse, FreeUnknown, Raw

\* AddRef and Release of the nodes of a set keep a count, if what is released is there.
LEMMA CountedNat ==
    ASSUME NEW S \in SUBSET Node, NEW d \in {1, -1}, NodesTypeOK, Counted(S, d),
           d = -1 => \A n \in S : nRefCount[n] >= 1
    PROVE  /\ nRefCount' \in [Node -> Nat]
           /\ \A n \in Node : nRefCount'[n] = nRefCount[n] + (IF n \in S THEN d ELSE 0)
  BY DEF NodesTypeOK, Counted

LEMMA SocketPruneStep == RefInv /\ SocketPrune => RefInv'
<1> SUFFICES ASSUME RefInv, SocketPrune PROVE RefInv'
  OBVIOUS
<1> USE DEF RefInv
<1>0. sCopy = {}
  BY DEF SocketPrune, Places
<1>1. PICK empty \in SUBSET {n \in Listed : Unreferenced(n)}, locked \in SUBSET Raw :
         LET gone == {n \in Listed : fDisconnect[n]} \cup empty
             dead == {n \in Node : where[n] = "held" /\ Unreferenced(n)} \ locked
         IN  /\ where' = [n \in Node |-> CASE n \in gone -> "held"
                                           [] n \in dead -> "free"
                                           [] OTHER      -> where[n]]
             /\ addr' = [n \in Node |-> IF n \in dead THEN NoIp ELSE addr[n]]
             /\ fInbound' = [n \in Node |-> fInbound[n] /\ n \notin dead]
             /\ fNetworkNode' = [n \in Node |-> fNetworkNode[n] /\ n \notin dead]
             /\ fDisconnect' = [n \in Node |-> n \in gone \/ (fDisconnect[n] /\ n \notin dead)]
             /\ timed' = [n \in Node |-> n \in Kept(gone)]
             /\ nRefCount' = [n \in Node |-> CASE n \in dead -> 0
                                               [] n \in Connected(gone) -> nRefCount[n] - 1
                                               [] OTHER -> nRefCount[n]]
  BY DEF SocketPrune
<1> DEFINE gone == {n \in Listed : fDisconnect[n]} \cup empty
           dead == {n \in Node : where[n] = "held" /\ Unreferenced(n)} \ locked
<1>2. /\ gone \in SUBSET Node /\ dead \in SUBSET Node
      /\ \A n \in gone : where[n] = "listed"
      /\ \A n \in dead : where[n] = "held" /\ nRefCount[n] <= 0 /\ ~timed[n]
  BY DEF Listed, Unreferenced
<1>a. /\ Kept(gone) = {n \in Node : timed[n]} \cup gone
      /\ Connected(gone) = {n \in gone : fNetworkNode[n] \/ fInbound[n]}
  BY DEF Kept, Connected
<1>3. /\ where' = [n \in Node |-> CASE n \in gone -> "held"
                                    [] n \in dead -> "free"
                                    [] OTHER      -> where[n]]
      /\ addr' = [n \in Node |-> IF n \in dead THEN NoIp ELSE addr[n]]
      /\ fInbound' = [n \in Node |-> fInbound[n] /\ n \notin dead]
      /\ fNetworkNode' = [n \in Node |-> fNetworkNode[n] /\ n \notin dead]
      /\ fDisconnect' = [n \in Node |-> n \in gone \/ (fDisconnect[n] /\ n \notin dead)]
      /\ timed' = [n \in Node |-> timed[n] \/ n \in gone]
      /\ nRefCount' = [n \in Node |->
            CASE n \in dead -> 0
              [] n \in gone /\ (fNetworkNode[n] \/ fInbound[n]) -> nRefCount[n] - 1
              [] OTHER -> nRefCount[n]]
  BY <1>a, <1>1, <1>2 DEF NodesTypeOK
<1>4. UNCHANGED <<sCopy, mPc, mCopy, oPc, oNode, oIp, oTodo, oBack, dPc, dNode, dIp, restarted>>
      /\ sPc' = "select"
  BY DEF SocketPrune, message, opener, dialog
<1> HIDE DEF gone, dead
<1>5. \A n \in gone : fNetworkNode[n] \/ fInbound[n] => nRefCount[n] >= 1
  BY <1>2 DEF Covered, Owed, One, NodesTypeOK
<1>6. NodesTypeOK'
  BY <1>2, <1>3, <1>4, <1>5 DEF NodesTypeOK
<1>7. \A n \in dead : n \notin mCopy
  BY <1>2 DEF Covered, Owed, One, NodesTypeOK
<1>8. \A n \in dead : n \notin Raw
  BY <1>2 DEF RawTimed
<1>9. Covered'
  <2> SUFFICES ASSUME NEW n \in Node PROVE (nRefCount[n] >= Owed(n))'
    BY DEF Covered
  <2>0. nRefCount[n] >= Owed(n) /\ nRefCount[n] \in Nat
    BY DEF Covered, NodesTypeOK
  <2>1. CASE n \in dead
    <3>1. where'[n] = "free" /\ nRefCount'[n] = 0
      BY <1>2, <1>3, <2>1
    <3> QED
      BY <1>0, <1>4, <1>7, <2>1, <3>1 DEF Owed, One
  <2>2. CASE n \in gone
    <3>1. where[n] = "listed" /\ where'[n] = "held" /\ n \notin dead
      BY <1>2, <1>3, <2>2
    <3>2. nRefCount'[n] = IF fNetworkNode[n] \/ fInbound[n] THEN nRefCount[n] - 1 ELSE nRefCount[n]
      BY <1>3, <2>2, <3>1
    <3> QED
      BY <1>0, <1>4, <2>0, <3>1, <3>2 DEF Owed, One
  <2>3. CASE n \notin dead /\ n \notin gone
    BY <1>0, <1>3, <1>4, <2>0, <2>3 DEF Owed, One
  <2> QED
    BY <2>1, <2>2, <2>3
<1>10. FreeUnknown'
  BY <1>0, <1>2, <1>3, <1>4, <1>7, <1>8 DEF FreeUnknown, NodesTypeOK, Raw
<1>11. RawTimed'
  BY <1>2, <1>3, <1>4 DEF RawTimed, NodesTypeOK, Raw
<1>12. Places'
  BY <1>0, <1>4 DEF Places
<1> QED
  BY <1>6, <1>9, <1>10, <1>11, <1>12

\* A new node starts with its one reference.
LEMMA MadeStep ==
    ASSUME RefInv, NEW n \in Node, NEW a \in Ip \cup {NoIp}, NEW in \in BOOLEAN, NEW time \in BOOLEAN,
           Made(n, a, in, time), UNCHANGED <<sCopy, mCopy>>,
           \/ ~time /\ (oNode' = oNode \/ oNode' = n) /\ dNode' = dNode
           \/ time /\ in = FALSE /\ UNCHANGED <<oPc, oNode>> /\ dNode' = n,
           oNode' = oNode => oPc' = oPc
    PROVE  /\ where' \in [Node -> {"free", "listed", "held", "lost"}]
           /\ addr' \in [Node -> Ip \cup {NoIp}]
           /\ fInbound' \in [Node -> BOOLEAN] /\ fNetworkNode' \in [Node -> BOOLEAN]
           /\ fDisconnect' \in [Node -> BOOLEAN] /\ timed' \in [Node -> BOOLEAN]
           /\ nRefCount' \in [Node -> Nat]
           /\ Covered' /\ FreeUnknown' /\ RawTimed'
<1> USE DEF RefInv, Made
<1>1. n \notin sCopy \cup mCopy \cup Raw /\ ~fInbound[n] /\ ~fNetworkNode[n] /\ where[n] = "free"
  BY DEF FreeUnknown
<1>2. Covered'
  <2> SUFFICES ASSUME NEW m \in Node PROVE (nRefCount[m] >= Owed(m))'
    BY DEF Covered
  <2>0. nRefCount[m] >= Owed(m) /\ nRefCount[m] \in Nat
    BY DEF Covered, NodesTypeOK
  <2>1. CASE m = n
    <3>1. nRefCount'[m] = IF time THEN 0 ELSE 1
      BY <2>1 DEF NodesTypeOK
    <3>2. m \notin sCopy' /\ m \notin mCopy' /\ ~fNetworkNode'[m]
      BY <1>1, <2>1 DEF NodesTypeOK
    <3>3. time => ~fInbound'[m] /\ oNode' # m
      BY <1>1, <2>1, NodeAssumption DEF NodesTypeOK, Raw
    <3>4. fInbound'[m] \in BOOLEAN
      BY DEF NodesTypeOK
    <3> QED
      BY <3>1, <3>2, <3>3, <3>4 DEF Owed, One
  <2>2. CASE m # n
    <3>1. /\ nRefCount'[m] = nRefCount[m] /\ where'[m] = where[m]
          /\ fInbound'[m] = fInbound[m] /\ fNetworkNode'[m] = fNetworkNode[m]
      BY <2>2 DEF NodesTypeOK
    <3>2. (oPc' = "mark" /\ oNode' = m) => (oPc = "mark" /\ oNode = m)
      BY <2>2
    <3> QED
      BY <2>0, <3>1, <3>2 DEF Owed, One
  <2> QED
    BY <2>1, <2>2
<1>3. FreeUnknown'
  BY <1>1 DEF FreeUnknown, Raw, NodesTypeOK
<1>4. RawTimed'
  BY <1>1 DEF RawTimed, Raw, NodesTypeOK
<1> QED
  BY <1>2, <1>3, <1>4 DEF NodesTypeOK

LEMMA SocketAcceptStep ==
    ASSUME RefInv, NEW n \in Node, NEW a \in Ip, SocketAccept(n, a)
    PROVE  RefInv'
<1>1. /\ Made(n, a, TRUE, FALSE) /\ sPc = "select" /\ sPc' = "copy"
      /\ UNCHANGED <<sCopy, mPc, mCopy, oPc, oNode, oIp, oTodo, oBack, dPc, dNode, dIp, restarted>>
  BY DEF SocketAccept, message, opener, dialog
<1>2. /\ where' \in [Node -> {"free", "listed", "held", "lost"}]
      /\ addr' \in [Node -> Ip \cup {NoIp}]
      /\ fInbound' \in [Node -> BOOLEAN] /\ fNetworkNode' \in [Node -> BOOLEAN]
      /\ fDisconnect' \in [Node -> BOOLEAN] /\ timed' \in [Node -> BOOLEAN]
      /\ nRefCount' \in [Node -> Nat]
      /\ Covered' /\ FreeUnknown' /\ RawTimed'
  BY <1>1, MadeStep
<1> QED
  BY <1>1, <1>2 DEF RefInv, NodesTypeOK, Places

\* The actions that touch the references: copies and their release.
LEMMA CountStep ==
    ASSUME RefInv, SocketCopy \/ SocketService \/ MessageCopy \/ MessageRelease
    PROVE  RefInv'
<1> USE DEF RefInv
<1>1. CASE SocketCopy
  <2>1. /\ sPc = "copy" /\ sPc' = "service" /\ sCopy = {} /\ sCopy' = Listed /\ Counted(Listed, 1)
        /\ UNCHANGED <<where, addr, fInbound, fNetworkNode, fDisconnect, timed, mPc, mCopy, oPc, oNode,
                       oIp, oTodo, oBack, dPc, dNode, dIp, restarted>>
    BY <1>1 DEF SocketCopy, flags, message, opener, dialog, Places
  <2>2. Listed \in SUBSET Node
    BY DEF Listed
  <2>3. /\ nRefCount' \in [Node -> Nat]
        /\ \A n \in Node : nRefCount'[n] = nRefCount[n] + (IF n \in Listed THEN 1 ELSE 0)
    BY <2>1, <2>2, CountedNat
  <2>4. NodesTypeOK'
    BY <2>1, <2>2, <2>3 DEF NodesTypeOK
  <2>5. Covered'
    BY <2>1, <2>3 DEF Covered, Owed, One, NodesTypeOK
  <2>6. FreeUnknown' /\ RawTimed' /\ Places'
    BY <2>1 DEF FreeUnknown, RawTimed, Places, Raw, Listed
  <2> QED
    BY <2>4, <2>5, <2>6
<1>2. CASE SocketService
  <2>1. /\ sPc = "service" /\ sPc' = "prune" /\ sCopy' = {} /\ Counted(sCopy, -1)
        /\ fDisconnect' \in [Node -> BOOLEAN]
        /\ UNCHANGED <<where, addr, fInbound, fNetworkNode, timed, mPc, mCopy, oPc, oNode,
                       oIp, oTodo, oBack, dPc, dNode, dIp, restarted>>
    BY <1>2 DEF SocketService, flags, message, opener, dialog
  <2>2. \A n \in sCopy : nRefCount[n] >= 1
    BY DEF Covered, Owed, One, NodesTypeOK
  <2>3. /\ nRefCount' \in [Node -> Nat]
        /\ \A n \in Node : nRefCount'[n] = nRefCount[n] + (IF n \in sCopy THEN -1 ELSE 0)
    BY <2>1, <2>2, CountedNat DEF NodesTypeOK
  <2>4. NodesTypeOK'
    BY <2>1, <2>3 DEF NodesTypeOK
  <2>5. Covered'
    BY <2>1, <2>3 DEF Covered, Owed, One, NodesTypeOK
  <2>6. FreeUnknown' /\ RawTimed' /\ Places'
    BY <2>1 DEF FreeUnknown, RawTimed, Places, Raw
  <2> QED
    BY <2>4, <2>5, <2>6
<1>3. CASE MessageCopy
  <2>1. /\ mPc = "copy" /\ mPc' = "work" /\ mCopy = {} /\ mCopy' = Listed /\ Counted(Listed, 1)
        /\ UNCHANGED <<where, addr, fInbound, fNetworkNode, fDisconnect, timed, sPc, sCopy, oPc, oNode,
                       oIp, oTodo, oBack, dPc, dNode, dIp, restarted>>
    BY <1>3 DEF MessageCopy, Borrowed, flags, socket, opener, dialog, Places
  <2>2. Listed \in SUBSET Node
    BY DEF Listed
  <2>3. /\ nRefCount' \in [Node -> Nat]
        /\ \A n \in Node : nRefCount'[n] = nRefCount[n] + (IF n \in Listed THEN 1 ELSE 0)
    BY <2>1, <2>2, CountedNat
  <2>4. NodesTypeOK'
    BY <2>1, <2>2, <2>3 DEF NodesTypeOK
  <2>5. Covered'
    BY <2>1, <2>3 DEF Covered, Owed, One, NodesTypeOK
  <2>6. FreeUnknown' /\ RawTimed' /\ Places'
    BY <2>1 DEF FreeUnknown, RawTimed, Places, Raw, Listed
  <2> QED
    BY <2>4, <2>5, <2>6
<1>4. CASE MessageRelease
  <2>1. /\ mPc = "work" /\ mPc' = "copy" /\ mCopy' = {} /\ Counted(mCopy, -1)
        /\ UNCHANGED <<where, addr, fInbound, fNetworkNode, fDisconnect, timed, sPc, sCopy, oPc, oNode,
                       oIp, oTodo, oBack, dPc, dNode, dIp, restarted>>
    BY <1>4 DEF MessageRelease, flags, socket, opener, dialog
  <2>2. \A n \in mCopy : nRefCount[n] >= 1
    BY DEF Covered, Owed, One, NodesTypeOK
  <2>3. /\ nRefCount' \in [Node -> Nat]
        /\ \A n \in Node : nRefCount'[n] = nRefCount[n] + (IF n \in mCopy THEN -1 ELSE 0)
    BY <2>1, <2>2, CountedNat DEF NodesTypeOK
  <2>4. NodesTypeOK'
    BY <2>1, <2>3 DEF NodesTypeOK
  <2>5. Covered'
    BY <2>1, <2>3 DEF Covered, Owed, One, NodesTypeOK
  <2>6. FreeUnknown' /\ RawTimed' /\ Places'
    BY <2>1 DEF FreeUnknown, RawTimed, Places, Raw
  <2> QED
    BY <2>4, <2>5, <2>6
<1> QED
  BY <1>1, <1>2, <1>3, <1>4

\* The socket thread moves on, hangs or is replaced; a node is to be disconnected.
LEMMA QuietStep ==
    ASSUME RefInv, SocketSelect \/ SocketHang \/ SocketRestart \/ OpenFree \/ \E n \in Node : MessageWork(n)
    PROVE  RefInv'
<1> USE DEF RefInv
<1>1. CASE SocketSelect \/ SocketHang
  <2>1. /\ sPc' \in {"copy", "hung"} /\ sPc \in {"select", "service"} /\ (sPc' = "copy" => sPc = "select")
        /\ UNCHANGED <<where, addr, fInbound, fNetworkNode, fDisconnect, nRefCount, timed, sCopy, mPc,
                       mCopy, oPc, oNode, oIp, oTodo, oBack, dPc, dNode, dIp, restarted>>
    BY <1>1 DEF SocketSelect, SocketHang, nodes, flags, message, opener, dialog
  <2>2. NodesTypeOK' /\ Places'
    BY <2>1 DEF NodesTypeOK, Places
  <2>3. Covered' /\ FreeUnknown' /\ RawTimed'
    BY <2>1 DEF Covered, Owed, FreeUnknown, RawTimed, Raw
  <2> QED
    BY <2>2, <2>3
<1>2. CASE SocketRestart
  <2>1. /\ where' = [n \in Node |-> IF where[n] = "held" THEN "lost" ELSE where[n]]
        /\ sPc' = "prune" /\ sCopy' = {} /\ restarted' = TRUE
        /\ UNCHANGED <<addr, fInbound, fNetworkNode, fDisconnect, nRefCount, timed, mPc, mCopy, oPc, oNode,
                       oIp, oTodo, oBack, dPc, dNode, dIp>>
    BY <1>2 DEF SocketRestart, flags, message, opener, dialog
  <2>2. NodesTypeOK' /\ Places'
    BY <2>1 DEF NodesTypeOK, Places
  <2>3. Covered'
    BY <2>1 DEF Covered, Owed, One, NodesTypeOK
  <2>4. FreeUnknown' /\ RawTimed'
    BY <2>1 DEF FreeUnknown, RawTimed, Raw, NodesTypeOK
  <2> QED
    BY <2>2, <2>3, <2>4
<1>3. CASE OpenFree \/ \E n \in Node : MessageWork(n)
  <2>1. /\ fDisconnect' \in [Node -> BOOLEAN]
        /\ oPc' = oPc \/ (oPc = "seeds" /\ oPc' = "pick")
        /\ UNCHANGED <<where, addr, fInbound, fNetworkNode, nRefCount, timed, sPc, sCopy, mPc, mCopy,
                       oNode, oIp, oTodo, oBack, dPc, dNode, dIp, restarted>>
    BY <1>3 DEF OpenFree, MessageWork, flags, socket, message, opener, dialog, NodesTypeOK
  <2>2. NodesTypeOK' /\ Places'
    BY <2>1 DEF NodesTypeOK, Places
  <2>3. Covered' /\ FreeUnknown' /\ RawTimed'
    BY <2>1 DEF Covered, Owed, FreeUnknown, RawTimed, Raw
  <2> QED
    BY <2>2, <2>3
<1> QED
  BY <1>1, <1>2, <1>3

LEMMA OpenStep ==
    ASSUME RefInv,
           \/ OpenPick \/ OpenWake \/ OpenFind \/ OpenReuse \/ OpenFail \/ OpenMark
           \/ \E a \in Seeds : OpenSeed(a)
    PROVE  RefInv'
<1> USE DEF RefInv
<1>1. CASE OpenPick \/ OpenWake \/ OpenFail \/ \E a \in Seeds : OpenSeed(a)
  <2>1. /\ oPc' \in {"seeds", "pick", "sleep", "find"} /\ oPc # "mark"
        /\ oIp' \in Ip \cup {NoIp} /\ oTodo' \in SUBSET Seeds /\ oBack' \in {"seeds", "sleep"}
        /\ UNCHANGED <<where, addr, fInbound, fNetworkNode, fDisconnect, nRefCount, timed, sPc, sCopy, mPc,
                       mCopy, oNode, dPc, dNode, dIp, restarted>>
    BY <1>1, NodeAssumption DEF OpenPick, OpenWake, OpenFail, OpenSeed, OpenNetworkConnection, nodes, flags,
       socket, message, dialog, NodesTypeOK
  <2>2. NodesTypeOK' /\ Places'
    BY <2>1 DEF NodesTypeOK, Places
  <2>3. Covered' /\ FreeUnknown' /\ RawTimed'
    BY <2>1 DEF Covered, Owed, FreeUnknown, RawTimed, Raw
  <2> QED
    BY <2>2, <2>3
<1>2. CASE OpenFind
  <2>1. /\ oPc = "find"
        /\ \/ oPc' = "connect" /\ oNode' = oNode
           \/ oPc' = "reuse" /\ oNode' \in Node /\ where[oNode'] = "listed"
        /\ UNCHANGED <<where, addr, fInbound, fNetworkNode, fDisconnect, nRefCount, timed, sPc, sCopy, mPc,
                       mCopy, oIp, oTodo, oBack, dPc, dNode, dIp, restarted>>
    BY <1>2 DEF OpenFind, Found, Listed, nodes, flags, socket, message, dialog
  <2>2. NodesTypeOK' /\ Places'
    BY <2>1, NodeAssumption DEF NodesTypeOK, Places
  <2>3. Covered' /\ FreeUnknown' /\ RawTimed'
    BY <2>1 DEF Covered, Owed, FreeUnknown, RawTimed, Raw
  <2> QED
    BY <2>2, <2>3
<1>3. CASE OpenReuse
  <2>1. /\ oPc = "reuse" /\ oPc' = "mark" /\ Counted({oNode}, 1) /\ oNode \in Node
        /\ UNCHANGED <<where, addr, fInbound, fNetworkNode, fDisconnect, timed, sPc, sCopy, mPc,
                       mCopy, oNode, oIp, oTodo, oBack, dPc, dNode, dIp, restarted>>
    BY <1>3 DEF OpenReuse, flags, socket, message, dialog, Places, NodesTypeOK
  <2>2. /\ nRefCount' \in [Node -> Nat]
        /\ \A n \in Node : nRefCount'[n] = nRefCount[n] + (IF n \in {oNode} THEN 1 ELSE 0)
    BY <2>1, CountedNat
  <2>3. NodesTypeOK' /\ Places'
    BY <2>1, <2>2 DEF NodesTypeOK, Places
  <2>4. Covered'
    <3> SUFFICES ASSUME NEW m \in Node PROVE (nRefCount[m] >= Owed(m))'
      BY DEF Covered
    <3>0. nRefCount[m] >= Owed(m) /\ nRefCount[m] \in Nat
      BY DEF Covered, NodesTypeOK
    <3>1. CASE m = oNode
      BY <2>1, <2>2, <3>0, <3>1 DEF Owed, One
    <3>2. CASE m # oNode
      BY <2>1, <2>2, <3>0, <3>2 DEF Owed, One
    <3> QED
      BY <3>1, <3>2
  <2>5. FreeUnknown' /\ RawTimed'
    BY <2>1 DEF FreeUnknown, RawTimed, Raw
  <2> QED
    BY <2>3, <2>4, <2>5
<1>4. CASE OpenMark
  <2>1. /\ oPc = "mark" /\ oPc' = oBack /\ oNode' = NoNode /\ oIp' = NoIp /\ oNode \in Node
        /\ fNetworkNode' = [fNetworkNode EXCEPT ![oNode] = TRUE]
        /\ UNCHANGED <<where, addr, fInbound, fDisconnect, nRefCount, timed, sPc, sCopy, mPc,
                       mCopy, oTodo, oBack, dPc, dNode, dIp, restarted>>
    BY <1>4 DEF OpenMark, flags, socket, message, dialog, Places, NodesTypeOK
  <2>2. NodesTypeOK' /\ Places'
    BY <2>1 DEF NodesTypeOK, Places
  <2>3. Covered'
    <3> SUFFICES ASSUME NEW m \in Node PROVE (nRefCount[m] >= Owed(m))'
      BY DEF Covered
    <3>0. nRefCount[m] >= Owed(m)
      BY DEF Covered
    <3>1. Owed(m)' <= Owed(m)
      BY <2>1, NodeAssumption DEF Owed, One, NodesTypeOK
    <3>2. Owed(m) \in Nat /\ Owed(m)' \in Nat /\ nRefCount[m] \in Nat
      BY DEF Owed, One, NodesTypeOK
    <3> QED
      BY <2>1, <3>0, <3>1, <3>2
  <2>4. FreeUnknown'
    <3>1. where[oNode] # "free"
      BY <2>1, NodeAssumption DEF FreeUnknown, Raw
    <3> QED
      BY <2>1, <3>1 DEF FreeUnknown, Raw, NodesTypeOK
  <2>5. RawTimed'
    BY <2>1 DEF RawTimed, Raw
  <2> QED
    BY <2>2, <2>3, <2>4, <2>5
<1> QED
  BY <1>1, <1>2, <1>3, <1>4

LEMMA ConnectStep ==
    ASSUME RefInv, NEW n \in Node, OpenConnect(n) \/ DialogConnect(n)
    PROVE  RefInv'
<1>1. CASE OpenConnect(n)
  <2>1. /\ Made(n, oIp, FALSE, FALSE) /\ oPc = "connect" /\ oPc' = "mark" /\ oNode' = n
        /\ UNCHANGED <<sPc, sCopy, mPc, mCopy, oIp, oTodo, oBack, dPc, dNode, dIp, restarted>>
    BY <1>1 DEF OpenConnect, socket, message, dialog
  <2>2. oNode # n /\ oIp \in Ip \cup {NoIp} /\ n # NoNode
    BY <2>1, NodeAssumption DEF RefInv, NodesTypeOK, FreeUnknown, Raw, Made
  <2>3. /\ where' \in [Node -> {"free", "listed", "held", "lost"}]
        /\ addr' \in [Node -> Ip \cup {NoIp}]
        /\ fInbound' \in [Node -> BOOLEAN] /\ fNetworkNode' \in [Node -> BOOLEAN]
        /\ fDisconnect' \in [Node -> BOOLEAN] /\ timed' \in [Node -> BOOLEAN]
        /\ nRefCount' \in [Node -> Nat]
        /\ Covered' /\ FreeUnknown' /\ RawTimed'
    BY <2>1, <2>2, MadeStep
  <2> QED
    BY <2>1, <2>2, <2>3 DEF RefInv, NodesTypeOK, Places
<1>2. CASE DialogConnect(n)
  <2>1. /\ Made(n, dIp, FALSE, TRUE) /\ dPc' = "push" /\ dNode' = n
        /\ UNCHANGED <<sPc, sCopy, mPc, mCopy, oPc, oNode, oIp, oTodo, oBack, dIp, restarted>>
    BY <1>2 DEF DialogConnect, socket, message, opener
  <2>2. dIp \in Ip \cup {NoIp} /\ n # NoNode
    BY NodeAssumption DEF RefInv, NodesTypeOK
  <2>3. /\ where' \in [Node -> {"free", "listed", "held", "lost"}]
        /\ addr' \in [Node -> Ip \cup {NoIp}]
        /\ fInbound' \in [Node -> BOOLEAN] /\ fNetworkNode' \in [Node -> BOOLEAN]
        /\ fDisconnect' \in [Node -> BOOLEAN] /\ timed' \in [Node -> BOOLEAN]
        /\ nRefCount' \in [Node -> Nat]
        /\ Covered' /\ FreeUnknown' /\ RawTimed'
    BY <2>1, <2>2, MadeStep
  <2> QED
    BY <2>1, <2>2, <2>3 DEF RefInv, NodesTypeOK, Places
<1> QED
  BY <1>1, <1>2

\* The dialog finds, takes over and forgets a node; a release time passes.
LEMMA DialogStep ==
    ASSUME RefInv, DialogFind \/ DialogReuse \/ DialogDone \/ \E n \in Node : Expire(n)
    PROVE  RefInv'
<1> USE DEF RefInv
<1>2. /\ timed' \in [Node -> BOOLEAN]
      /\ \A n \in Raw : timed[n] => timed'[n]
      /\ dPc' \in {"find", "reuse", "connect", "push"}
      /\ dNode' \in {dNode, NoNode} \/ (dNode' \in Node /\ where[dNode'] = "listed")
      /\ dPc' \in {"reuse", "push"} => dNode' # NoNode
      /\ UNCHANGED <<where, addr, fInbound, fNetworkNode, fDisconnect, nRefCount, sPc, sCopy, mPc,
                     mCopy, oPc, oNode, oIp, oTodo, oBack, dIp, restarted>>
  <2>1. CASE DialogFind
    <3>1. /\ timed' = timed /\ dPc' \in {"connect", "reuse"} /\ (dPc' = "connect" => dNode' = dNode)
        /\ (dPc' = "reuse" => dNode' \in Node /\ where[dNode'] = "listed")
        /\ UNCHANGED <<where, addr, fInbound, fNetworkNode, fDisconnect, nRefCount, sPc, sCopy, mPc,
                       mCopy, oPc, oNode, oIp, oTodo, oBack, dIp, restarted>>
      BY <2>1 DEF DialogFind, Found, Listed, nodes, flags, socket, message, opener, dialog
    <3> QED
      BY <3>1, NodeAssumption DEF NodesTypeOK, Places
  <2>2. CASE DialogReuse
    <3>1. /\ timed' = [timed EXCEPT ![dNode] = TRUE] /\ dPc' = "push" /\ dPc = "reuse" /\ dNode' = dNode
        /\ UNCHANGED <<where, addr, fInbound, fNetworkNode, fDisconnect, nRefCount, sPc, sCopy, mPc,
                       mCopy, oPc, oNode, oIp, oTodo, oBack, dIp, restarted>>
      BY <2>2 DEF DialogReuse, nodes, flags, socket, message, opener, dialog
    <3> QED
      BY <3>1, NodeAssumption DEF NodesTypeOK, Places
  <2>3. CASE DialogDone
    <3>1. /\ timed' = timed /\ dPc' = "find" /\ dNode' = NoNode
        /\ UNCHANGED <<where, addr, fInbound, fNetworkNode, fDisconnect, nRefCount, sPc, sCopy, mPc,
                       mCopy, oPc, oNode, oIp, oTodo, oBack, dIp, restarted>>
      BY <2>3 DEF DialogDone, nodes, flags, socket, message, opener, dialog
    <3> QED
      BY <3>1, NodeAssumption DEF NodesTypeOK, Places
  <2>4. CASE \E n \in Node : Expire(n)
    <3>1. /\ (\E n \in Node : n \notin Raw /\ timed' = [timed EXCEPT ![n] = FALSE])
        /\ dPc' = dPc /\ dNode' = dNode
        /\ UNCHANGED <<where, addr, fInbound, fNetworkNode, fDisconnect, nRefCount, sPc, sCopy, mPc,
                       mCopy, oPc, oNode, oIp, oTodo, oBack, dIp, restarted>>
      BY <2>4 DEF Expire, nodes, flags, socket, message, opener, dialog
    <3> QED
      BY <3>1, NodeAssumption DEF NodesTypeOK, Places
  <2> QED
    BY <2>1, <2>2, <2>3, <2>4
<1>3. NodesTypeOK' /\ Places'
  BY <1>2, NodeAssumption DEF NodesTypeOK, Places
<1>4. Covered'
  BY <1>2 DEF Covered, Owed
<1>5. FreeUnknown' /\ RawTimed'
  BY <1>2 DEF FreeUnknown, RawTimed, Raw
<1> QED
  BY <1>3, <1>4, <1>5

-----------------------------------------------------------------------------
\* The counts cover the references in every state (net.cpp:590-851, 453-518, 1219-1258).
THEOREM RefInvariant == Spec => []RefInv
<1>1. RefInv /\ [Next]_nodesVars => RefInv'
  <2> SUFFICES ASSUME RefInv, [Next]_nodesVars PROVE RefInv'
    OBVIOUS
  <2>1. CASE Next
    BY <2>1, SocketPruneStep, SocketAcceptStep, CountStep, QuietStep, OpenStep, ConnectStep, DialogStep
       DEF Next, Socket, Message, Open, Payment
  <2>2. CASE UNCHANGED nodesVars
    <3>1. UNCHANGED <<where, addr, fInbound, fNetworkNode, fDisconnect, nRefCount, timed, sPc, sCopy, mPc,
                      mCopy, oPc, oNode, oIp, oTodo, oBack, dPc, dNode, dIp, restarted>>
      BY <2>2 DEF nodesVars, nodes, flags, socket, message, opener, dialog
    <3>2. NodesTypeOK' /\ Places'
      BY <3>1 DEF RefInv, NodesTypeOK, Places
    <3>3. Covered' /\ FreeUnknown' /\ RawTimed'
      BY <3>1 DEF RefInv, Covered, Owed, FreeUnknown, RawTimed, Raw
    <3> QED
      BY <3>2, <3>3 DEF RefInv
  <2> QED
    BY <2>1, <2>2
<1> QED
  BY InitRef, <1>1, PTL DEF Spec

\* The socket thread deletes no node that a thread has a pointer to: "wait until
\* threads are done using it" (net.cpp:617).
THEOREM NoneDeleted == Spec => []NoneDeletedInUse
  BY RefInvariant, RefNone, PTL

\* Counts stay natural numbers, and every field keeps its type.
THEOREM NodesTypes == Spec => []NodesTypeOK
<1>1. RefInv => NodesTypeOK
  BY DEF RefInv
<1> QED
  BY RefInvariant, <1>1, PTL
-----------------------------------------------------------------------------
(* The limit of a group, the addresses opened, and what is released        *)

\* No connection that was opened has the address that is being opened now, and a node that
\* ConnectNode returned has it.
Opening ==
    /\ oPc \in {"find", "reuse", "connect", "mark"} =>
          \A n \in Listed : fNetworkNode[n] => addr[n] # oIp
    /\ oPc \in {"reuse", "mark"} => addr[oNode] = oIp

\* A connection that a peer opened has no references but those owed, and the one of the
\* thread that is about to take it over.
PeersExact ==
    ~restarted => \A n \in Node : fInbound[n] /\ ~fNetworkNode[n] =>
        nRefCount[n] <= Owed(n) + One(oPc = "mark" /\ oNode = n)

ConnInv == Opening /\ InboundBounded /\ OpenedOnce /\ PeersExact

\* Nodes leave vNodes, none comes, and those that stay are what they were.
Thins ==
    \A n \in Node : where'[n] = "listed" =>
        /\ where[n] = "listed" /\ addr'[n] = addr[n]
        /\ fInbound'[n] = fInbound[n] /\ fNetworkNode'[n] = fNetworkNode[n]

Inbound(g) == {n \in Listed : fInbound[n] /\ Group[addr[n]] = g}

LEMMA InboundFinite == ASSUME NEW g PROVE IsFiniteSet(Inbound(g))
  BY NodeAssumption, FS_Subset DEF Inbound, Listed

LEMMA ThinsInbound == InboundBounded /\ Thins => InboundBounded'
<1> SUFFICES ASSUME InboundBounded, Thins, NEW a \in Ip
             PROVE  InboundCount(Group[a])' <= MaxInbound
  BY DEF InboundBounded
<1>1. Inbound(Group[a])' \subseteq Inbound(Group[a])
  BY DEF Inbound, Listed, Thins
<1>2. /\ Cardinality(Inbound(Group[a])') \in Nat /\ Cardinality(Inbound(Group[a])) \in Nat
      /\ Cardinality(Inbound(Group[a])') <= Cardinality(Inbound(Group[a]))
  BY <1>1, InboundFinite, FS_Subset, FS_CardinalityType
<1>3. Cardinality(Inbound(Group[a])) <= MaxInbound
  BY DEF InboundBounded, InboundCount, Inbound
<1> QED
  BY <1>2, <1>3, NodeAssumption DEF InboundCount, Inbound

LEMMA ThinsOpened == OpenedOnce /\ Thins => OpenedOnce'
  BY DEF OpenedOnce, Thins, Listed

\* The steps of the socket and message threads and of the dialog that make no node.
LEMMA OthersStep ==
    ASSUME RefInv, RefInv', ConnInv,
           \/ SocketPrune \/ SocketSelect \/ SocketCopy \/ SocketService \/ SocketHang \/ SocketRestart
           \/ Message \/ DialogFind \/ DialogReuse \/ DialogDone \/ \E n \in Node : Expire(n)
    PROVE  ConnInv'
<1>1. UNCHANGED <<oPc, oNode, oIp>>
  BY DEF SocketPrune, SocketSelect, SocketCopy, SocketService, SocketHang, SocketRestart, Message,
     MessageCopy, MessageRelease, MessageWork, DialogFind, DialogReuse, DialogDone, Expire, opener
<1>2. Thins /\ (oPc \in {"reuse", "mark"} => addr'[oNode] = addr[oNode])
  <2>1. CASE SocketPrune
    <3>1. PICK gone, dead \in SUBSET Node :
             /\ where' = [n \in Node |-> CASE n \in gone -> "held"
                                           [] n \in dead -> "free"
                                           [] OTHER      -> where[n]]
             /\ addr' = [n \in Node |-> IF n \in dead THEN NoIp ELSE addr[n]]
             /\ fInbound' = [n \in Node |-> fInbound[n] /\ n \notin dead]
             /\ fNetworkNode' = [n \in Node |-> fNetworkNode[n] /\ n \notin dead]
             /\ \A n \in gone : n \notin dead
      BY <2>1, ZenonT(60) DEF SocketPrune, Listed
    <3>2. Thins
      BY <3>1 DEF Thins, RefInv, NodesTypeOK
    <3>3. oPc \in {"reuse", "mark"} => oNode \in Node /\ where'[oNode] # "free"
      BY <1>1, NodeAssumption DEF RefInv, Places, FreeUnknown, Raw, NodesTypeOK
    <3> QED
      BY <3>1, <3>2, <3>3
  <2>2. CASE SocketRestart
    BY <2>2 DEF SocketRestart, flags, Thins, RefInv, NodesTypeOK
  <2>3. CASE \/ SocketSelect \/ SocketCopy \/ SocketService \/ SocketHang \/ Message
             \/ DialogFind \/ DialogReuse \/ DialogDone \/ \E n \in Node : Expire(n)
    <3>1. UNCHANGED <<where, addr, fInbound, fNetworkNode>>
      BY <2>3 DEF SocketSelect, SocketCopy, SocketService, SocketHang, Message, MessageCopy,
         MessageRelease, MessageWork, DialogFind, DialogReuse, DialogDone, Expire, nodes, flags
    <3> QED
      BY <3>1 DEF Thins
  <2> QED
    BY <2>1, <2>2, <2>3
<1>3. Opening'
  BY <1>1, <1>2 DEF ConnInv, Opening, Thins, Listed
<1>4. InboundBounded' /\ OpenedOnce'
  BY <1>2, ThinsInbound, ThinsOpened DEF ConnInv
<1>5. PeersExact'
  <2> SUFFICES ASSUME ~restarted', NEW n \in Node, fInbound'[n], ~fNetworkNode'[n]
               PROVE  nRefCount'[n] <= Owed(n)' + One(oPc = "mark" /\ oNode = n)'
    BY DEF PeersExact
  <2>0. nRefCount[n] \in Nat /\ Owed(n) \in Nat
    BY DEF RefInv, NodesTypeOK, Owed, One
  <2>1. CASE SocketPrune
    <3> DEFINE Step(gone, dead) ==
             /\ where' = [m \in Node |-> CASE m \in gone -> "held"
                                           [] m \in dead -> "free"
                                           [] OTHER      -> where[m]]
             /\ fInbound' = [m \in Node |-> fInbound[m] /\ m \notin dead]
             /\ fNetworkNode' = [m \in Node |-> fNetworkNode[m] /\ m \notin dead]
             /\ nRefCount' = [m \in Node |-> CASE m \in dead -> 0
                                               [] m \in Connected(gone) -> nRefCount[m] - 1
                                               [] OTHER -> nRefCount[m]]
    <3>1. PICK gone \in SUBSET Listed, dead \in SUBSET Node : Step(gone, dead)
      <4>1. PICK empty \in SUBSET {m \in Listed : Unreferenced(m)}, locked \in SUBSET Raw :
               Step({m \in Listed : fDisconnect[m]} \cup empty,
                    {m \in Node : where[m] = "held" /\ Unreferenced(m)} \ locked)
        BY <2>1, SMTT(30) DEF SocketPrune
      <4>2. /\ {m \in Listed : fDisconnect[m]} \cup empty \in SUBSET Listed
            /\ {m \in Node : where[m] = "held" /\ Unreferenced(m)} \ locked \in SUBSET Node
        OBVIOUS
      <4> HIDE DEF Step
      <4> QED
        BY <4>1, <4>2
    <3>2. n \notin dead /\ fInbound[n] /\ ~fNetworkNode[n]
      BY <3>1
    <3>3. nRefCount[n] <= Owed(n) + One(oPc = "mark" /\ oNode = n)
      BY <2>1, <3>2 DEF ConnInv, PeersExact, SocketPrune
    <3>4. sCopy = {} /\ sCopy' = {} /\ mCopy' = mCopy
      BY <2>1 DEF SocketPrune, RefInv, Places, message
    <3>5. CASE n \in gone
      <4>1. where[n] = "listed" /\ where'[n] = "held" /\ nRefCount'[n] = nRefCount[n] - 1
        BY <3>1, <3>2, <3>5 DEF Listed, Connected
      <4> QED
        BY <1>1, <2>0, <3>2, <3>3, <3>4, <4>1 DEF Owed, One
    <3>6. CASE n \notin gone
      <4>1. where'[n] = where[n] /\ nRefCount'[n] = nRefCount[n]
        BY <3>1, <3>2, <3>6 DEF Connected
      <4> QED
        BY <1>1, <2>0, <3>2, <3>3, <3>4, <4>1, fInbound'[n] DEF Owed, One
    <3> QED
      BY <3>5, <3>6
  <2>2. CASE SocketCopy
    BY <2>0, <2>2 DEF SocketCopy, Counted, ConnInv, PeersExact, Owed, One, RefInv, Places, flags,
       message, opener, Listed, NodesTypeOK
  <2>3. CASE SocketService
    BY <2>0, <2>3 DEF SocketService, Counted, ConnInv, PeersExact, Owed, One, flags, message, opener
  <2>4. CASE Message
    <3>1. CASE MessageCopy
      BY <2>0, <3>1 DEF MessageCopy, Borrowed, Counted, ConnInv, PeersExact, Owed, One, RefInv, Places,
         flags, socket, opener
    <3>2. CASE MessageRelease
      BY <2>0, <3>2 DEF MessageRelease, Counted, ConnInv, PeersExact, Owed, One, flags, socket, opener
    <3>3. CASE \E m \in Node : MessageWork(m)
      <4>1. UNCHANGED <<where, fInbound, fNetworkNode, nRefCount, sCopy, mCopy, oPc, oNode, restarted>>
        BY <3>3 DEF MessageWork, flags, socket, opener
      <4> QED
        BY <4>1 DEF ConnInv, PeersExact, Owed
    <3> QED
      BY <2>4, <3>1, <3>2, <3>3 DEF Message
  <2>5. CASE \/ SocketSelect \/ SocketHang \/ DialogFind \/ DialogReuse \/ DialogDone
             \/ \E m \in Node : Expire(m)
    <3>1. UNCHANGED <<where, fInbound, fNetworkNode, nRefCount, sCopy, mCopy, oPc, oNode, restarted>>
      BY <2>5 DEF SocketSelect, SocketHang, DialogFind, DialogReuse, DialogDone, Expire, nodes, flags,
         socket, message, opener
    <3> QED
      BY <3>1 DEF ConnInv, PeersExact, Owed
  <2>6. CASE SocketRestart
    BY <2>6 DEF SocketRestart
  <2> QED
    BY <2>1, <2>2, <2>3, <2>4, <2>5, <2>6
<1> QED
  BY <1>3, <1>4, <1>5 DEF ConnInv

\* A new node, before it is marked.
LEMMA MadeConn ==
    ASSUME RefInv, ConnInv, NEW n \in Node, NEW a \in Ip \cup {NoIp}, NEW in \in BOOLEAN, NEW time \in BOOLEAN,
           Made(n, a, in, time), in => RoomFor(a)
    PROVE  /\ InboundBounded' /\ OpenedOnce'
           /\ Listed' = Listed \cup {n} /\ n \notin Listed
           /\ addr'[n] = a /\ ~fNetworkNode'[n]
           /\ \A m \in Listed : /\ addr'[m] = addr[m] /\ fInbound'[m] = fInbound[m]
                                /\ fNetworkNode'[m] = fNetworkNode[m]
<1>1. /\ Listed' = Listed \cup {n} /\ n \notin Listed
      /\ addr'[n] = a /\ fInbound'[n] = in /\ ~fNetworkNode'[n]
      /\ \A m \in Listed : /\ addr'[m] = addr[m] /\ fInbound'[m] = fInbound[m]
                           /\ fNetworkNode'[m] = fNetworkNode[m]
  BY DEF Made, Listed, RefInv, NodesTypeOK, FreeUnknown
<1>2. OpenedOnce'
  BY <1>1 DEF ConnInv, OpenedOnce
<1>3. InboundBounded'
  <2> SUFFICES ASSUME NEW b \in Ip PROVE Cardinality(Inbound(Group[b])') <= MaxInbound
    BY DEF InboundBounded, InboundCount, Inbound
  <2>1. Cardinality(Inbound(Group[b])) \in Nat /\ Cardinality(Inbound(Group[b])) <= MaxInbound
    BY InboundFinite, FS_CardinalityType DEF ConnInv, InboundBounded, InboundCount, Inbound
  <2>2. CASE in /\ Group[a] = Group[b]
    <3>1. Inbound(Group[b])' = Inbound(Group[b]) \cup {n} /\ n \notin Inbound(Group[b])
      BY <1>1, <2>2 DEF Inbound
    <3>2. Cardinality(Inbound(Group[b])') = Cardinality(Inbound(Group[b])) + 1
      BY <3>1, InboundFinite, FS_AddElement
    <3>3. Cardinality(Inbound(Group[b])) < MaxInbound
      BY <2>2 DEF RoomFor, InboundCount, Inbound
    <3> QED
      BY <2>1, <3>2, <3>3, NodeAssumption
  <2>3. CASE ~(in /\ Group[a] = Group[b])
    <3>1. Inbound(Group[b])' = Inbound(Group[b])
      BY <1>1, <2>3 DEF Inbound
    <3> QED
      BY <2>1, <3>1
  <2> QED
    BY <2>2, <2>3
<1> QED
  BY <1>1, <1>2, <1>3

LEMMA MakesStep ==
    ASSUME RefInv, RefInv', ConnInv, NEW n \in Node,
           OpenConnect(n) \/ DialogConnect(n) \/ \E a \in Ip : SocketAccept(n, a)
    PROVE  ConnInv'
<1>1. where[n] = "free" /\ n \notin sCopy \cup mCopy \cup Raw /\ ~fInbound[n] /\ ~fNetworkNode[n]
  BY DEF RefInv, FreeUnknown, OpenConnect, DialogConnect, SocketAccept, Made
<1>2. /\ nRefCount'[n] \in {0, 1}
      /\ \A m \in Node \ {n} : /\ nRefCount'[m] = nRefCount[m] /\ where'[m] = where[m]
                               /\ fInbound'[m] = fInbound[m] /\ fNetworkNode'[m] = fNetworkNode[m]
                               /\ addr'[m] = addr[m]
      /\ where'[n] = "listed" /\ UNCHANGED <<sCopy, mCopy, restarted>>
  BY DEF RefInv, NodesTypeOK, OpenConnect, DialogConnect, SocketAccept, Made, socket, message
<1>3. \A m \in Node \ {n} : oPc' = "mark" /\ oNode' = m <=> oPc = "mark" /\ oNode = m
  BY DEF OpenConnect, DialogConnect, SocketAccept, opener
<1>4. PeersExact'
  <2> SUFFICES ASSUME ~restarted', NEW m \in Node, fInbound'[m], ~fNetworkNode'[m]
               PROVE  nRefCount'[m] <= Owed(m)' + One(oPc = "mark" /\ oNode = m)'
    BY DEF PeersExact
  <2>1. CASE m = n
    BY <1>1, <1>2, <2>1 DEF Owed, One
  <2>2. CASE m # n
    BY <1>2, <1>3, <2>2 DEF ConnInv, PeersExact, Owed, One
  <2> QED
    BY <2>1, <2>2
<1>5. CASE \E a \in Ip : SocketAccept(n, a)
  <2>1. PICK a \in Ip : SocketAccept(n, a)
    BY <1>5
  <2>2. Made(n, a, TRUE, FALSE) /\ RoomFor(a) /\ UNCHANGED <<oPc, oNode, oIp>>
    BY <2>1 DEF SocketAccept, opener
  <2>3. /\ InboundBounded' /\ OpenedOnce' /\ Listed' = Listed \cup {n} /\ ~fNetworkNode'[n]
        /\ \A m \in Listed : addr'[m] = addr[m] /\ fNetworkNode'[m] = fNetworkNode[m]
    BY <2>2, MadeConn
  <2>4. Opening'
    BY <1>1, <1>2, <2>2, <2>3, NodeAssumption DEF ConnInv, Opening, RefInv, Places, NodesTypeOK, Raw
  <2> QED
    BY <1>4, <2>3, <2>4 DEF ConnInv
<1>6. CASE DialogConnect(n)
  <2>1. Made(n, dIp, FALSE, TRUE) /\ dIp \in Ip /\ UNCHANGED <<oPc, oNode, oIp>>
    BY <1>6 DEF DialogConnect, opener, RefInv, NodesTypeOK
  <2>2. /\ InboundBounded' /\ OpenedOnce' /\ Listed' = Listed \cup {n} /\ ~fNetworkNode'[n]
        /\ \A m \in Listed : addr'[m] = addr[m] /\ fNetworkNode'[m] = fNetworkNode[m]
    BY <2>1, MadeConn
  <2>3. Opening'
    BY <1>1, <1>2, <2>1, <2>2, NodeAssumption DEF ConnInv, Opening, RefInv, Places, NodesTypeOK, Raw
  <2> QED
    BY <1>4, <2>2, <2>3 DEF ConnInv
<1>7. CASE OpenConnect(n)
  <2>1. /\ Made(n, oIp, FALSE, FALSE) /\ oIp \in Ip \cup {NoIp} /\ oIp' = oIp
        /\ oPc = "connect" /\ oPc' = "mark" /\ oNode' = n
    BY <1>7 DEF OpenConnect, RefInv, NodesTypeOK
  <2>2. /\ InboundBounded' /\ OpenedOnce' /\ Listed' = Listed \cup {n} /\ ~fNetworkNode'[n]
        /\ addr'[n] = oIp
        /\ \A m \in Listed : addr'[m] = addr[m] /\ fNetworkNode'[m] = fNetworkNode[m]
    BY <2>1, MadeConn
  <2>3. Opening'
    BY <2>1, <2>2 DEF ConnInv, Opening
  <2> QED
    BY <1>4, <2>2, <2>3 DEF ConnInv
<1> QED
  BY <1>5, <1>6, <1>7

\* The steps of the opening thread that make no node.
LEMMA OpenerStep ==
    ASSUME RefInv, RefInv', ConnInv,
           \/ OpenFree \/ OpenPick \/ OpenWake \/ OpenFind \/ OpenReuse \/ OpenFail \/ OpenMark
           \/ \E a \in Seeds : OpenSeed(a)
    PROVE  ConnInv'
<1>1. CASE \/ OpenFree \/ OpenPick \/ OpenWake \/ OpenFind \/ OpenReuse \/ OpenFail
           \/ \E a \in Seeds : OpenSeed(a)
  <2>1. UNCHANGED <<where, addr, fInbound, fNetworkNode, sCopy, mCopy, restarted>>
    BY <1>1 DEF OpenFree, OpenPick, OpenWake, OpenFind, OpenReuse, OpenFail, OpenSeed, nodes, flags,
       socket, message
  <2>2. Thins
    BY <2>1 DEF Thins
  <2>3. Opening'
    <3>1. CASE OpenFree \/ OpenWake \/ OpenFail
      <4>1. oPc' \in {"seeds", "pick", "sleep"}
        BY <3>1 DEF OpenFree, OpenWake, OpenFail, RefInv, NodesTypeOK
      <4> QED
        BY <4>1 DEF Opening
    <3>2. CASE OpenPick \/ \E a \in Seeds : OpenSeed(a)
      <4>1. oPc' \in {"seeds", "pick", "sleep"} \/ (oPc' = "find" /\ Unconnected(oIp'))
        BY <3>2 DEF OpenPick, OpenSeed, OpenNetworkConnection
      <4> QED
        BY <2>1, <4>1 DEF Opening, Unconnected, Found, Listed
    <3>3. CASE OpenFind
      BY <2>1, <3>3 DEF OpenFind, ConnInv, Opening, Found, Listed
    <3>4. CASE OpenReuse
      BY <2>1, <3>4 DEF OpenReuse, ConnInv, Opening, Listed
    <3> QED
      BY <1>1, <3>1, <3>2, <3>3, <3>4
  <2>4. PeersExact'
    <3> SUFFICES ASSUME ~restarted', NEW n \in Node, fInbound'[n], ~fNetworkNode'[n]
                 PROVE  nRefCount'[n] <= Owed(n)' + One(oPc = "mark" /\ oNode = n)'
      BY DEF PeersExact
    <3>1. CASE OpenReuse
      <4>1. /\ oPc = "reuse" /\ oPc' = "mark" /\ oNode' = oNode
            /\ nRefCount'[n] = IF n = oNode THEN nRefCount[n] + 1 ELSE nRefCount[n]
        BY <3>1 DEF OpenReuse, Counted
      <4>2. nRefCount[n] <= Owed(n) + One(oPc = "mark" /\ oNode = n) /\ nRefCount[n] \in Nat
        BY <2>1 DEF ConnInv, PeersExact, RefInv, NodesTypeOK
      <4> QED
        BY <2>1, <4>1, <4>2 DEF Owed, One
    <3>2. CASE OpenFree \/ OpenPick \/ OpenWake \/ OpenFind \/ OpenFail \/ \E a \in Seeds : OpenSeed(a)
      <4>1. nRefCount' = nRefCount /\ oPc # "mark" /\ oPc' # "mark"
        BY <3>2 DEF OpenFree, OpenPick, OpenWake, OpenFind, OpenFail, OpenSeed, OpenNetworkConnection,
           nodes, RefInv, NodesTypeOK
      <4> QED
        BY <2>1, <4>1 DEF ConnInv, PeersExact, Owed, One
    <3> QED
      BY <1>1, <3>1, <3>2
  <2> QED
    BY <2>2, <2>3, <2>4, ThinsInbound, ThinsOpened DEF ConnInv
<1>2. CASE OpenMark
  <2>1. /\ oPc = "mark" /\ oPc' = oBack /\ oNode' = NoNode /\ oNode \in Node
        /\ fNetworkNode' = [fNetworkNode EXCEPT ![oNode] = TRUE]
        /\ UNCHANGED <<where, addr, fInbound, nRefCount, sCopy, mCopy, restarted>>
    BY <1>2 DEF OpenMark, socket, message, RefInv, Places, NodesTypeOK
  <2>2. Opening'
    BY <2>1 DEF Opening, RefInv, NodesTypeOK
  <2>3. InboundBounded'
    BY <2>1 DEF ConnInv, InboundBounded, InboundCount, Listed
  <2>4. OpenedOnce'
    <3>1. \A n \in Listed : fNetworkNode'[n] => n = oNode \/ fNetworkNode[n]
      BY <2>1 DEF RefInv, NodesTypeOK, Listed
    <3>2. \A n \in Listed : fNetworkNode[n] => addr[n] # addr[oNode]
      BY <2>1 DEF ConnInv, Opening
    <3> QED
      BY <2>1, <3>1, <3>2 DEF ConnInv, OpenedOnce, Listed
  <2>5. PeersExact'
    BY <2>1, NodeAssumption DEF ConnInv, PeersExact, Owed, One, RefInv, NodesTypeOK
  <2> QED
    BY <2>2, <2>3, <2>4, <2>5 DEF ConnInv
<1> QED
  BY <1>1, <1>2

THEOREM ConnInvariant == Spec => []ConnInv
<1>1. Init => ConnInv
  <2> SUFFICES ASSUME Init PROVE ConnInv
    OBVIOUS
  <2>1. Listed = {} /\ oPc = "seeds" /\ \A n \in Node : ~fInbound[n]
    BY DEF Init, Listed
  <2>2. InboundBounded
    BY <2>1, FS_EmptySet, NodeAssumption DEF InboundBounded, InboundCount
  <2> QED
    BY <2>1, <2>2 DEF ConnInv, Opening, OpenedOnce, PeersExact
<1>2. RefInv /\ RefInv' /\ ConnInv /\ [Next]_nodesVars => ConnInv'
  <2> SUFFICES ASSUME RefInv, RefInv', ConnInv, [Next]_nodesVars PROVE ConnInv'
    OBVIOUS
  <2>1. CASE Next
    BY <2>1, OthersStep, MakesStep, OpenerStep DEF Next, Socket, Open, Payment
  <2>2. CASE UNCHANGED nodesVars
    <3>1. UNCHANGED <<where, addr, fInbound, fNetworkNode, nRefCount, sCopy, mCopy, oPc, oNode, oIp,
                      restarted>>
      BY <2>2 DEF nodesVars, nodes, flags, socket, message, opener
    <3> QED
      BY <3>1 DEF ConnInv, Opening, InboundBounded, InboundCount, OpenedOnce, PeersExact, Owed, Listed
  <2> QED
    BY <2>1, <2>2
<1> QED
  BY <1>1, <1>2, RefInvariant, PTL DEF Spec

\* MAX_INBOUND_PER_GROUP is never passed by a network group, though nodes leave and come
\* in any order (net.cpp:704-722).
THEOREM InboundLimit == Spec => []InboundBounded
<1>1. ConnInv => InboundBounded
  BY DEF ConnInv
<1> QED
  BY ConnInvariant, <1>1, PTL

\* The two calls of FindNode, with the connection made between them, open no address twice.
THEOREM NoSecondConnection == Spec => []OpenedOnce
<1>1. ConnInv => OpenedOnce
  BY DEF ConnInv
<1> QED
  BY ConnInvariant, <1>1, PTL

\* A connection that a peer opened loses its last reference when it is closed.
THEOREM PeersReleased == Spec => []PeerRefsReleased
<1>1. RefInv /\ ConnInv => PeerRefsReleased
  <2> SUFFICES ASSUME RefInv, ConnInv, NEW n \in Node, where[n] = "held", ~fNetworkNode[n], fInbound[n],
                      ~restarted, n \notin sCopy \cup mCopy \cup Raw
               PROVE  nRefCount[n] <= 0
    BY DEF PeerRefsReleased
  <2>1. ~(oPc = "mark" /\ oNode = n)
    BY NodeAssumption DEF Raw
  <2>2. nRefCount[n] <= Owed(n) + One(oPc = "mark" /\ oNode = n)
    BY DEF ConnInv, PeersExact
  <2> QED
    BY <2>1, <2>2 DEF Owed, One
<1> QED
  BY RefInvariant, ConnInvariant, <1>1, PTL
=============================================================================
