----------------------------- MODULE RelayProofs -----------------------------
(***************************************************************************)
(* For any peers, chains and batches: the blocks a node holds are a        *)
(* beginning of its peers' chain, no orphan waits for a block that is      *)
(* there, and no peer announces or sends what is not in its chain.  For    *)
(* any nodes and addresses: what a node holds of an address agrees with    *)
(* its record in addr.dat, and what belongs to a connection goes with it.  *)
(***************************************************************************)
EXTENDS Relay, SequenceTheorems, WellFoundedInduction, TLAPS

-----------------------------------------------------------------------------
(* Sequences of sequences.  Joining them is a recursive function, which    *)
(* exists because the beginnings get shorter.                              *)

Joined(ss, f, i) == IF i = 1 THEN ss[i] ELSE f[i - 1] \o ss[i]
Joins(ss, f) == f = [i \in 1 .. Len(ss) |-> Joined(ss, f, i)]

LEMMA FlattenIs ==
    ASSUME NEW ss, Len(ss) # 0
    PROVE  FlattenSeq(ss) = (CHOOSE f : Joins(ss, f))[Len(ss)]
  BY DEF FlattenSeq, Joins, Joined

\* A set of numbers that has none without a smaller one is empty.
LEMMA NoSmallest ==
    ASSUME NEW Bad \in SUBSET Nat, \A n \in Bad : \E k \in Bad : k < n
    PROVE  Bad = {}
<1> SUFFICES ASSUME Bad # {} PROVE FALSE
  OBVIOUS
<1>1. \E n \in Bad : \A k \in Bad : ~(<<k, n>> \in OpToRel(<, Nat))
  BY NatLessThanWellFounded, WFMin
<1>2. \A k, n \in Nat : k < n => <<k, n>> \in OpToRel(<, Nat)
  BY DEF OpToRel
<1> QED
  BY <1>1, <1>2

LEMMA JoinExists == ASSUME NEW T, NEW ss \in Seq(T) PROVE \E f : Joins(ss, f)
<1> DEFINE Upto(f, n) == \A i \in 1 .. Len(ss) : i <= n => f[i] = Joined(ss, f, i)
           Bad == {n \in Nat : ~\E f : Upto(f, n)}
<1>1. ASSUME NEW n \in Bad PROVE \E k \in Bad : k < n
  <2> SUFFICES ASSUME \A k \in Nat : k < n => k \notin Bad PROVE \E f : Upto(f, n)
    BY <1>1
  <2>1. CASE n = 0
    <3>1. Upto(<<>>, 0)
      OBVIOUS
    <3> QED
      BY <2>1, <3>1
  <2>2. CASE n # 0
    <3>1. n - 1 \in Nat /\ n - 1 < n
      BY <1>1, <2>2
    <3>2. PICK f : Upto(f, n - 1)
      BY <3>1
    <3> DEFINE g == [i \in 1 .. Len(ss) |-> Joined(ss, f, i)]
    <3>3. ASSUME NEW i \in 1 .. Len(ss), i <= n PROVE g[i] = Joined(ss, g, i)
      <4>1. CASE i = 1
        BY <4>1 DEF Joined
      <4>2. CASE i # 1
        <5>1. i - 1 \in 1 .. Len(ss) /\ i - 1 <= n - 1
          BY <1>1, <3>3, <4>2
        <5>2. g[i - 1] = f[i - 1]
          BY <3>2, <5>1
        <5> QED
          BY <4>2, <5>2 DEF Joined
      <4> QED
        BY <4>1, <4>2
    <3>4. Upto(g, n)
      BY <3>3
    <3> HIDE DEF g
    <3> QED
      BY <3>4
  <2> QED
    BY <2>1, <2>2
<1>2. Bad = {}
  <2> HIDE DEF Bad
  <2>1. Bad \in SUBSET Nat
    BY DEF Bad
  <2> QED
    BY <1>1, <2>1, NoSmallest
<1>3. Len(ss) \in Nat
  OBVIOUS
<1>4. PICK f : Upto(f, Len(ss))
  BY <1>2, <1>3
<1> DEFINE g == [i \in 1 .. Len(ss) |-> f[i]]
<1>5. ASSUME NEW i \in 1 .. Len(ss) PROVE g[i] = Joined(ss, g, i)
  <2>1. g[i] = Joined(ss, f, i) /\ i \in Nat /\ i <= Len(ss)
    BY <1>3, <1>4
  <2>2. i # 1 => i - 1 \in 1 .. Len(ss)
    BY <1>3
  <2> QED
    BY <2>1, <2>2 DEF Joined
<1>6. Joins(ss, g)
  BY <1>5 DEF Joins
<1> QED
  BY <1>6

\* What is put together from sequences over a set is a sequence over it.
LEMMA FlattenTyped ==
    ASSUME NEW T, NEW ss \in Seq(Seq(T))
    PROVE  FlattenSeq(ss) \in Seq(T)
<1>1. CASE Len(ss) = 0
  <2>1. FlattenSeq(ss) = ss /\ ss = <<>>
    BY <1>1 DEF FlattenSeq
  <2> QED
    BY <2>1
<1>2. CASE Len(ss) # 0
  <2> DEFINE f == CHOOSE f : Joins(ss, f)
  <2>1. Joins(ss, f)
    BY JoinExists
  <2> HIDE DEF f
  <2>2. \A i \in 1 .. Len(ss) : f[i] = Joined(ss, f, i)
    BY <2>1 DEF Joins
  <2> DEFINE Bad == {i \in 1 .. Len(ss) : f[i] \notin Seq(T)}
  <2>3. ASSUME NEW i \in Bad PROVE \E k \in Bad : k < i
    <3>1. i # 1
      BY <2>2, <2>3 DEF Joined
    <3>2. i - 1 \in 1 .. Len(ss) /\ i - 1 < i
      BY <2>3, <3>1
    <3>3. i \in 1 .. Len(ss) /\ f[i] \notin Seq(T)
      BY <2>3
    <3>4. f[i] = f[i - 1] \o ss[i]
      BY <2>2, <3>1, <3>3 DEF Joined
    <3>5. ss[i] \in Seq(T)
      BY <3>3, ElementOfSeq
    <3>6. f[i - 1] \notin Seq(T)
      BY <3>3, <3>4, <3>5, ConcatProperties
    <3> QED
      BY <3>2, <3>6
  <2>4. Bad = {}
    <3>1. Bad \in SUBSET Nat
      OBVIOUS
    <3> HIDE DEF Bad
    <3> QED
      BY <2>3, <3>1, NoSmallest
  <2>5. Len(ss) \in 1 .. Len(ss)
    BY <1>2
  <2>6. f[Len(ss)] \in Seq(T)
    BY <2>4, <2>5
  <2> QED
    BY <1>2, <2>6, FlattenIs DEF f
<1> QED
  BY <1>1, <1>2

\* A sequence by its members.
LEMMA MembersOf ==
    ASSUME NEW T, NEW n \in Nat, NEW s, s = [i \in 1 .. n |-> s[i]], \A i \in 1 .. n : s[i] \in T
    PROVE  s \in Seq(T)
  OBVIOUS

LEMMA ThoseTyped ==
    ASSUME NEW T, NEW bs \in Seq(T), NEW S
    PROVE  Those(bs, S) \in Seq(T \cap S)
<1> DEFINE ss == [i \in 1 .. Len(bs) |-> IF bs[i] \in S THEN <<bs[i]>> ELSE <<>>]
<1>1. ASSUME NEW i \in 1 .. Len(bs) PROVE ss[i] \in Seq(T \cap S)
  <2>1. bs[i] \in T
    BY ElementOfSeq
  <2> DEFINE b == bs[i]
  <2> HIDE DEF b
  <2>2. b \in S => <<b>> \in Seq(T \cap S)
    BY <2>1 DEF b
  <2>3. ss[i] = IF b \in S THEN <<b>> ELSE <<>>
    BY DEF b
  <2> QED
    BY <2>2, <2>3, EmptySeq
<1>2. ss \in Seq(Seq(T \cap S))
  BY <1>1, MembersOf
<1> HIDE DEF ss
<1>3. FlattenSeq(ss) \in Seq(T \cap S)
  BY <1>2, FlattenTyped
<1> QED
  BY <1>3 DEF Those, ss

LEMMA FirstsTyped == ASSUME NEW T, NEW bs \in Seq(T) PROVE Firsts(bs) \in Seq(T)
<1> DEFINE Before(i) == bs[i] \in Range(SubSeq(bs, 1, i - 1))
           ss == [i \in 1 .. Len(bs) |-> IF Before(i) THEN <<>> ELSE <<bs[i]>>]
<1> HIDE DEF Before
<1>1. ASSUME NEW i \in 1 .. Len(bs) PROVE ss[i] \in Seq(T)
  <2>1. bs[i] \in T
    BY ElementOfSeq
  <2> DEFINE b == bs[i]
  <2> HIDE DEF b
  <2>2. <<b>> \in Seq(T)
    BY <2>1 DEF b
  <2>3. ss[i] \in {<<>>, <<b>>}
    BY DEF b
  <2> QED
    BY <2>2, <2>3, EmptySeq
<1>2. ss \in Seq(Seq(T))
  BY <1>1, MembersOf
<1> HIDE DEF ss
<1>3. FlattenSeq(ss) \in Seq(T)
  BY <1>2, FlattenTyped
<1> QED
  BY <1>3 DEF Firsts, ss, Before

-----------------------------------------------------------------------------
(* The largest and the smallest of a set of numbers.                       *)

LEMMA MinIn ==
    ASSUME NEW S \in SUBSET Nat, S # {}
    PROVE  Min(S) \in S /\ \A y \in S : Min(S) <= y
<1>1. \E x \in S : \A y \in S : ~(y < x)
  BY NoSmallest
<1>2. \E x \in S : \A y \in S : x <= y
  BY <1>1
<1> QED
  BY <1>2 DEF Min

LEMMA MaxIn ==
    ASSUME NEW n \in Nat, NEW S \in SUBSET (0 .. n), S # {}
    PROVE  Max(S) \in S /\ \A y \in S : y <= Max(S)
<1> DEFINE D == {n - x : x \in S}
<1>1. \A x \in S : n - x \in Nat
  OBVIOUS
<1>2. D \in SUBSET Nat /\ D # {}
  BY <1>1
<1>3. PICK d \in D : \A e \in D : d <= e
  BY <1>2, MinIn
<1>4. PICK x \in S : d = n - x
  BY <1>3
<1>5. \A y \in S : n - x <= n - y
  BY <1>3, <1>4
<1>6. \A y \in S : x >= y
  BY <1>5
<1> QED
  BY <1>4, <1>6 DEF Max

-----------------------------------------------------------------------------
(* Blocks                                                                  *)

\* What a peer of height h sends is in its chain, and what it is asked for as well.
NodeMsg(h) == [type : {"version"}] \cup [type : {"inv"}, inv : Seq(1 .. h)]
                                   \cup [type : {"block"}, block : 1 .. h]
PeerMsg(h) == [type : {"getblocks"}, begin : Block \cup {Nothing}, stop : Block \cup {Nothing}]
                \cup [type : {"getdata"}, inv : Seq(1 .. h)]

InChain(p) ==
    /\ vInventoryToSend[p] \in Seq(1 .. nHeight[p])
    /\ setInventoryKnown[p] \in SUBSET (1 .. nHeight[p])
    /\ hashContinue[p] \in {Nothing} \cup 1 .. nHeight[p]
    /\ mapAskFor[p] \in [0 .. MaxWait -> Seq(1 .. nHeight[p])]
    /\ toNode[p] \in Seq(NodeMsg(nHeight[p]))
    /\ toPeer[p] \in Seq(PeerMsg(nHeight[p]))

OfPeers ==
    /\ nHeight \in [Peer -> 0 .. Top]
    /\ DOMAIN vInventoryToSend = Peer /\ DOMAIN setInventoryKnown = Peer
    /\ DOMAIN hashContinue = Peer /\ DOMAIN mapAskFor = Peer
    /\ DOMAIN toNode = Peer /\ DOMAIN toPeer = Peer

\* What the node holds: a beginning of the chain, and orphans whose parent is not there.
HeldBlocks ==
    /\ have \in SUBSET Block /\ orphans \in SUBSET Block /\ have \cap orphans = {}
    /\ \A b \in have : 1 .. b \subseteq have
    /\ \A b \in orphans : b - 1 \notin have \cup {0}

Counts == up \in SUBSET Peer /\ nAskedForBlocks \in BOOLEAN /\ drops \in 0 .. MaxDrops
          /\ nRequestTime \in [Block -> Past .. MaxWait]

SyncInv == OfPeers /\ (\A p \in Peer : InChain(p)) /\ HeldBlocks /\ Counts

LEMMA SyncInvTypes == SyncInv => SyncTypeOK
<1> SUFFICES ASSUME SyncInv, NEW p \in Peer PROVE
             /\ \A b \in Range(vInventoryToSend[p]) \cup setInventoryKnown[p] : b <= nHeight[p]
             /\ \A w \in 0 .. MaxWait : Range(mapAskFor[p][w]) \subseteq Block
  BY DEF SyncInv, SyncTypeOK, OfPeers, HeldBlocks, Counts
<1>1. InChain(p) /\ nHeight[p] \in Nat /\ 1 .. nHeight[p] \subseteq Block
  BY SyncAssumption DEF SyncInv, OfPeers, Block
<1>2. ASSUME NEW b \in Range(vInventoryToSend[p]) \cup setInventoryKnown[p] PROVE b <= nHeight[p]
  <2>1. b \in 1 .. nHeight[p]
    BY <1>1 DEF InChain, Range
  <2> QED
    BY <1>1, <2>1
<1>3. ASSUME NEW w \in 0 .. MaxWait PROVE Range(mapAskFor[p][w]) \subseteq Block
  <2>1. mapAskFor[p][w] \in Seq(1 .. nHeight[p])
    BY <1>1 DEF InChain
  <2> QED
    BY <1>1, <2>1 DEF Range
<1> QED
  BY <1>2, <1>3

LEMMA Emptied == ASSUME NEW T PROVE <<>> \in Seq(T)
  OBVIOUS

LEMMA SyncStart == Init \/ Told => SyncInv
<1>1. Init => SyncInv
  <2> SUFFICES ASSUME Init PROVE SyncInv
    OBVIOUS
  <2>1. OfPeers /\ HeldBlocks
    BY SyncAssumption DEF Init, OfPeers, HeldBlocks
  <2>3. Counts
    <3>1. nAskedForBlocks \in BOOLEAN /\ up \in SUBSET Peer
      BY Zenon DEF Init
    <3>2. drops \in 0 .. MaxDrops /\ nRequestTime \in [Block -> Past .. MaxWait]
      BY SyncAssumption DEF Init, Past
    <3> QED
      BY <3>1, <3>2 DEF Counts
  <2>2. ASSUME NEW p \in Peer PROVE InChain(p)
    BY DEF Init, InChain, NothingAsked
  <2> QED
    BY <2>1, <2>2, <2>3 DEF SyncInv
<1>2. Told => SyncInv
  BY SyncAssumption DEF Told, SyncInv, OfPeers, InChain, HeldBlocks, Counts, Block, Nothing, Past, NothingAsked
<1> QED
  BY <1>1, <1>2

-----------------------------------------------------------------------------
(* Connections and the peer                                                *)

\* What a step does not touch stays.
LEMMA Untouched ==
    ASSUME SyncInv, NEW q \in Peer, nHeight'[q] = nHeight[q],
           vInventoryToSend'[q] = vInventoryToSend[q], setInventoryKnown'[q] = setInventoryKnown[q],
           hashContinue'[q] = hashContinue[q], mapAskFor'[q] = mapAskFor[q],
           toNode'[q] = toNode[q], toPeer'[q] = toPeer[q]
    PROVE  InChain(q)'
  BY DEF SyncInv, InChain

LEMMA ConnectKeeps == ASSUME SyncInv, NEW p \in Peer, Connect(p) PROVE SyncInv'
<1> USE DEF Connect, peerVars, nodeVars
<1>1. OfPeers' /\ HeldBlocks' /\ Counts'
  BY DEF SyncInv, OfPeers, HeldBlocks, Counts
<1>2. InChain(p)'
  <2> DEFINE h == nHeight[p]
  <2>1. [type |-> "version"] \in NodeMsg(h)
    BY DEF NodeMsg
  <2>2. <<[type |-> "version"]>> \in Seq(NodeMsg(h))
    BY <2>1
  <2>3. toNode'[p] = <<[type |-> "version"]>>
    BY DEF SyncInv, OfPeers
  <2> QED
    BY <2>2, <2>3 DEF SyncInv, InChain
<1>3. ASSUME NEW q \in Peer, q # p PROVE InChain(q)'
  BY <1>3, Untouched DEF SyncInv, OfPeers
<1> QED
  BY <1>1, <1>2, <1>3 DEF SyncInv

LEMMA DropKeeps == ASSUME SyncInv, NEW p \in Peer, Drop(p) PROVE SyncInv'
<1> USE DEF Drop
<1>1. OfPeers' /\ HeldBlocks' /\ Counts'
  BY SyncAssumption DEF SyncInv, OfPeers, HeldBlocks, Counts
<1>2. InChain(p)'
  BY DEF SyncInv, OfPeers, InChain, NothingAsked
<1>3. ASSUME NEW q \in Peer, q # p PROVE InChain(q)'
  BY <1>3, Untouched DEF SyncInv, OfPeers
<1> QED
  BY <1>1, <1>2, <1>3 DEF SyncInv

LEMMA SeqIn == ASSUME NEW T, NEW U, U \subseteq T, NEW s \in Seq(U) PROVE s \in Seq(T)
  OBVIOUS

LEMMA UnknownTyped ==
    ASSUME NEW T, NEW bs \in Seq(T), NEW p
    PROVE  Unknown(p, bs) \in Seq(T)
<1> DEFINE U == T \cap (Block \ setInventoryKnown[p])
<1>1. Unknown(p, bs) \in Seq(U)
  BY ThoseTyped DEF Unknown
<1>2. U \subseteq T
  OBVIOUS
<1> HIDE DEF U
<1> QED
  BY <1>1, <1>2, SeqIn

\* A longer chain has the blocks of the shorter.
LEMMA Longer ==
    ASSUME NEW h \in Nat
    PROVE  /\ 1 .. h \subseteq 1 .. h + 1 /\ Seq(1 .. h) \subseteq Seq(1 .. h + 1)
           /\ NodeMsg(h) \subseteq NodeMsg(h + 1) /\ Seq(NodeMsg(h)) \subseteq Seq(NodeMsg(h + 1))
           /\ PeerMsg(h) \subseteq PeerMsg(h + 1) /\ Seq(PeerMsg(h)) \subseteq Seq(PeerMsg(h + 1))
<1>1. 1 .. h \subseteq 1 .. h + 1
  OBVIOUS
<1>2. Seq(1 .. h) \subseteq Seq(1 .. h + 1)
  BY <1>1
<1>3. NodeMsg(h) \subseteq NodeMsg(h + 1)
  BY <1>1, <1>2 DEF NodeMsg
<1>4. PeerMsg(h) \subseteq PeerMsg(h + 1)
  BY <1>1, <1>2 DEF PeerMsg
<1>5. Seq(NodeMsg(h)) \subseteq Seq(NodeMsg(h + 1)) /\ Seq(PeerMsg(h)) \subseteq Seq(PeerMsg(h + 1))
  BY <1>3, <1>4
<1> QED
  BY <1>1, <1>2, <1>3, <1>4, <1>5

LEMMA GrowKeeps == ASSUME SyncInv, NEW p \in Peer, Grow(p) PROVE SyncInv'
<1> USE DEF Grow, nodeVars
<1> DEFINE h == nHeight[p]
<1>1. OfPeers' /\ HeldBlocks' /\ Counts'
  BY SyncAssumption DEF SyncInv, OfPeers, HeldBlocks, Counts
<1>2. h \in Nat /\ nHeight'[p] = h + 1
  BY SyncAssumption DEF SyncInv, OfPeers
<1>3. InChain(p)'
  <2>1. InChain(p)
    BY DEF SyncInv
  <2>2. vInventoryToSend'[p] \in Seq(1 .. h + 1)
    <3>1. <<h + 1>> \in Seq(1 .. h + 1)
      BY <1>2
    <3>3. Unknown(p, <<h + 1>>) \in Seq(1 .. h + 1)
      BY <3>1, UnknownTyped
    <3>4. vInventoryToSend[p] \in Seq(1 .. h + 1)
      BY <1>2, <2>1, Longer DEF InChain
    <3>5. Pushed(p, <<h + 1>>) \in Seq(1 .. h + 1)
      BY <3>3, <3>4 DEF Pushed
    <3> QED
      BY <3>4, <3>5 DEF SyncInv, OfPeers
  <2>3. /\ setInventoryKnown'[p] \in SUBSET (1 .. h + 1)
        /\ hashContinue'[p] \in {Nothing} \cup 1 .. h + 1
    BY <1>2, <2>1, Longer DEF InChain
  <2>4. mapAskFor'[p] \in [0 .. MaxWait -> Seq(1 .. h + 1)]
    BY <1>2, <2>1, Longer DEF InChain
  <2>5. toNode'[p] \in Seq(NodeMsg(h + 1)) /\ toPeer'[p] \in Seq(PeerMsg(h + 1))
    BY <1>2, <2>1, Longer DEF InChain
  <2> QED
    BY <1>2, <2>2, <2>3, <2>4, <2>5 DEF InChain
<1>4. ASSUME NEW q \in Peer, q # p PROVE InChain(q)'
  BY <1>4, Untouched DEF SyncInv, OfPeers
<1> QED
  BY <1>1, <1>3, <1>4 DEF SyncInv

\* The members of a sequence over a set.
LEMMA RangeIn == ASSUME NEW T, NEW s \in Seq(T) PROVE Range(s) \subseteq T
  BY DEF Range

LEMMA SendInventoryKeeps == ASSUME SyncInv, NEW p \in Peer, SendInventory(p) PROVE SyncInv'
<1> USE DEF SendInventory, nodeVars
<1> DEFINE h == nHeight[p]
           new == Firsts(Unknown(p, vInventoryToSend[p]))
<1>1. OfPeers' /\ HeldBlocks' /\ Counts'
  BY DEF SyncInv, OfPeers, HeldBlocks, Counts
<1>2. InChain(p)
  BY DEF SyncInv
<1>3. new \in Seq(1 .. h)
  BY <1>2, UnknownTyped, FirstsTyped DEF InChain
<1>4. InChain(p)'
  <2>1. [type |-> "inv", inv |-> new] \in NodeMsg(h)
    BY <1>3 DEF NodeMsg
  <2>2. toNode'[p] \in Seq(NodeMsg(h))
    <3>1. toNode'[p] \in {toNode[p], Append(toNode[p], [type |-> "inv", inv |-> new])}
      BY DEF SyncInv, OfPeers
    <3> DEFINE m == [type |-> "inv", inv |-> new]
    <3> HIDE DEF m
    <3>2. toNode[p] \in Seq(NodeMsg(h)) /\ m \in NodeMsg(h)
      BY <1>2, <2>1 DEF InChain, m
    <3>3. Append(toNode[p], m) \in Seq(NodeMsg(h))
      BY <3>2, AppendProperties
    <3> QED
      BY <3>1, <3>2, <3>3 DEF m
  <2>3. setInventoryKnown'[p] \in SUBSET (1 .. h)
    <3>1. Range(new) \subseteq 1 .. h
      BY <1>3, RangeIn
    <3> QED
      BY <1>2, <3>1 DEF SyncInv, OfPeers, InChain
  <2>4. vInventoryToSend'[p] \in Seq(1 .. h)
    BY DEF SyncInv, OfPeers
  <2> QED
    BY <1>2, <2>2, <2>3, <2>4 DEF InChain
<1>5. ASSUME NEW q \in Peer, q # p PROVE InChain(q)'
  BY <1>5, Untouched DEF SyncInv, OfPeers
<1> QED
  BY <1>1, <1>4, <1>5 DEF SyncInv

\* What may be in a getblocks.
Place == Block \cup {Nothing}

LEMMA ForkIn ==
    ASSUME NEW p \in Peer, nHeight[p] \in Nat, NEW begin \in Place
    PROVE  Fork(p, begin) \in 0 .. nHeight[p] /\ Limit(p, begin) \in Nat \ {0}
<1>1. CASE begin = Nothing
  BY <1>1, SyncAssumption DEF Fork, Limit, DistanceBack
<1>2. CASE begin # Nothing
  <2>1. begin \in Nat
    BY <1>2 DEF Place, Block
  <2>2. Min({begin, nHeight[p]}) \in {begin, nHeight[p]} /\ Min({begin, nHeight[p]}) <= begin
          /\ Min({begin, nHeight[p]}) <= nHeight[p]
    BY <2>1, MinIn
  <2>3. Fork(p, begin) \in Nat /\ Fork(p, begin) <= begin /\ Fork(p, begin) <= nHeight[p]
    BY <1>2, <2>1, <2>2 DEF Fork
  <2> QED
    BY <1>2, <2>1, <2>3, SyncAssumption DEF Limit, DistanceBack
<1> QED
  BY <1>1, <1>2

\* The first message of a queue, and the rest.
LEMMA FirstMessage ==
    ASSUME NEW T, NEW s \in Seq(T), s # <<>>
    PROVE  Head(s) \in T /\ Tail(s) \in Seq(T)
  BY HeadTailProperties

LEMMA GetBlocksKeeps == ASSUME SyncInv, NEW p \in Peer, GetBlocks(p) PROVE SyncInv'
<1> USE DEF GetBlocks, nodeVars
<1> DEFINE h == nHeight[p]
           m == Head(toPeer[p])
           from == Fork(p, m.begin) + 1
           last == from + Limit(p, m.begin) - 1
           stop == IF m.stop > nHeight[p] \/ m.stop < from THEN nHeight[p] ELSE m.stop - 1
           bs == [i \in 1 .. Min({last, stop}) - from + 1 |-> from + i - 1]
<1>1. OfPeers' /\ HeldBlocks' /\ Counts'
  BY DEF SyncInv, OfPeers, HeldBlocks, Counts
<1>2. InChain(p) /\ h \in Nat
  BY SyncAssumption DEF SyncInv, OfPeers
<1>3. m \in PeerMsg(h) /\ Tail(toPeer[p]) \in Seq(PeerMsg(h))
  BY <1>2, FirstMessage DEF InChain
<1>4. m.begin \in Place /\ m.stop \in Place
  BY <1>3 DEF PeerMsg, Place
<1>5. /\ vInventoryToSend'[p] = Pushed(p, bs)
      /\ hashContinue'[p] = IF last <= stop THEN last ELSE hashContinue[p]
      /\ toPeer'[p] = Tail(toPeer[p])
  BY DEF SyncInv, OfPeers
<1> HIDE DEF m
<1>6. from \in 1 .. h + 1 /\ last \in Nat /\ last >= from
  BY <1>2, <1>4, ForkIn
<1>7. stop \in Nat /\ stop >= from - 1 /\ stop <= h
  <2>1. m.stop \in Int
    BY <1>4, SyncAssumption DEF Place, Block, Nothing
  <2> HIDE DEF from
  <2> QED
    BY <1>2, <1>6, <2>1
<1> HIDE DEF from, last, stop
<1>8. Min({last, stop}) \in Nat /\ Min({last, stop}) >= from - 1 /\ Min({last, stop}) <= h
  <2> DEFINE least == Min({last, stop})
  <2>1. least \in {last, stop} /\ least <= stop
    BY <1>6, <1>7, MinIn
  <2> HIDE DEF least
  <2>2. least \in Nat /\ least >= from - 1 /\ least <= h
    BY <1>2, <1>6, <1>7, <2>1
  <2> QED
    BY <2>2 DEF least
<1>9. bs \in Seq(1 .. h)
  <2> DEFINE n == Min({last, stop}) - from + 1
  <2>1. n \in Nat
    BY <1>6, <1>8
  <2>2. ASSUME NEW i \in 1 .. n PROVE from + i - 1 \in 1 .. h
    BY <1>2, <1>6, <1>8
  <2> HIDE DEF n
  <2>3. [i \in 1 .. n |-> from + i - 1] \in Seq(1 .. h)
    BY <2>1, <2>2
  <2> QED
    BY <2>3 DEF n
<1> HIDE DEF bs
<1>10. Pushed(p, bs) \in Seq(1 .. h)
  BY <1>2, <1>9, UnknownTyped, ConcatProperties DEF Pushed, InChain
<1>11. hashContinue'[p] \in {Nothing} \cup 1 .. h
  BY <1>2, <1>5, <1>6, <1>7 DEF InChain
<1>12. InChain(p)'
  BY <1>2, <1>3, <1>5, <1>10, <1>11 DEF InChain
<1>13. ASSUME NEW q \in Peer, q # p PROVE InChain(q)'
  BY <1>13, Untouched DEF SyncInv, OfPeers
<1> QED
  BY <1>1, <1>12, <1>13 DEF SyncInv

LEMMA GetDataKeeps == ASSUME SyncInv, NEW p \in Peer, GetData(p) PROVE SyncInv'
<1> DEFINE h == nHeight[p]
           inv == Head(toPeer[p]).inv
           Answer(b) == <<[type |-> "block", block |-> b]>>
                          \o (IF b = hashContinue[p] THEN Trigger(p) ELSE <<>>)
           as == [i \in 1 .. Len(inv) |-> Answer(inv[i])]
<1>1. OfPeers' /\ HeldBlocks' /\ Counts'
  BY DEF GetData, nodeVars, SyncInv, OfPeers, HeldBlocks, Counts
<1>2. InChain(p) /\ h \in Nat
  <2>1. InChain(p) /\ nHeight \in [Peer -> 0 .. Top]
    BY DEF SyncInv, OfPeers
  <2> QED
    BY <2>1, SyncAssumption
<1>3. inv \in Seq(1 .. h) /\ Tail(toPeer[p]) \in Seq(PeerMsg(h))
  <2>1. Head(toPeer[p]) \in PeerMsg(h) /\ Tail(toPeer[p]) \in Seq(PeerMsg(h))
    BY <1>2, FirstMessage DEF GetData, InChain
  <2>2. Head(toPeer[p]) \in [type : {"getdata"}, inv : Seq(1 .. h)]
    BY <2>1 DEF GetData, PeerMsg
  <2> QED
    BY <2>1, <2>2
<1>4. /\ toNode'[p] = toNode[p] \o FlattenSeq(as)
      /\ hashContinue'[p] \in {hashContinue[p], Nothing}
      /\ toPeer'[p] = Tail(toPeer[p])
      /\ UNCHANGED <<nHeight, vInventoryToSend, setInventoryKnown, mapAskFor>>
  BY DEF GetData, nodeVars, SyncInv, OfPeers
<1> HIDE DEF inv
<1>5. ASSUME NEW b \in 1 .. h PROVE Answer(b) \in Seq(NodeMsg(h))
  <2>1. [type |-> "block", block |-> b] \in NodeMsg(h)
    BY DEF NodeMsg
  <2>2. <<[type |-> "block", block |-> b]>> \in Seq(NodeMsg(h))
    BY <2>1
  <2>3. Trigger(p) \in Seq(NodeMsg(h))
    <3>1. <<h>> \in Seq(1 .. h)
      BY <1>2
    <3>2. [type |-> "inv", inv |-> <<h>>] \in NodeMsg(h)
      BY <3>1 DEF NodeMsg
    <3> QED
      BY <3>2 DEF Trigger
  <2> QED
    BY <2>2, <2>3, EmptySeq, ConcatProperties
<1> HIDE DEF Answer
<1>6. as \in Seq(Seq(NodeMsg(h)))
  <2>1. ASSUME NEW i \in 1 .. Len(inv) PROVE Answer(inv[i]) \in Seq(NodeMsg(h))
    BY <1>3, <1>5, ElementOfSeq
  <2>2. Len(inv) \in Nat
    BY <1>3
  <2> QED
    BY <2>1, <2>2, MembersOf
<1> HIDE DEF as
<1>7. toNode'[p] \in Seq(NodeMsg(h))
  <2>1. FlattenSeq(as) \in Seq(NodeMsg(h))
    BY <1>6, FlattenTyped
  <2>2. toNode[p] \in Seq(NodeMsg(h))
    BY <1>2 DEF InChain
  <2> QED
    BY <1>4, <2>1, <2>2, ConcatProperties
<1>8. InChain(p)'
  BY <1>2, <1>3, <1>4, <1>7 DEF InChain
<1>9. ASSUME NEW q \in Peer, q # p PROVE InChain(q)'
  BY <1>9, Untouched DEF GetData, nodeVars, SyncInv, OfPeers
<1> QED
  BY <1>1, <1>8, <1>9 DEF SyncInv

-----------------------------------------------------------------------------
(* The node                                                                *)

LEMMA BestPlace == ASSUME SyncInv PROVE pindexBest \in Place
<1> DEFINE S == have \cup {0}
<1>1. S \in SUBSET (0 .. Top) /\ S # {}
  BY SyncAssumption DEF SyncInv, HeldBlocks, Block
<1>2. Tip(have) \in S
  BY <1>1, MaxIn, SyncAssumption DEF Tip
<1>3. Tip(have) > Branch => Tip(have) \in Block
  BY <1>2, SyncAssumption DEF SyncInv, HeldBlocks
<1> QED
  BY <1>3 DEF pindexBest, Place

LEMMA RootPlace ==
    ASSUME NEW os \in SUBSET Block, NEW b \in os
    PROVE  OrphanRoot(b, os) \in Place
<1> DEFINE S == {r \in os : r .. b \subseteq os}
<1>1. b \in S /\ S \in SUBSET Nat
  <2>1. b \in Nat /\ b .. b = {b} /\ os \subseteq Nat
    BY DEF Block
  <2>2. b .. b \subseteq os
    BY <2>1
  <2> QED
    BY <2>1, <2>2
<1>2. Min(S) \in S
  BY <1>1, MinIn
<1> QED
  BY <1>2 DEF OrphanRoot, Place

\* What is sent are requests for places of the chain.
LEMMA SentTyped ==
    ASSUME NEW last, NEW ends \in Seq(Place), NEW best \in Place, NEW h
    PROVE  GetBlocksSent(last, ends, best).out \in Seq(PeerMsg(h))
<1> DEFINE asked == [i \in 0 .. Len(ends) |-> IF i = 0 THEN last ELSE <<best, ends[i]>>]
           Request(e) == [type |-> "getblocks", begin |-> best, stop |-> e]
           rs == [i \in 1 .. Len(ends) |-> IF asked[i] = asked[i - 1] THEN <<>> ELSE <<Request(ends[i])>>]
<1>1. GetBlocksSent(last, ends, best).out = FlattenSeq(rs)
  BY DEF GetBlocksSent
<1>2. ASSUME NEW e \in Place PROVE <<Request(e)>> \in Seq(PeerMsg(h))
  <2>1. Request(e) \in PeerMsg(h)
    BY DEF PeerMsg, Place
  <2> QED
    BY <2>1
<1> HIDE DEF asked, Request
<1>3. rs \in Seq(Seq(PeerMsg(h)))
  <2>1. ASSUME NEW i \in 1 .. Len(ends) PROVE rs[i] \in Seq(PeerMsg(h))
    <3>1. <<Request(ends[i])>> \in Seq(PeerMsg(h))
      BY <1>2, ElementOfSeq
    <3>2. rs[i] \in {<<>>, <<Request(ends[i])>>}
      OBVIOUS
    <3> QED
      BY <3>1, <3>2, EmptySeq
  <2>2. Len(ends) \in Nat /\ rs = [i \in 1 .. Len(ends) |-> rs[i]]
    OBVIOUS
  <2> HIDE DEF rs
  <2> QED
    BY <2>1, <2>2, MembersOf
<1> HIDE DEF rs
<1> QED
  BY <1>1, <1>3, FlattenTyped

LEMMA PushKeeps ==
    ASSUME SyncInv, NEW p \in Peer, NEW ends \in Seq(Place), PushGetBlocks(p, ends, pindexBest)
    PROVE  /\ DOMAIN toPeer' = Peer /\ toPeer'[p] \in Seq(PeerMsg(nHeight[p]))
           /\ \A q \in Peer \ {p} : toPeer'[q] = toPeer[q]
<1> DEFINE out == GetBlocksSent(lastGetBlocks[p], ends, pindexBest).out
<1>1. out \in Seq(PeerMsg(nHeight[p]))
  BY BestPlace, SentTyped
<1>2. toPeer' = [toPeer EXCEPT ![p] = @ \o out]
  BY DEF PushGetBlocks
<1> HIDE DEF out
<1>3. DOMAIN toPeer = Peer /\ toPeer[p] \in Seq(PeerMsg(nHeight[p]))
  BY DEF SyncInv, OfPeers, InChain
<1>4. toPeer[p] \o out \in Seq(PeerMsg(nHeight[p]))
  BY <1>1, <1>3, ConcatProperties
<1> QED
  BY <1>2, <1>3, <1>4

\* What is left when a message has been taken.
LEMMA TakenKeeps ==
    ASSUME SyncInv, NEW p \in Peer, NEW type, Received(p, type)
    PROVE  /\ Head(toNode[p]) \in NodeMsg(nHeight[p]) /\ Head(toNode[p]).type = type
           /\ DOMAIN toNode' = Peer /\ toNode'[p] \in Seq(NodeMsg(nHeight[p]))
           /\ \A q \in Peer \ {p} : toNode'[q] = toNode[q]
<1>1. toNode[p] \in Seq(NodeMsg(nHeight[p])) /\ DOMAIN toNode = Peer /\ toNode[p] # <<>>
  BY DEF SyncInv, OfPeers, InChain, Received
<1>2. Head(toNode[p]) \in NodeMsg(nHeight[p]) /\ Tail(toNode[p]) \in Seq(NodeMsg(nHeight[p]))
  BY <1>1, FirstMessage
<1> QED
  BY <1>1, <1>2 DEF Received

LEMMA VersionKeeps == ASSUME SyncInv, NEW p \in Peer, Version(p) PROVE SyncInv'
<1> USE DEF Version, peerVars
<1>1. /\ DOMAIN toNode' = Peer /\ toNode'[p] \in Seq(NodeMsg(nHeight[p]))
      /\ \A q \in Peer \ {p} : toNode'[q] = toNode[q]
  BY TakenKeeps
<1>2. /\ DOMAIN toPeer' = Peer /\ toPeer'[p] \in Seq(PeerMsg(nHeight[p]))
      /\ \A q \in Peer \ {p} : toPeer'[q] = toPeer[q]
  <2>1. CASE AsksForBlocks
    <3>1. <<Nothing>> \in Seq(Place)
      BY DEF Place
    <3> QED
      BY <2>1, <3>1, PushKeeps
  <2>2. CASE ~AsksForBlocks
    BY <2>2 DEF SyncInv, OfPeers, InChain
  <2> QED
    BY <2>1, <2>2
<1>3. OfPeers' /\ HeldBlocks'
  BY <1>1, <1>2 DEF SyncInv, OfPeers, HeldBlocks
<1>4. Counts'
  BY DEF SyncInv, Counts
<1>5. InChain(p)'
  BY <1>1, <1>2 DEF SyncInv, InChain
<1>6. ASSUME NEW q \in Peer, q # p PROVE InChain(q)'
  BY <1>1, <1>2, <1>6, Untouched
<1> QED
  BY <1>3, <1>4, <1>5, <1>6 DEF SyncInv

\* The time of the next request, and what stands in line by it.
LEMMA WaitIn ==
    ASSUME SyncInv, NEW b \in Block
    PROVE  Wait(b) \in 0 .. MaxWait
<1> DEFINE S == {nRequestTime[b] + 1, MaxWait}
<1>1. nRequestTime[b] \in Past .. MaxWait /\ MaxWait \in Nat
  BY SyncAssumption DEF SyncInv, Counts
<1>2. S \in SUBSET Nat /\ S # {}
  BY <1>1 DEF Past
<1> HIDE DEF S
<1>3. Min(S) \in S /\ \A y \in S : Min(S) <= y
  BY <1>2, MinIn
<1>4. Min(S) \in Nat /\ Min(S) <= MaxWait
  BY <1>2, <1>3 DEF S
<1> QED
  BY <1>1, <1>4 DEF Wait, S

LEMMA AskForKeeps ==
    ASSUME SyncInv, NEW p \in Peer, NEW inv \in Seq(1 .. nHeight[p]), AskFor(p, inv)
    PROVE  /\ DOMAIN mapAskFor' = Peer /\ mapAskFor'[p] \in [0 .. MaxWait -> Seq(1 .. nHeight[p])]
           /\ \A q \in Peer \ {p} : mapAskFor'[q] = mapAskFor[q]
           /\ nRequestTime' \in [Block -> Past .. MaxWait]
<1> DEFINE T == 1 .. nHeight[p]
           Due(w) == Those(inv, {b \in Block : Wait(b) = w})
           line == [w \in 0 .. MaxWait |-> mapAskFor[p][w] \o Due(w)]
<1>1. DOMAIN mapAskFor = Peer /\ mapAskFor[p] \in [0 .. MaxWait -> Seq(T)]
  BY DEF SyncInv, OfPeers, InChain
<1>2. mapAskFor' = [mapAskFor EXCEPT ![p] = line]
  BY DEF AskFor
<1>3. ASSUME NEW w \in 0 .. MaxWait PROVE mapAskFor[p][w] \o Due(w) \in Seq(T)
  <2> DEFINE U == T \cap {b \in Block : Wait(b) = w}
  <2>1. Due(w) \in Seq(U)
    BY ThoseTyped
  <2>2. U \subseteq T
    OBVIOUS
  <2> HIDE DEF U, T, Due
  <2>3. Due(w) \in Seq(T)
    BY <2>1, <2>2, SeqIn
  <2> QED
    BY <1>1, <2>3, ConcatProperties
<1> HIDE DEF T, Due
<1>4. line \in [0 .. MaxWait -> Seq(T)]
  BY <1>3
<1> HIDE DEF line
<1>5. /\ DOMAIN mapAskFor' = Peer /\ mapAskFor'[p] \in [0 .. MaxWait -> Seq(T)]
      /\ \A q \in Peer \ {p} : mapAskFor'[q] = mapAskFor[q]
  BY <1>1, <1>2, <1>4
<1>6. nRequestTime' \in [Block -> Past .. MaxWait]
  <2>1. nRequestTime \in [Block -> Past .. MaxWait]
    BY DEF SyncInv, Counts
  <2>2. nRequestTime' = [b \in Block |-> IF b \in Range(inv) THEN Wait(b) ELSE nRequestTime[b]]
    BY DEF AskFor
  <2>3. ASSUME NEW b \in Block PROVE Wait(b) \in Past .. MaxWait
    BY WaitIn, SyncAssumption DEF Past
  <2> QED
    BY <2>1, <2>2, <2>3
<1> QED
  BY <1>5, <1>6 DEF T

LEMMA InvKeeps == ASSUME SyncInv, NEW p \in Peer, Inv(p) PROVE SyncInv'
<1> USE DEF Inv, peerVars
<1> DEFINE h == nHeight[p]
           inv == Head(toNode[p]).inv
           held == Those(inv, orphans)
           ends == [i \in 1 .. Len(held) |-> OrphanRoot(held[i], orphans)]
<1>1. /\ DOMAIN toNode' = Peer /\ toNode'[p] \in Seq(NodeMsg(nHeight[p]))
      /\ \A q \in Peer \ {p} : toNode'[q] = toNode[q]
  BY TakenKeeps
<1>2. inv \in Seq(1 .. h)
  <2>1. Head(toNode[p]) \in NodeMsg(h) /\ Head(toNode[p]).type = "inv"
    BY TakenKeeps
  <2>2. Head(toNode[p]) \in [type : {"inv"}, inv : Seq(1 .. h)]
    BY <2>1 DEF NodeMsg
  <2> QED
    BY <2>2
<1>3. AskFor(p, Lacking(inv)) /\ PushGetBlocks(p, ends, pindexBest)
  OBVIOUS
<1> HIDE DEF inv
<1>4. Lacking(inv) \in Seq(1 .. h)
  <2> DEFINE U == (1 .. h) \cap (Block \ (have \cup orphans))
  <2>1. Lacking(inv) \in Seq(U) /\ U \subseteq 1 .. h
    BY <1>2, ThoseTyped DEF Lacking
  <2> HIDE DEF U
  <2> QED
    BY <2>1, SeqIn
<1>5. /\ DOMAIN mapAskFor' = Peer /\ mapAskFor'[p] \in [0 .. MaxWait -> Seq(1 .. h)]
      /\ \A q \in Peer \ {p} : mapAskFor'[q] = mapAskFor[q]
      /\ nRequestTime' \in [Block -> Past .. MaxWait]
  BY <1>3, <1>4, AskForKeeps
<1>6. ends \in Seq(Place)
  <2>1. held \in Seq((1 .. h) \cap orphans)
    BY <1>2, ThoseTyped
  <2> HIDE DEF held
  <2>2. Len(held) \in Nat
    BY <2>1
  <2>3. ASSUME NEW i \in 1 .. Len(held) PROVE OrphanRoot(held[i], orphans) \in Place
    <3>1. held[i] \in (1 .. h) \cap orphans
      BY <2>1, ElementOfSeq
    <3> QED
      BY <3>1, RootPlace DEF SyncInv, HeldBlocks
  <2> QED
    BY <2>2, <2>3, MembersOf
<1>7. /\ DOMAIN toPeer' = Peer /\ toPeer'[p] \in Seq(PeerMsg(nHeight[p]))
      /\ \A q \in Peer \ {p} : toPeer'[q] = toPeer[q]
  BY <1>3, <1>6, PushKeeps
<1>8. OfPeers' /\ HeldBlocks' /\ Counts'
  BY <1>1, <1>5, <1>7 DEF SyncInv, OfPeers, HeldBlocks, Counts
<1>9. InChain(p)'
  BY <1>1, <1>5, <1>7 DEF SyncInv, InChain
<1>10. ASSUME NEW q \in Peer, q # p PROVE InChain(q)'
  BY <1>1, <1>5, <1>7, <1>10, Untouched
<1> QED
  BY <1>8, <1>9, <1>10 DEF SyncInv

LEMMA SendGetDataKeeps == ASSUME SyncInv, NEW p \in Peer, SendGetData(p) PROVE SyncInv'
<1> USE DEF SendGetData, peerVars
<1> DEFINE h == nHeight[p]
           lacking == Lacking(mapAskFor[p][0])
           m == [type |-> "getdata", inv |-> lacking]
<1>2. /\ DOMAIN mapAskFor = Peer /\ mapAskFor[p] \in [0 .. MaxWait -> Seq(1 .. h)]
      /\ DOMAIN toPeer = Peer /\ toPeer[p] \in Seq(PeerMsg(h))
  BY DEF SyncInv, OfPeers, InChain
<1>3. mapAskFor[p][0] \in Seq(1 .. h)
  <2>1. 0 \in 0 .. MaxWait
    BY SyncAssumption
  <2> HIDE DEF h
  <2> QED
    BY <1>2, <2>1
<1>4. lacking \in Seq(1 .. h)
  <2> DEFINE U == (1 .. h) \cap (Block \ (have \cup orphans))
  <2>1. lacking \in Seq(U) /\ U \subseteq 1 .. h
    BY <1>3, ThoseTyped DEF Lacking
  <2> HIDE DEF U, lacking
  <2> QED
    BY <2>1, SeqIn
<1>5. toPeer' \in {toPeer, [toPeer EXCEPT ![p] = Append(@, m)]}
  OBVIOUS
<1> HIDE DEF lacking
<1>6. m \in PeerMsg(h)
  BY <1>4 DEF PeerMsg
<1> HIDE DEF m
<1>7. Append(toPeer[p], m) \in Seq(PeerMsg(h))
  BY <1>2, <1>6, AppendProperties
<1>8. /\ DOMAIN toPeer' = Peer /\ toPeer'[p] \in Seq(PeerMsg(h))
      /\ \A q \in Peer \ {p} : toPeer'[q] = toPeer[q]
  BY <1>2, <1>5, <1>7
<1>9. /\ DOMAIN mapAskFor' = Peer /\ mapAskFor'[p] \in [0 .. MaxWait -> Seq(1 .. h)]
       /\ \A q \in Peer \ {p} : mapAskFor'[q] = mapAskFor[q]
  <2>1. mapAskFor' = [mapAskFor EXCEPT ![p][0] = <<>>]
    OBVIOUS
  <2>2. <<>> \in Seq(1 .. h)
    OBVIOUS
  <2> QED
    BY <1>2, <2>1, <2>2
<1>10. OfPeers' /\ HeldBlocks' /\ Counts'
  BY <1>8, <1>9 DEF SyncInv, OfPeers, HeldBlocks, Counts
<1>11. InChain(p)'
  BY <1>8, <1>9 DEF SyncInv, InChain
<1>12. ASSUME NEW q \in Peer, q # p PROVE InChain(q)'
  BY <1>8, <1>9, <1>12, Untouched
<1> QED
  BY <1>10, <1>11, <1>12 DEF SyncInv

LEMMA TwoMinutesKeeps == ASSUME SyncInv, TwoMinutes PROVE SyncInv'
<1> USE DEF TwoMinutes, peerVars
<1>1. nRequestTime' \in [Block -> Past .. MaxWait]
  <2>1. nRequestTime \in [Block -> Past .. MaxWait]
    BY DEF SyncInv, Counts
  <2>2. ASSUME NEW x \in Past .. MaxWait PROVE (IF x = Past THEN Past ELSE x - 1) \in Past .. MaxWait
    BY SyncAssumption DEF Past
  <2>3. nRequestTime' = [b \in Block |-> IF nRequestTime[b] = Past THEN Past ELSE nRequestTime[b] - 1]
    OBVIOUS
  <2> QED
    BY <2>1, <2>2, <2>3
<1>2. OfPeers' /\ HeldBlocks' /\ Counts'
  BY <1>1 DEF SyncInv, OfPeers, HeldBlocks, Counts
<1>3. ASSUME NEW q \in Peer PROVE InChain(q)'
  <2> DEFINE T == 1 .. nHeight[q]
             Now(w) == IF w = 0 THEN mapAskFor[q][0] ELSE <<>>
             Soon(w) == IF w < MaxWait THEN mapAskFor[q][w + 1] ELSE <<>>
  <2>1. mapAskFor[q] \in [0 .. MaxWait -> Seq(T)]
    BY DEF SyncInv, InChain
  <2> HIDE DEF T
  <2>2. ASSUME NEW w \in 0 .. MaxWait PROVE Now(w) \o Soon(w) \in Seq(T)
    <3>1. Now(w) \in Seq(T)
      BY <2>1, EmptySeq
    <3>2. Soon(w) \in Seq(T)
      <4>1. w < MaxWait => w + 1 \in 0 .. MaxWait
        BY SyncAssumption
      <4> QED
        BY <2>1, <4>1, EmptySeq
    <3> HIDE DEF Now, Soon
    <3> QED
      BY <3>1, <3>2, ConcatProperties
  <2>3. mapAskFor'[q] = [w \in 0 .. MaxWait |-> Now(w) \o Soon(w)]
    OBVIOUS
  <2> HIDE DEF Now, Soon
  <2>4. mapAskFor'[q] \in [0 .. MaxWait -> Seq(T)]
    BY <2>2, <2>3
  <2> QED
    BY <2>4 DEF SyncInv, InChain, T
<1> QED
  BY <1>2, <1>3 DEF SyncInv

\* A block whose parent is there brings the orphans that follow it, and no others wait for
\* what is there then.
LEMMA LinkedHeld ==
    ASSUME HeldBlocks, NEW b \in Block, b \notin have \cup orphans, b - 1 \in have \cup {0},
           have' = have \cup Linked(b), orphans' = orphans \ Linked(b)
    PROVE  HeldBlocks'
<1> DEFINE S == {c \in b .. Top : b + 1 .. c \subseteq orphans}
           last == Max(S)
<1>1. b \in Nat /\ b >= 1 /\ b <= Top /\ Top \in Nat
  BY SyncAssumption DEF Block
<1>2. b \in S
  <2>1. b + 1 .. b = {} /\ b \in b .. Top
    BY <1>1
  <2> QED
    BY <2>1
<1>3. S \in SUBSET (0 .. Top)
  BY <1>1
<1>4. last \in S /\ \A c \in S : c <= last
  BY <1>1, <1>2, <1>3, MaxIn
<1>5. Linked(b) = b .. last
  BY DEF Linked
<1>6. last \in b .. Top /\ b + 1 .. last \subseteq orphans
  BY <1>4
<1>7. last + 1 \notin orphans
  <2> SUFFICES ASSUME last + 1 \in orphans PROVE FALSE
    OBVIOUS
  <2>1. last + 1 \in b .. Top
    BY <1>1, <1>6 DEF HeldBlocks, Block
  <2>2. \A d \in b + 1 .. last + 1 : d \in b + 1 .. last \/ d = last + 1
    BY <1>1, <1>6
  <2>3. last + 1 \in S
    BY <1>6, <2>1, <2>2
  <2>4. last + 1 <= last
    BY <1>4, <2>3
  <2> QED
    BY <1>1, <1>6, <2>4
<1> HIDE DEF last
<1>8. have' \in SUBSET Block /\ orphans' \in SUBSET Block /\ have' \cap orphans' = {}
  BY <1>1, <1>5, <1>6 DEF HeldBlocks, Block
<1>9. 1 .. b - 1 \subseteq have
  BY <1>1 DEF HeldBlocks
<1>10. ASSUME NEW c \in have' PROVE 1 .. c \subseteq have'
  <2>1. CASE c \in have
    BY <2>1 DEF HeldBlocks
  <2>2. CASE c \in b .. last
    <3> SUFFICES ASSUME NEW d \in 1 .. c PROVE d \in have'
      OBVIOUS
    <3>1. d \in 1 .. b - 1 \/ d \in b .. last
      BY <1>1, <1>6, <2>2
    <3> QED
      BY <1>5, <1>9, <3>1
  <2> QED
    BY <1>5, <2>1, <2>2
<1>11. ASSUME NEW c \in orphans' PROVE c - 1 \notin have' \cup {0}
  <2>1. c \in orphans /\ c \notin b .. last /\ c \in Int
    BY <1>5, <1>11 DEF HeldBlocks, Block
  <2>2. c - 1 \notin have \cup {0}
    BY <2>1 DEF HeldBlocks
  <2>3. c # last + 1
    BY <1>7, <2>1
  <2>4. c # b
    BY <2>1
  <2>5. c - 1 \notin b .. last
    BY <1>1, <1>6, <2>1, <2>3
  <2> QED
    BY <1>5, <2>2, <2>5
<1> QED
  BY <1>8, <1>10, <1>11 DEF HeldBlocks

LEMMA GotBlockKeeps == ASSUME SyncInv, NEW p \in Peer, GotBlock(p) PROVE SyncInv'
<1> USE DEF GotBlock, peerVars
<1> DEFINE h == nHeight[p]
           b == Head(toNode[p]).block
<1>1. /\ DOMAIN toNode' = Peer /\ toNode'[p] \in Seq(NodeMsg(nHeight[p]))
      /\ \A q \in Peer \ {p} : toNode'[q] = toNode[q]
  BY TakenKeeps
<1>2. b \in 1 .. h /\ b \in Block
  <2>1. Head(toNode[p]) \in NodeMsg(h) /\ Head(toNode[p]).type = "block"
    BY TakenKeeps
  <2>2. b \in 1 .. h /\ h \in 0 .. Top
    BY <2>1 DEF NodeMsg, SyncInv, OfPeers
  <2> QED
    BY <2>2, SyncAssumption DEF Block
<1>3. /\ HeldBlocks'
      /\ DOMAIN toPeer' = Peer /\ toPeer'[p] \in Seq(PeerMsg(nHeight[p]))
      /\ \A q \in Peer \ {p} : toPeer'[q] = toPeer[q]
  <2>1. HeldBlocks /\ DOMAIN toPeer = Peer /\ toPeer[p] \in Seq(PeerMsg(nHeight[p]))
    BY DEF SyncInv, OfPeers, InChain
  <2>2. CASE AlreadyHave(b)
    BY <2>1, <2>2 DEF HeldBlocks
  <2>3. CASE ~AlreadyHave(b) /\ b - 1 \in have \cup {0}
    <3>1. have' = have \cup Linked(b) /\ orphans' = orphans \ Linked(b) /\ UNCHANGED toPeer
      BY <2>3
    <3> HIDE DEF b
    <3>2. HeldBlocks'
      BY <1>2, <2>1, <2>3, <3>1, LinkedHeld DEF AlreadyHave
    <3> QED
      BY <2>1, <3>1, <3>2
  <2>4. CASE ~AlreadyHave(b) /\ b - 1 \notin have \cup {0}
    <3>1. /\ orphans' = orphans \cup {b} /\ UNCHANGED have
          /\ PushGetBlocks(p, <<OrphanRoot(b, orphans')>>, pindexBest)
      BY <2>4
    <3> HIDE DEF b
    <3>2. HeldBlocks'
      BY <1>2, <2>1, <2>4, <3>1 DEF AlreadyHave, HeldBlocks, Block
    <3>3. OrphanRoot(b, orphans') \in Place
      <4>1. orphans' \in SUBSET Block /\ b \in orphans'
        BY <1>2, <2>1, <3>1 DEF HeldBlocks
      <4> QED
        BY <4>1, RootPlace
    <3>4. <<OrphanRoot(b, orphans')>> \in Seq(Place)
      BY <3>3
    <3> QED
      BY <3>1, <3>2, <3>4, PushKeeps
  <2> QED
    BY <2>2, <2>3, <2>4
<1>4. OfPeers' /\ Counts'
  <2>1. nRequestTime' \in [Block -> Past .. MaxWait]
    <3>1. nRequestTime \in [Block -> Past .. MaxWait] /\ Past \in Past .. MaxWait
      BY SyncAssumption DEF SyncInv, Counts, Past
    <3>2. nRequestTime' = nRequestTime \/ nRequestTime' = [nRequestTime EXCEPT ![b] = Past]
      OBVIOUS
    <3> QED
      BY <3>1, <3>2
  <2> QED
    BY <1>1, <1>3, <2>1 DEF SyncInv, OfPeers, Counts
<1>5. InChain(p)'
  BY <1>1, <1>3 DEF SyncInv, InChain
<1>6. ASSUME NEW q \in Peer, q # p PROVE InChain(q)'
  BY <1>1, <1>3, <1>6, Untouched
<1> QED
  BY <1>3, <1>4, <1>5, <1>6 DEF SyncInv

LEMMA SyncNext == SyncInv /\ [Next]_syncVars => SyncInv'
<1>1. SyncInv /\ UNCHANGED syncVars => SyncInv'
  BY DEF syncVars, peerVars, nodeVars, SyncInv, OfPeers, InChain, HeldBlocks, Counts
<1>2. ASSUME SyncInv, NEW p \in Peer, Work(p) \/ Drop(p) PROVE SyncInv'
  BY <1>2, ConnectKeeps, DropKeeps, GrowKeeps, SendInventoryKeeps, GetBlocksKeeps, GetDataKeeps,
     VersionKeeps, InvKeeps, SendGetDataKeeps, GotBlockKeeps DEF Work, PeerStep, NodeStep
<1> QED
  BY <1>1, <1>2, TwoMinutesKeeps DEF Next, Progress

-----------------------------------------------------------------------------
(* Addresses                                                               *)

\* The ages of addresses in a file, and in memory, where some may be blank.
GoodBook(book, n) ==
    /\ DOMAIN book \in SUBSET (Public \ {n})
    /\ \A a \in DOMAIN book : book[a] \in Fresh .. Old
Fits(book, n, none) ==
    /\ DOMAIN book \in SUBSET (Node \ {n})
    /\ \A a \in DOMAIN book : book[a] \in Fresh .. Old
    /\ none \in SUBSET DOMAIN book /\ DOMAIN book \ none \in SUBSET Public

\* A node's memory and its file.
Kept(book, n, none, file) ==
    /\ Fits(book, n, none) /\ GoodBook(file, n)
    /\ \A a \in DOMAIN book \ none : a \in DOMAIN file /\ book[a] = file[a]

Books ==
    /\ DOMAIN mapAddresses = Node /\ DOMAIN addrdb = Node /\ DOMAIN blank = Node
    /\ \A n \in Node : Kept(mapAddresses[n], n, blank[n], addrdb[n])

AddrMsg == [type : {"addr"}, addr : SUBSET Public] \cup [type : {"getaddr"}]

Links ==
    /\ online \in SUBSET Node /\ unasked \in SUBSET online /\ toTry \in SUBSET Configured
    /\ links \in SUBSET (online \X online) /\ opening \in SUBSET links
    /\ setAddrKnown \in SUBSET (Connected \X Public) /\ vAddrToSend \in SUBSET (Connected \X Public)
    /\ DOMAIN sent = Connected /\ \A l \in Connected : sent[l] \in Seq(AddrMsg)

AddrInv == Books /\ Links

LEMMA AddrInvTypes == AddrInv => AddressesTypeOK
<1> SUFFICES ASSUME AddrInv, NEW n \in Node PROVE
         /\ blank[n] \subseteq DOMAIN mapAddresses[n]
         /\ DOMAIN mapAddresses[n] \subseteq Node \ {n}
         /\ DOMAIN addrdb[n] \subseteq Public \ {n}
         /\ \A a \in DOMAIN addrdb[n] : addrdb[n][a] \in Fresh .. Old
         /\ \A a \in blank[n] : mapAddresses[n][a] \in Fresh .. Old
         /\ \A a \in Held(n) : a \in DOMAIN addrdb[n] /\ mapAddresses[n][a] = addrdb[n][a]
  BY DEF AddrInv, Links, AddressesTypeOK
<1>1. Kept(mapAddresses[n], n, blank[n], addrdb[n])
  BY DEF AddrInv, Books
<1> QED
  BY <1>1 DEF Kept, Fits, GoodBook, Held

LEMMA AddedAges ==
    ASSUME NEW n, NEW book, \A a \in DOMAIN book : book[a] \in Fresh .. Old, NEW as, NEW age \in Fresh .. Old
    PROVE  /\ DOMAIN AddAddress(book, n, as, age) = DOMAIN book \cup (as \ {n})
           /\ \A a \in DOMAIN AddAddress(book, n, as, age) : AddAddress(book, n, as, age)[a] \in Fresh .. Old
<1> DEFINE new == AddAddress(book, n, as, age)
<1>1. DOMAIN new = DOMAIN book \cup (as \ {n})
  BY DEF AddAddress
<1>2. ASSUME NEW a \in DOMAIN new PROVE new[a] \in Fresh .. Old
  <2>1. CASE a \notin DOMAIN book
    BY <1>1, <1>2, <2>1 DEF AddAddress
  <2>2. CASE a \in DOMAIN book /\ a \in as
    <3>1. age \in Nat /\ book[a] \in Nat
      BY <2>2 DEF Fresh, Old
    <3>2. Min({age, book[a]}) \in {age, book[a]}
      BY <3>1, MinIn
    <3>3. new[a] = Min({age, book[a]})
      BY <1>1, <1>2, <2>2 DEF AddAddress
    <3> QED
      BY <2>2, <3>2, <3>3
  <2>3. CASE a \in DOMAIN book /\ a \notin as
    BY <1>1, <1>2, <2>3 DEF AddAddress
  <2> QED
    BY <2>1, <2>2, <2>3
<1> QED
  BY <1>1, <1>2

LEMMA AddedBook ==
    ASSUME NEW n, NEW book, NEW none, Fits(book, n, none), NEW as \in SUBSET Public, NEW age \in Fresh .. Old
    PROVE  Fits(AddAddress(book, n, as, age), n, none)
<1> DEFINE new == AddAddress(book, n, as, age)
<1>1. /\ DOMAIN new = DOMAIN book \cup (as \ {n})
      /\ \A a \in DOMAIN new : new[a] \in Fresh .. Old
  BY AddedAges DEF Fits
<1> HIDE DEF new
<1>2. Fits(new, n, none)
  BY <1>1, AddressesAssumption DEF Fits
<1> QED
  BY <1>2 DEF new

LEMMA SeenBook ==
    ASSUME NEW n, NEW book, NEW none, Fits(book, n, none), NEW p
    PROVE  Fits(Seen(book, p), n, none)
  BY DEF Seen, Fits, Fresh, Old

\* What changes one node's memory or file.
LEMMA OneBook ==
    ASSUME Books, NEW n \in Node, Kept(mapAddresses'[n], n, blank'[n], addrdb'[n]),
           DOMAIN mapAddresses' = Node, DOMAIN addrdb' = Node, DOMAIN blank' = Node,
           \A m \in Node : m # n => /\ mapAddresses'[m] = mapAddresses[m] /\ addrdb'[m] = addrdb[m]
                                    /\ blank'[m] = blank[m]
    PROVE  Books'
<1>1. ASSUME NEW m \in Node PROVE Kept(mapAddresses'[m], m, blank'[m], addrdb'[m])
  <2>1. CASE m = n
    BY <2>1
  <2>2. CASE m # n
    <3>1. Kept(mapAddresses[m], m, blank[m], addrdb[m])
      BY DEF Books
    <3>2. /\ mapAddresses'[m] = mapAddresses[m] /\ addrdb'[m] = addrdb[m]
          /\ blank'[m] = blank[m]
      BY <2>2
    <3> QED
      BY <3>1, <3>2, Zenon
  <2> QED
    BY <2>1, <2>2
<1>2. \A m \in Node : Kept(mapAddresses'[m], m, blank'[m], addrdb'[m])
  BY <1>1
<1>3. DOMAIN mapAddresses' = Node /\ DOMAIN addrdb' = Node /\ DOMAIN blank' = Node
  OBVIOUS
<1> HIDE DEF Kept
<1> QED
  BY <1>2, <1>3 DEF Books, Kept, Fits, GoodBook

LEMMA WrittenBook ==
    ASSUME Books, NEW n \in Node, NEW book, Fits(book, n, blank[n])
    PROVE  Kept(book, n, blank[n], Written(n, book))
<1> DEFINE held == DOMAIN book \ blank[n]
           file == Written(n, book)
<1>1. file = [a \in DOMAIN addrdb[n] \cup held |-> IF a \in held THEN book[a] ELSE addrdb[n][a]]
  BY DEF Written
<1>2. GoodBook(addrdb[n], n)
  BY DEF Books, Kept
<1>3. held \in SUBSET (Public \ {n}) /\ \A a \in held : book[a] \in Fresh .. Old
  BY DEF Fits
<1> HIDE DEF held, file
<1>4. GoodBook(file, n)
  BY <1>1, <1>2, <1>3 DEF GoodBook
<1>5. \A a \in held : a \in DOMAIN file /\ book[a] = file[a]
  BY <1>1
<1> QED
  BY <1>4, <1>5 DEF Kept, held, file

LEMMA HoldsKeeps ==
    ASSUME Books, NEW n \in Node, NEW book, Fits(book, n, blank[n]), Holds(n, book)
    PROVE  Books'
<1> DEFINE file == Written(n, book)
<1>1. /\ mapAddresses' = [mapAddresses EXCEPT ![n] = book] /\ blank' = blank
      /\ addrdb' = [addrdb EXCEPT ![n] = file]
  BY DEF Holds
<1>2. Kept(book, n, blank[n], file)
  BY WrittenBook
<1> HIDE DEF file
<1>3. /\ DOMAIN mapAddresses' = Node /\ DOMAIN addrdb' = Node /\ DOMAIN blank' = Node
      /\ mapAddresses'[n] = book /\ addrdb'[n] = file /\ blank'[n] = blank[n]
      /\ \A m \in Node : m # n => /\ mapAddresses'[m] = mapAddresses[m] /\ addrdb'[m] = addrdb[m]
                                  /\ blank'[m] = blank[m]
  BY <1>1 DEF Books
<1>4. Kept(mapAddresses'[n], n, blank'[n], addrdb'[n])
  BY <1>2, <1>3, Zenon
<1> QED
  BY <1>3, <1>4, OneBook

LEMMA AddressesStart == AddressesInit => AddrInv
<1> SUFFICES ASSUME AddressesInit PROVE AddrInv
  OBVIOUS
<1>1. PICK s \in Situations :
         /\ online = s.online /\ links = s.links
         /\ unasked = s.started \ ConnectOnly
         /\ toTry = {l \in Configured : l[1] \in s.started \cup (s.online \cap ConnectOnly)}
         /\ addrdb = [n \in Node |-> IF n \in s.online \ s.started
                                     THEN AddAddress(<<>>, n, InDNS, Old) ELSE <<>>]
  BY DEF AddressesInit
<1>2. /\ s.started \subseteq s.online /\ s.online \subseteq Node
      /\ s.links \subseteq s.online \X s.online /\ \A l \in s.links : l[1] # l[2]
  BY AddressesAssumption
<1>3. /\ online \in SUBSET Node /\ unasked \in SUBSET online /\ toTry \in SUBSET Configured
      /\ links \in SUBSET (online \X online)
  BY <1>1, <1>2
<1>4. Links
  BY <1>3 DEF AddressesInit, Links
<1>5. ASSUME NEW n \in Node PROVE GoodBook(addrdb[n], n)
  <2>1. \A a \in DOMAIN <<>> : <<>>[a] \in Fresh .. Old
    OBVIOUS
  <2>2. InDNS \in SUBSET Public /\ Old \in Fresh .. Old
    BY AddressesAssumption DEF Fresh, Old
  <2> DEFINE new == AddAddress(<<>>, n, InDNS, Old)
  <2>3. DOMAIN new = DOMAIN <<>> \cup (InDNS \ {n}) /\ \A a \in DOMAIN new : new[a] \in Fresh .. Old
    BY <2>1, <2>2, AddedAges
  <2> HIDE DEF new
  <2>4. GoodBook(new, n) /\ GoodBook(<<>>, n)
    BY <2>1, <2>2, <2>3 DEF GoodBook
  <2>5. addrdb[n] \in {<<>>, new}
    BY <1>1 DEF new
  <2> QED
    BY <2>4, <2>5
<1>6. ASSUME NEW n \in Node PROVE n \notin OpenedTo(n) /\ OpenedTo(n) \in SUBSET Node
  <2>1. n \notin OpenedTo(n)
    BY <1>1, <1>2 DEF OpenedTo
  <2> QED
    BY <2>1 DEF OpenedTo
<1>7. /\ DOMAIN mapAddresses = Node /\ DOMAIN addrdb = Node /\ DOMAIN blank = Node
      /\ \A n \in Node : /\ blank[n] = OpenedTo(n) \ DOMAIN addrdb[n]
                         /\ mapAddresses[n] = [a \in DOMAIN addrdb[n] \cup blank[n] |->
                                IF a \in DOMAIN addrdb[n] THEN addrdb[n][a] ELSE Fresh]
  BY <1>1 DEF AddressesInit
<1>8. ASSUME NEW n \in Node PROVE Kept(mapAddresses[n], n, blank[n], addrdb[n])
  <2> DEFINE file == addrdb[n]
             none == OpenedTo(n) \ DOMAIN file
             book == [a \in DOMAIN file \cup none |-> IF a \in DOMAIN file THEN file[a] ELSE Fresh]
  <2>1. GoodBook(file, n) /\ none \in SUBSET (Node \ {n}) /\ none \cap DOMAIN file = {}
    BY <1>5, <1>6
  <2>2. mapAddresses[n] = book /\ blank[n] = none
    BY <1>7
  <2> HIDE DEF file, none
  <2>3. Kept(book, n, none, file)
    BY <2>1, AddressesAssumption DEF Kept, Fits, GoodBook, Fresh, Old
  <2> QED
    BY <2>2, <2>3 DEF file
<1>9. Books
  BY <1>7, <1>8 DEF Books
<1> QED
  BY <1>4, <1>9 DEF AddrInv

\* Steps that touch no book, or nothing else.
LEMMA BooksStay == ASSUME Books, UNCHANGED bookVars PROVE Books'
  BY DEF Books, bookVars

LEMMA LinksStay ==
    ASSUME Links, UNCHANGED <<online, startVars, links, opening, setAddrKnown, vAddrToSend, sent>>
    PROVE  Links'
  BY DEF Links, Connected, startVars

LEMMA IrcNameKeeps == ASSUME AddrInv, NEW n \in Irc, NEW p \in Irc, IrcName(n, p) PROVE AddrInv'
<1>1. n \in Node /\ {p} \in SUBSET Public /\ Fresh \in Fresh .. Old
  BY AddressesAssumption DEF IrcName, Fresh, Old
<1>2. Fits(AddAddress(mapAddresses[n], n, {p}, Fresh), n, blank[n])
  BY <1>1, AddedBook DEF AddrInv, Books, Kept
<1>3. Books'
  BY <1>1, <1>2, HoldsKeeps DEF AddrInv, IrcName
<1>4. Links'
  BY LinksStay DEF AddrInv, IrcName, peerVars_
<1> QED
  BY <1>3, <1>4 DEF AddrInv

LEMMA QueryDNSSeedsKeeps == ASSUME AddrInv, NEW n \in Node, QueryDNSSeeds(n) PROVE AddrInv'
<1>1. InDNS \in SUBSET Public /\ Old \in Fresh .. Old
  BY AddressesAssumption DEF Fresh, Old
<1>2. Fits(AddAddress(mapAddresses[n], n, InDNS, Old), n, blank[n])
  BY <1>1, AddedBook DEF AddrInv, Books, Kept
<1>3. Books'
  BY <1>1, <1>2, HoldsKeeps DEF AddrInv, QueryDNSSeeds
<1>4. Links'
  BY DEF AddrInv, Links, QueryDNSSeeds, peerVars_, Connected
<1> QED
  BY <1>3, <1>4 DEF AddrInv

LEMMA CleanupKeeps == ASSUME AddrInv, NEW n \in Node, Cleanup(n) PROVE AddrInv'
<1> DEFINE gone == Expired(mapAddresses[n])
           left == Restrict(mapAddresses[n], DOMAIN mapAddresses[n] \ gone)
           none == blank[n] \ gone
<1>1. /\ mapAddresses' = [mapAddresses EXCEPT ![n] = left] /\ UNCHANGED addrdb
      /\ blank' = [blank EXCEPT ![n] = none]
  BY DEF Cleanup
<1>2. /\ DOMAIN left = DOMAIN mapAddresses[n] \ gone
      /\ \A a \in DOMAIN left : left[a] = mapAddresses[n][a]
  BY DEF Restrict
<1> HIDE DEF left, gone
<1>3. Kept(left, n, none, addrdb[n])
  BY <1>2 DEF AddrInv, Books, Kept, Fits
<1> HIDE DEF none
<1>4. /\ DOMAIN mapAddresses' = Node /\ DOMAIN addrdb' = Node /\ DOMAIN blank' = Node
      /\ mapAddresses'[n] = left /\ addrdb'[n] = addrdb[n] /\ blank'[n] = none
      /\ \A m \in Node : m # n => /\ mapAddresses'[m] = mapAddresses[m] /\ addrdb'[m] = addrdb[m]
                                  /\ blank'[m] = blank[m]
  BY <1>1 DEF AddrInv, Books
<1>5. Kept(mapAddresses'[n], n, blank'[n], addrdb'[n])
  BY <1>3, <1>4, Zenon
<1>6. Books'
  BY <1>4, <1>5, OneBook DEF AddrInv
<1>7. Links'
  BY LinksStay DEF AddrInv, Cleanup, peerVars_
<1> QED
  BY <1>6, <1>7 DEF AddrInv

LEMMA HeardKeeps == ASSUME AddrInv, NEW n, NEW p, Heard(n, p) PROVE AddrInv'
<1>1. n \in Node
  BY DEF Heard, AddrInv, Links
<1>2. Fits(Seen(mapAddresses[n], p), n, blank[n])
  BY <1>1, SeenBook DEF AddrInv, Books, Kept
<1>3. Books'
  BY <1>1, <1>2, HoldsKeeps DEF AddrInv, Heard
<1>4. Links'
  BY LinksStay DEF AddrInv, Heard, peerVars_
<1> QED
  BY <1>3, <1>4 DEF AddrInv

\* What a connection that is opened adds, and what an attempt does to the memory.
LinksOnly ==
    /\ online \in SUBSET Node
    /\ links \in SUBSET (online \X online) /\ opening \in SUBSET links
    /\ setAddrKnown \in SUBSET (Connected \X Public) /\ vAddrToSend \in SUBSET (Connected \X Public)
    /\ DOMAIN sent = Connected /\ \A l \in Connected : sent[l] \in Seq(AddrMsg)

FirstSent(n) == (IF n \in Public THEN <<Addr({n})>> ELSE <<>>) \o <<[type |-> "getaddr"]>>
LEMMA OpenedLinks ==
    ASSUME Links, NEW n \in online, NEW p \in online,
           links' = links \cup {<<n, p>>}, opening' = opening \cup {<<n, p>>},
           sent' = [l \in DOMAIN sent \cup {<<n, p>>, <<p, n>>} |->
                       CASE l = <<n, p>> -> FirstSent(n) [] l = <<p, n>> -> <<>> [] OTHER -> sent[l]],
           UNCHANGED <<online, setAddrKnown, vAddrToSend>>
    PROVE  LinksOnly'
<1> DEFINE first == FirstSent(n)
<1>2. /\ links' = links \cup {<<n, p>>} /\ opening' = opening \cup {<<n, p>>}
      /\ UNCHANGED <<online, setAddrKnown, vAddrToSend>>
  OBVIOUS
<1>3. Connected' = Connected \cup {<<n, p>>, <<p, n>>}
  <2> DEFINE Back(ls) == {<<l[2], l[1]>> : l \in ls}
  <2>1. Back(links \cup {<<n, p>>}) = Back(links) \cup {<<p, n>>}
    <3> DEFINE x == <<n, p>>
    <3>1. x[1] = n /\ x[2] = p
      OBVIOUS
    <3> HIDE DEF x
    <3>2. Back(links \cup {x}) = Back(links) \cup {<<x[2], x[1]>>}
      OBVIOUS
    <3> QED
      BY <3>1, <3>2 DEF x
  <2>2. Connected = links \cup Back(links)
    BY DEF Connected
  <2>3. Connected' = links' \cup Back(links')
    BY DEF Connected
  <2> HIDE DEF Back
  <2> QED
    BY <1>2, <2>1, <2>2, <2>3
<1>4. first \in Seq(AddrMsg)
  <2>1. [type |-> "getaddr"] \in AddrMsg
    BY DEF AddrMsg
  <2>2. n \in Public => Addr({n}) \in AddrMsg
    BY DEF AddrMsg, Addr
  <2> DEFINE g == [type |-> "getaddr"]
  <2> HIDE DEF g
  <2>3. <<g>> \in Seq(AddrMsg) /\ (n \in Public => <<Addr({n})>> \in Seq(AddrMsg))
    BY <2>1, <2>2 DEF g
  <2>4. (IF n \in Public THEN <<Addr({n})>> ELSE <<>>) \in Seq(AddrMsg)
    BY <2>3, EmptySeq
  <2>5. (IF n \in Public THEN <<Addr({n})>> ELSE <<>>) \o <<g>> \in Seq(AddrMsg)
    BY <2>3, <2>4, ConcatProperties
  <2>6. first = (IF n \in Public THEN <<Addr({n})>> ELSE <<>>) \o <<g>>
    BY DEF g, FirstSent
  <2> QED
    BY <2>5, <2>6
<1>5. sent' = [l \in DOMAIN sent \cup {<<n, p>>, <<p, n>>} |->
                   CASE l = <<n, p>> -> first [] l = <<p, n>> -> <<>> [] OTHER -> sent[l]]
  OBVIOUS
<1> HIDE DEF first
<1>6. DOMAIN sent' = {<<n, p>>, <<p, n>>} \cup DOMAIN sent
  BY <1>5
<1>7. ASSUME NEW l \in Connected' PROVE sent'[l] \in Seq(AddrMsg)
  <2>1. l \in DOMAIN sent'
    BY <1>3, <1>6, <1>7 DEF Links
  <2>2. sent'[l] \in {first, <<>>} \/ (l \in DOMAIN sent /\ sent'[l] = sent[l])
    BY <1>5, <1>6, <2>1
  <2> QED
    BY <1>4, <2>2, EmptySeq DEF Links
<1>8. DOMAIN sent' = Connected'
  BY <1>3, <1>6 DEF Links
<1>9. /\ links' \in SUBSET (online' \X online') /\ opening' \in SUBSET links'
      /\ setAddrKnown' \in SUBSET (Connected' \X Public) /\ vAddrToSend' \in SUBSET (Connected' \X Public)
      /\ online' \in SUBSET Node
  BY <1>2, <1>3 DEF Links
<1> QED
  BY <1>7, <1>8, <1>9 DEF LinksOnly

LEMMA OpenKeeps ==
    ASSUME AddrInv, NEW n, NEW p \in Node, NEW book, Fits(book, n, blank[n]), Open(n, p, book)
    PROVE  Books' /\ LinksOnly' /\ UNCHANGED <<online, unasked>> /\ n \in Node
<1> DEFINE file == Written(n, book)
           put == [a \in DOMAIN book \cup {p} |-> IF a \in DOMAIN book THEN book[a] ELSE Fresh]
           none == blank[n] \cup ({p} \ DOMAIN book)
<1>1. n \in online /\ n \in Node /\ p # n /\ UNCHANGED <<online, unasked, setAddrKnown, vAddrToSend>>
  BY DEF Open, AddrInv, Links
<1>2. Books'
  <2>1. /\ mapAddresses' = [mapAddresses EXCEPT ![n] = put]
        /\ blank' = [blank EXCEPT ![n] = none] /\ addrdb' = [addrdb EXCEPT ![n] = file]
    BY DEF Open
  <2>2. Kept(book, n, blank[n], file)
    BY <1>1, WrittenBook DEF AddrInv
  <2> HIDE DEF file
  <2>3. Kept(put, n, none, file)
    BY <1>1, <2>2 DEF Kept, Fits, Fresh, Old
  <2> HIDE DEF put, none
  <2>4. /\ DOMAIN mapAddresses' = Node /\ DOMAIN addrdb' = Node /\ DOMAIN blank' = Node
        /\ mapAddresses'[n] = put /\ addrdb'[n] = file /\ blank'[n] = none
        /\ \A m \in Node : m # n => /\ mapAddresses'[m] = mapAddresses[m] /\ addrdb'[m] = addrdb[m]
                                    /\ blank'[m] = blank[m]
    BY <1>1, <2>1 DEF AddrInv, Books
  <2>5. Kept(mapAddresses'[n], n, blank'[n], addrdb'[n])
    BY <2>3, <2>4, Zenon
  <2> QED
    BY <1>1, <2>4, <2>5, OneBook DEF AddrInv
<1>3. LinksOnly'
  <2>1. CASE p \in online
    <3>1. /\ links' = links \cup {<<n, p>>} /\ opening' = opening \cup {<<n, p>>}
          /\ sent' = [l \in DOMAIN sent \cup {<<n, p>>, <<p, n>>} |->
                         CASE l = <<n, p>> -> FirstSent(n) [] l = <<p, n>> -> <<>> [] OTHER -> sent[l]]
      BY <2>1 DEF Open, FirstSent
    <3> QED
      BY <1>1, <2>1, <3>1, OpenedLinks DEF AddrInv
  <2>2. CASE p \notin online
    <3>1. UNCHANGED <<links, opening, sent>>
      BY <2>2 DEF Open
    <3> QED
      BY <1>1, <3>1 DEF AddrInv, Links, LinksOnly, Connected
  <2> QED
    BY <2>1, <2>2
<1> QED
  BY <1>1, <1>2, <1>3

LEMMA TryConfiguredKeeps == ASSUME AddrInv, NEW n, NEW p, TryConfigured(n, p) PROVE AddrInv'
<1>1. toTry' \in SUBSET Configured /\ <<n, p>> \in Configured
  BY DEF TryConfigured, AddrInv, Links
<1>2. n \in Node /\ p \in Node
  BY <1>1, AddressesAssumption
<1>3. CASE p \in Peers(n)
  <2>1. UNCHANGED <<online, bookVars, unasked, peerVars_>>
    BY <1>3 DEF TryConfigured
  <2>2. Books' /\ Links'
    BY <1>1, <2>1, BooksStay DEF AddrInv, Links, peerVars_, Connected
  <2> QED
    BY <2>2 DEF AddrInv
<1>4. CASE p \notin Peers(n)
  <2>1. Open(n, p, mapAddresses[n])
    BY <1>4 DEF TryConfigured
  <2>2. Fits(mapAddresses[n], n, blank[n])
    BY <1>2 DEF AddrInv, Books, Kept
  <2>3. Books' /\ LinksOnly' /\ UNCHANGED <<online, unasked>>
    BY <1>2, <2>1, <2>2, OpenKeeps
  <2> QED
    BY <1>1, <2>3 DEF AddrInv, Links, LinksOnly
<1> QED
  BY <1>3, <1>4

LEMMA TrySeedKeeps == ASSUME AddrInv, NEW n \in online, NEW p, TrySeed(n, p) PROVE AddrInv'
<1>1. n \in Node /\ p \in Node /\ {p} \in SUBSET Public /\ Fresh \in Fresh .. Old
  BY AddressesAssumption DEF TrySeed, AddrInv, Links, Fresh, Old
<1>2. Fits(AddAddress(mapAddresses[n], n, {p}, Fresh), n, blank[n])
  BY <1>1, AddedBook DEF AddrInv, Books, Kept
<1>3. Open(n, p, AddAddress(mapAddresses[n], n, {p}, Fresh)) /\ UNCHANGED toTry
  BY DEF TrySeed
<1>4. Books' /\ LinksOnly' /\ UNCHANGED <<online, unasked>>
  BY <1>1, <1>2, <1>3, OpenKeeps
<1> QED
  BY <1>3, <1>4 DEF AddrInv, Links, LinksOnly

LEMMA AwaitAnswerKeeps == ASSUME AddrInv, NEW n, NEW p, AwaitAnswer(n, p) PROVE AddrInv'
<1>1. Books'
  BY BooksStay DEF AddrInv, AwaitAnswer
<1>2. Links'
  BY DEF AddrInv, Links, AwaitAnswer, Connected, startVars
<1> QED
  BY <1>1, <1>2 DEF AddrInv

\* What is closed with the connections of a node leaves what belongs to the others.
LEMMA ClosedConnected ==
    ASSUME Links, NEW n, links' = Without(links, n)
    PROVE  Connected' = Without(Connected, n)
<1> DEFINE Back(ls) == {<<l[2], l[1]>> : l \in ls}
<1>1. ASSUME NEW c PROVE c \in Back(Without(links, n)) <=> c \in Without(Back(links), n)
  <2>1. ASSUME c \in Back(Without(links, n)) PROVE c \in Without(Back(links), n)
    <3>1. PICK l \in links : n \notin {l[1], l[2]} /\ c = <<l[2], l[1]>>
      BY <2>1 DEF Without
    <3>2. c[1] = l[2] /\ c[2] = l[1] /\ c \in Back(links)
      BY <3>1
    <3> QED
      BY <3>1, <3>2 DEF Without
  <2>2. ASSUME c \in Without(Back(links), n) PROVE c \in Back(Without(links, n))
    <3>1. PICK l \in links : c = <<l[2], l[1]>>
      BY <2>2 DEF Without
    <3>2. c[1] = l[2] /\ c[2] = l[1] /\ n \notin {c[1], c[2]}
      BY <2>2, <3>1 DEF Without
    <3>3. l \in Without(links, n)
      BY <3>2 DEF Without
    <3> QED
      BY <3>1, <3>3
  <2> QED
    BY <2>1, <2>2
<1>2. Connected = links \cup Back(links) /\ Connected' = links' \cup Back(links')
  BY DEF Connected
<1> HIDE DEF Back
<1> QED
  BY <1>1, <1>2 DEF Without

LEMMA ClosedKeeps ==
    ASSUME Links, NEW n, Closed(n), online' \in SUBSET Node, online \ {n} \subseteq online'
    PROVE  LinksOnly'
<1>1. Connected' = Without(Connected, n)
  BY ClosedConnected DEF Closed
<1>2. links' \in SUBSET (online' \X online') /\ opening' \in SUBSET links'
  BY DEF Links, Closed, Without
<1>3. ASSUME NEW ks \in SUBSET (Connected \X Public)
      PROVE  {k \in ks : n \notin {k[1][1], k[1][2]}} \in SUBSET (Connected' \X Public)
  BY <1>1 DEF Without
<1>4. setAddrKnown' \in SUBSET (Connected' \X Public) /\ vAddrToSend' \in SUBSET (Connected' \X Public)
  BY <1>3 DEF Links, Closed
<1>5. DOMAIN sent' = Connected' /\ \A l \in Connected' : sent'[l] \in Seq(AddrMsg)
  <2>1. sent' = [l \in Without(Connected, n) |-> sent[l]]
    BY DEF Closed, Restrict, Links
  <2>2. Without(Connected, n) \subseteq Connected
    BY DEF Without
  <2> QED
    BY <1>1, <2>1, <2>2 DEF Links
<1> QED
  BY <1>2, <1>4, <1>5 DEF LinksOnly

LEMMA LeaveKeeps == ASSUME AddrInv, NEW n \in Node, Leave(n) PROVE AddrInv'
<1>1. Links'
  <2>1. online' \in SUBSET Node /\ online \ {n} \subseteq online' /\ Closed(n)
    BY DEF AddrInv, Links, Leave
  <2>2. unasked' \in SUBSET online' /\ toTry' \in SUBSET Configured
    BY DEF AddrInv, Links, Leave
  <2> QED
    BY <2>1, <2>2, ClosedKeeps DEF AddrInv, Links, LinksOnly
<1>2. /\ mapAddresses' = [mapAddresses EXCEPT ![n] = <<>>] /\ UNCHANGED addrdb
      /\ blank' = [blank EXCEPT ![n] = {}]
  BY DEF Leave
<1>3. Kept(<<>>, n, {}, addrdb[n])
  BY DEF AddrInv, Books, Kept, Fits
<1>4. /\ DOMAIN mapAddresses' = Node /\ DOMAIN addrdb' = Node /\ DOMAIN blank' = Node
      /\ mapAddresses'[n] = <<>> /\ addrdb'[n] = addrdb[n] /\ blank'[n] = {}
      /\ \A m \in Node : m # n => /\ mapAddresses'[m] = mapAddresses[m] /\ addrdb'[m] = addrdb[m]
                                  /\ blank'[m] = blank[m]
  BY <1>2 DEF AddrInv, Books
<1>5. Kept(mapAddresses'[n], n, blank'[n], addrdb'[n])
  BY <1>3, <1>4, Zenon
<1>6. Books'
  BY <1>4, <1>5, OneBook DEF AddrInv
<1> QED
  BY <1>1, <1>6 DEF AddrInv

LEMMA RestartNodeKeeps == ASSUME AddrInv, NEW n \in Node, RestartNode(n) PROVE AddrInv'
<1>1. Links'
  <2>1. online' \in SUBSET Node /\ online \ {n} \subseteq online' /\ Closed(n)
    BY DEF AddrInv, Links, RestartNode
  <2>2. unasked' \in SUBSET online' /\ toTry' \in SUBSET Configured
    BY DEF AddrInv, Links, RestartNode, OwnConfigured
  <2> QED
    BY <2>1, <2>2, ClosedKeeps DEF AddrInv, Links, LinksOnly
<1>2. /\ mapAddresses' = [mapAddresses EXCEPT ![n] = addrdb[n]] /\ UNCHANGED addrdb
      /\ blank' = [blank EXCEPT ![n] = {}]
  BY DEF RestartNode
<1>3. Kept(addrdb[n], n, {}, addrdb[n])
  BY AddressesAssumption DEF AddrInv, Books, Kept, Fits, GoodBook
<1>4. /\ DOMAIN mapAddresses' = Node /\ DOMAIN addrdb' = Node /\ DOMAIN blank' = Node
      /\ mapAddresses'[n] = addrdb[n] /\ addrdb'[n] = addrdb[n] /\ blank'[n] = {}
      /\ \A m \in Node : m # n => /\ mapAddresses'[m] = mapAddresses[m] /\ addrdb'[m] = addrdb[m]
                                  /\ blank'[m] = blank[m]
  BY <1>2 DEF AddrInv, Books
<1>5. Kept(mapAddresses'[n], n, blank'[n], addrdb'[n])
  BY <1>3, <1>4, Zenon
<1>6. Books'
  BY <1>4, <1>5, OneBook DEF AddrInv
<1> QED
  BY <1>1, <1>6 DEF AddrInv

\* What goes between a node and those it is connected to.
LEMMA BetweenThem ==
    ASSUME Links, NEW n, NEW to, to \subseteq Peers(n), NEW as \in SUBSET Public
    PROVE  ({n} \X to) \X as \subseteq Connected \X Public
<1> DEFINE pairs == {n} \X to
<1>1. ASSUME NEW c \in pairs PROVE c \in Connected
  <2>1. c = <<n, c[2]>> /\ c[2] \in to
    OBVIOUS
  <2> QED
    BY <2>1 DEF Peers
<1> HIDE DEF pairs
<1>2. pairs \X as \subseteq Connected \X Public
  BY <1>1
<1> QED
  BY <1>2 DEF pairs

LEMMA RebroadcastKeeps == ASSUME AddrInv, NEW n \in Node, Rebroadcast(n) PROVE AddrInv'
<1>1. Books'
  BY BooksStay DEF AddrInv, Rebroadcast
<1>2. ({n} \X Peers(n)) \X ({n} \cap Public) \subseteq Connected \X Public
  BY BetweenThem DEF AddrInv
<1>3. Links'
  <2>1. UNCHANGED <<online, toTry, unasked, links, opening, sent>> /\ Connected' = Connected
    BY DEF Rebroadcast, Connected, startVars
  <2>2. setAddrKnown' \in SUBSET setAddrKnown
    BY DEF Rebroadcast
  <2>3. vAddrToSend' \in SUBSET (vAddrToSend \cup (({n} \X Peers(n)) \X ({n} \cap Public)))
    BY DEF Rebroadcast
  <2> QED
    BY <1>2, <2>1, <2>2, <2>3 DEF AddrInv, Links
<1> QED
  BY <1>1, <1>3 DEF AddrInv

LEMMA TrickleKeeps == ASSUME AddrInv, NEW n, NEW p, <<n, p>> \in Connected, Trickle(n, p) PROVE AddrInv'
<1> DEFINE new == Of(vAddrToSend \ setAddrKnown, n, p)
<1>1. Books'
  BY BooksStay DEF AddrInv, Trickle
<1>2. UNCHANGED <<online, toTry, unasked, links, opening>> /\ Connected' = Connected
  BY DEF Trickle, Connected, startVars
<1>3. setAddrKnown' \in SUBSET (Connected \X Public) /\ vAddrToSend' \in SUBSET (Connected \X Public)
  BY DEF Trickle, Known, On, Of, AddrInv, Links
<1>4. sent' \in {sent, [sent EXCEPT ![<<n, p>>] = Append(@, Addr(new))]}
  BY DEF Trickle
<1>5. Addr(new) \in AddrMsg
  BY DEF Addr, AddrMsg, Of
<1> HIDE DEF new
<1>6. DOMAIN sent' = Connected /\ \A l \in Connected : sent'[l] \in Seq(AddrMsg)
  <2>1. Append(sent[<<n, p>>], Addr(new)) \in Seq(AddrMsg)
    BY <1>5, AppendProperties DEF AddrInv, Links
  <2> QED
    BY <1>4, <2>1 DEF AddrInv, Links
<1>7. Links'
  BY <1>2, <1>3, <1>6 DEF AddrInv, Links
<1> QED
  BY <1>1, <1>7 DEF AddrInv

\* A message of a peer is taken from the connection.
LEMMA ReceivedMessage ==
    ASSUME Links, NEW n, NEW p, NEW type, Receive(n, p, type)
    PROVE  /\ Head(sent[<<p, n>>]) \in AddrMsg /\ Head(sent[<<p, n>>]).type = type
           /\ DOMAIN sent' = Connected /\ \A l \in Connected : sent'[l] \in Seq(AddrMsg)
           /\ <<p, n>> \in Connected /\ <<n, p>> \in Connected
<1>1. <<p, n>> \in Connected /\ sent[<<p, n>>] \in Seq(AddrMsg) /\ sent[<<p, n>>] # <<>>
  BY DEF Links, Receive
<1>2. Head(sent[<<p, n>>]) \in AddrMsg /\ Tail(sent[<<p, n>>]) \in Seq(AddrMsg)
  BY <1>1, FirstMessage
<1>3. <<n, p>> \in Connected
  <2>1. PICK l \in links : <<p, n>> = l \/ <<p, n>> = <<l[2], l[1]>>
    BY <1>1 DEF Connected
  <2>2. CASE <<p, n>> = l
    <3>1. <<n, p>> = <<l[2], l[1]>>
      BY <2>2
    <3> QED
      BY <3>1 DEF Connected
  <2>3. CASE <<p, n>> = <<l[2], l[1]>>
    <3>1. l = <<l[1], l[2]>>
      BY DEF Links
    <3>2. l = <<n, p>>
      BY <2>3, <3>1
    <3> QED
      BY <3>2 DEF Connected
  <2> QED
    BY <2>1, <2>2, <2>3
<1>4. sent' = [sent EXCEPT ![<<p, n>>] = Tail(@)] /\ Head(sent[<<p, n>>]).type = type
  BY DEF Receive
<1> QED
  BY <1>1, <1>2, <1>3, <1>4 DEF Links

LEMMA GotAddrKeeps == ASSUME AddrInv, NEW n, NEW p, GotAddr(n, p) PROVE AddrInv'
<1> DEFINE as == Head(sent[<<p, n>>]).addr
           book == AddAddress(mapAddresses[n], n, as, Stamp(n, p, as))
<1>1. /\ Head(sent[<<p, n>>]) \in AddrMsg /\ Head(sent[<<p, n>>]).type = "addr"
      /\ DOMAIN sent' = Connected /\ \A l \in Connected : sent'[l] \in Seq(AddrMsg)
      /\ <<n, p>> \in Connected
  BY ReceivedMessage DEF AddrInv, GotAddr
<1>2. as \in SUBSET Public /\ n \in Node
  BY <1>1 DEF AddrMsg, AddrInv, Links, Connected
<1>3. Stamp(n, p, as) \in Fresh .. Old
  BY DEF Stamp, Fresh, Old
<1>4. /\ Holds(n, IF <<n, p>> \in links THEN Seen(book, p) ELSE book)
      /\ setAddrKnown' = setAddrKnown \cup On(n, p, as)
      /\ \/ vAddrToSend' = vAddrToSend
         \/ \E to \in [as -> Targets(n)] :
               vAddrToSend' = vAddrToSend \cup (UNION {({n} \X to[a]) \X {a} : a \in as} \ setAddrKnown')
      /\ UNCHANGED <<online, toTry, unasked, links, opening>>
  BY DEF GotAddr, startVars
<1> HIDE DEF as
<1>5. Fits(book, n, blank[n])
  BY <1>2, <1>3, AddedBook DEF AddrInv, Books, Kept
<1> HIDE DEF book
<1>6. Books'
  <2>1. Fits(Seen(book, p), n, blank[n])
    BY <1>5, SeenBook
  <2> QED
    BY <1>2, <1>4, <1>5, <2>1, HoldsKeeps DEF AddrInv
<1>7. Connected' = Connected
  BY <1>4 DEF Connected
<1>8. setAddrKnown' \in SUBSET (Connected \X Public)
  BY <1>1, <1>2, <1>4 DEF On, AddrInv, Links
<1>9. vAddrToSend' \in SUBSET (Connected \X Public)
  <2>1. CASE vAddrToSend' = vAddrToSend
    BY <2>1 DEF AddrInv, Links
  <2>2. ASSUME NEW to \in [as -> Targets(n)],
               vAddrToSend' = vAddrToSend \cup (UNION {({n} \X to[a]) \X {a} : a \in as} \ setAddrKnown')
        PROVE  vAddrToSend' \in SUBSET (Connected \X Public)
    <3>1. ASSUME NEW a \in as PROVE ({n} \X to[a]) \X {a} \subseteq Connected \X Public
      <4>1. to[a] \subseteq Peers(n)
        BY DEF Targets, kSubset
      <4>2. {a} \in SUBSET Public /\ Links
        BY <1>2 DEF AddrInv
      <4> HIDE DEF Links
      <4> QED
        BY <4>1, <4>2, BetweenThem
    <3>2. UNION {({n} \X to[a]) \X {a} : a \in as} \subseteq Connected \X Public
      BY <3>1
    <3> QED
      BY <2>2, <3>2 DEF AddrInv, Links
  <2> QED
    BY <1>4, <2>1, <2>2
<1>10. Links'
  BY <1>1, <1>4, <1>7, <1>8, <1>9 DEF AddrInv, Links
<1> QED
  BY <1>6, <1>10 DEF AddrInv

LEMMA GetAddrKeeps == ASSUME AddrInv, NEW n, NEW p, GetAddr(n, p) PROVE AddrInv'
<1>1. Books'
  BY BooksStay DEF AddrInv, GetAddr
<1>2. /\ DOMAIN sent' = Connected /\ \A l \in Connected : sent'[l] \in Seq(AddrMsg)
      /\ <<n, p>> \in Connected
  BY ReceivedMessage DEF AddrInv, GetAddr
<1>3. n \in Node
  BY <1>2 DEF AddrInv, Links, Connected
<1> DEFINE recent == {a \in Held(n) : mapAddresses[n][a] < Old}
<1>4. recent \in SUBSET Public
  BY <1>3 DEF AddrInv, Books, Kept, Fits, Held
<1>5. /\ vAddrToSend' = (vAddrToSend \ On(n, p, Public)) \cup (On(n, p, recent) \ setAddrKnown)
      /\ UNCHANGED <<online, toTry, unasked, links, opening, setAddrKnown>>
  BY DEF GetAddr, startVars
<1> HIDE DEF recent
<1>6. vAddrToSend' \in SUBSET (Connected \X Public)
  BY <1>2, <1>4, <1>5 DEF On, AddrInv, Links
<1>7. Links'
  BY <1>2, <1>5, <1>6 DEF AddrInv, Links, Connected
<1> QED
  BY <1>1, <1>7 DEF AddrInv

LEMMA HalfDayKeeps == ASSUME AddrInv, HalfDay PROVE AddrInv'
<1>1. Links'
  BY LinksStay DEF AddrInv, HalfDay, peerVars_
<1>2. ASSUME NEW book, NEW now, \A a \in DOMAIN book : book[a] \in Fresh .. Old
      PROVE  /\ DOMAIN Aged(book, now) = DOMAIN book
             /\ \A a \in DOMAIN book : /\ Aged(book, now)[a] \in Fresh .. Old
                                       /\ Aged(book, now)[a] = IF a \in now THEN book[a]
                                                               ELSE Min({book[a] + 1, Old})
  <2>1. ASSUME NEW a \in DOMAIN book PROVE Min({book[a] + 1, Old}) \in Fresh .. Old
    <3>1. book[a] + 1 \in Nat /\ Old \in Nat
      BY <1>2 DEF Fresh, Old
    <3>2. Min({book[a] + 1, Old}) \in Nat /\ Min({book[a] + 1, Old}) <= Old
      BY <3>1, MinIn
    <3> QED
      BY <3>2 DEF Fresh, Old
  <2>2. Aged(book, now) = [a \in DOMAIN book |-> IF a \in now THEN book[a] ELSE Min({book[a] + 1, Old})]
    BY DEF Aged
  <2> QED
    BY <1>2, <2>1, <2>2
<1>3. /\ DOMAIN mapAddresses' = Node /\ DOMAIN addrdb' = Node /\ UNCHANGED blank
      /\ \A n \in Node : /\ mapAddresses'[n] = Aged(mapAddresses[n], OpenedTo(n))
                         /\ addrdb'[n] = Aged(addrdb[n], OpenedTo(n) \cap Held(n))
  BY DEF HalfDay
<1>4. ASSUME NEW n \in Node
      PROVE  Kept(mapAddresses'[n], n, blank'[n], addrdb'[n])
  <2> DEFINE book == mapAddresses[n]
             file == addrdb[n]
             none == blank[n]
             now == OpenedTo(n)
             old == Aged(book, now)
             older == Aged(file, now \cap (DOMAIN book \ none))
  <2>1. Kept(book, n, none, file)
    BY DEF AddrInv, Books
  <2>2. mapAddresses'[n] = old /\ blank'[n] = none /\ addrdb'[n] = older
    BY <1>3 DEF Held
  <2> HIDE DEF book, file, none, now
  <2>3. /\ DOMAIN old = DOMAIN book
        /\ \A a \in DOMAIN book : /\ old[a] \in Fresh .. Old
                                  /\ old[a] = IF a \in now THEN book[a] ELSE Min({book[a] + 1, Old})
    BY <1>2, <2>1 DEF Kept, Fits
  <2>4. /\ DOMAIN older = DOMAIN file
        /\ \A a \in DOMAIN file : /\ older[a] \in Fresh .. Old
                                  /\ older[a] = IF a \in now \cap (DOMAIN book \ none) THEN file[a]
                                                ELSE Min({file[a] + 1, Old})
    BY <1>2, <2>1 DEF Kept, GoodBook
  <2> HIDE DEF old, older
  <2>5. Fits(old, n, none) /\ GoodBook(older, n)
    BY <2>1, <2>3, <2>4 DEF Kept, Fits, GoodBook
  <2>6. ASSUME NEW a \in DOMAIN old \ none PROVE a \in DOMAIN older /\ old[a] = older[a]
    <3>1. a \in DOMAIN file /\ book[a] = file[a] /\ a \in DOMAIN book /\ a \notin none
      BY <2>1, <2>3, <2>6 DEF Kept
    <3> QED
      BY <2>3, <2>4, <3>1
  <2>7. Kept(old, n, none, older)
    BY <2>5, <2>6 DEF Kept
  <2> QED
    BY <2>2, <2>7, Zenon
<1>5. Books'
  <2>1. DOMAIN blank' = Node
    BY <1>3 DEF AddrInv, Books
  <2> QED
    BY <1>3, <1>4, <2>1 DEF Books
<1> QED
  BY <1>1, <1>5 DEF AddrInv

LEMMA AddressesNextKeeps == AddrInv /\ [AddressesNext]_addressVars => AddrInv'
<1> SUFFICES ASSUME AddrInv, [AddressesNext]_addressVars PROVE AddrInv'
  OBVIOUS
<1>1. CASE UNCHANGED addressVars
  <2>1. Books' /\ Links'
    BY <1>1, BooksStay, LinksStay DEF AddrInv, addressVars, peerVars_
  <2> QED
    BY <2>1 DEF AddrInv
<1>2. online \subseteq Node
  BY DEF AddrInv, Links
<1>3. ASSUME NEW n \in online, Cleanup(n) \/ Rebroadcast(n) \/ QueryDNSSeeds(n) PROVE AddrInv'
  BY <1>2, <1>3, CleanupKeeps, RebroadcastKeeps, QueryDNSSeedsKeeps
<1>4. ASSUME NEW n \in online, NEW p \in Seeds, TrySeed(n, p) PROVE AddrInv'
  BY <1>4, TrySeedKeeps
<1>10. ASSUME NEW l \in toTry, TryConfigured(l[1], l[2]) PROVE AddrInv'
  BY <1>10, TryConfiguredKeeps
<1>5. ASSUME NEW l \in opening, AwaitAnswer(l[1], l[2]) PROVE AddrInv'
  BY <1>5, AwaitAnswerKeeps
<1>6. ASSUME NEW c \in Connected, Trickle(c[1], c[2]) \/ GotAddr(c[1], c[2]) \/ GetAddr(c[1], c[2])
      PROVE  AddrInv'
  <2>1. <<c[1], c[2]>> = c
    BY DEF AddrInv, Links, Connected
  <2> QED
    BY <1>6, <2>1, TrickleKeeps, GotAddrKeeps, GetAddrKeeps
<1>7. ASSUME NEW n \in online, Leave(n) \/ RestartNode(n) PROVE AddrInv'
  BY <1>2, <1>7, LeaveKeeps, RestartNodeKeeps
<1>8. ASSUME NEW n \in Irc, NEW p \in Irc, IrcName(n, p) PROVE AddrInv'
  BY <1>8, IrcNameKeeps
<1>9. ASSUME NEW l \in links, Heard(l[1], l[2]) PROVE AddrInv'
  BY <1>9, HeardKeeps
<1> QED
  BY <1>1, <1>3, <1>4, <1>5, <1>6, <1>7, <1>8, <1>9, <1>10, HalfDayKeeps DEF AddressesNext, AddressWork, Events

-----------------------------------------------------------------------------
(* Both                                                                    *)

\* Whatever the nodes tell each other, and however often connections close: what a node has
\* of its peers' chain is a beginning of it and no orphan waits for a block that is there,
\* what is announced, asked for and sent is of the sender's chain; what is in memory, apart from
\* what an attempt to connect put there without an address, is in addr.dat with the same time,
\* the own address is never stored, and nothing is left of a connection that is closed.
THEOREM RelayInvariant == RelaySpec => [](SyncInv /\ AddrInv)
<1>1. RelayInit => SyncInv /\ AddrInv
  BY SyncStart, AddressesStart DEF RelayInit
<1>2. SyncInv /\ AddrInv /\ [RelayNext]_<<syncVars, addressVars>> => (SyncInv /\ AddrInv)'
  <2> SUFFICES ASSUME SyncInv, AddrInv, [RelayNext]_<<syncVars, addressVars>>
               PROVE  SyncInv' /\ AddrInv'
    OBVIOUS
  <2>1. [Next]_syncVars /\ [AddressesNext]_addressVars
    BY DEF RelayNext
  <2> QED
    BY <2>1, SyncNext, AddressesNextKeeps
<1> QED
  BY <1>1, <1>2, PTL DEF RelaySpec

\* The variables of blocks' and addresses' relay keep their types in every run.
THEOREM RelayTypes == RelaySpec => []RelayTypeOK
<1>1. SyncInv /\ AddrInv => RelayTypeOK
  BY SyncInvTypes, AddrInvTypes DEF RelayTypeOK
<1> QED
  BY <1>1, RelayInvariant, PTL
=============================================================================
