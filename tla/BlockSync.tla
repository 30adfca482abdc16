------------------------------ MODULE BlockSync ------------------------------
(***************************************************************************)
(* How a node that starts on a branch of its own gets the blocks of the    *)
(* chain its peers are on: the messages version, getblocks, inv, getdata   *)
(* and block, the inventory a peer has told it, and what it asked for.     *)
(***************************************************************************)
EXTENDS Integers, Sequences, FiniteSets, SequencesExt, FiniteSetsExt

CONSTANTS
    Peer,
    Top,          \* height of the peers' chain in the end
    First,        \* First[p]: height of the chain of peer p at the start
    Branch,       \* blocks of the node's own branch
    Batch,        \* 500: blocks announced in answer to one getblocks
    MaxDrops,     \* how often a connection is lost
    Later,        \* the blocks found when the connections last,
    MaxWait       \* and for how many retries a request waits at most

ASSUME SyncAssumption == /\ Top \in Nat /\ First \in [Peer -> 0 .. Top]
                         /\ Branch \in Nat /\ Batch \in Nat \ {0} /\ MaxDrops \in Nat
                         /\ Later \in Nat /\ MaxWait \in Nat

\* Blocks of the peers' chain are known by their height, 0 being the genesis block; the
\* node's own branch starts from there.
Block == 1 .. Top
Nothing == -1     \* the hash 0

VARIABLES
    nHeight,      \* height of each peer's chain
    up,           \* peers that are connected
    toNode, toPeer,          \* messages under way on each connection
    vInventoryToSend, setInventoryKnown, hashContinue, \* the peer's side
    have, orphans,           \* blocks of the peers' chain in mapBlockIndex, mapOrphanBlocks
    nAskedForBlocks,
    lastGetBlocks,           \* arguments of the last getblocks on each connection
    nRequestTime,            \* mapAlreadyAskedFor: when each block was last to be asked for,
    mapAskFor,               \* and on each connection the blocks to be asked for, by time
    drops

peerVars == <<nHeight, vInventoryToSend, setInventoryKnown, hashContinue>>
nodeVars == <<have, orphans, nAskedForBlocks, lastGetBlocks, nRequestTime, mapAskFor>>
syncVars == <<up, toNode, toPeer, drops, peerVars, nodeVars>>

\* Request times are counted from now, in the two minutes between a request and the next one:
\* 0 for what is due, or was within the last two minutes.  What was due before that delays
\* nothing any more.
Past == -1
NothingAsked == [w \in 0 .. MaxWait |-> <<>>]

SyncTypeOK ==
    /\ nHeight \in [Peer -> 0 .. Top]
    /\ up \subseteq Peer
    /\ \A p \in Peer : \A b \in Range(vInventoryToSend[p]) \cup setInventoryKnown[p] : b <= nHeight[p]
    /\ have \subseteq Block /\ orphans \subseteq Block /\ have \cap orphans = {}
    /\ \A b \in have : 1 .. b \subseteq have
    /\ \A b \in orphans : b - 1 \notin have \cup {0}
    /\ nAskedForBlocks \in BOOLEAN
    /\ nRequestTime \in [Block -> Past .. MaxWait]
    /\ \A p \in Peer : \A w \in 0 .. MaxWait : Range(mapAskFor[p][w]) \subseteq Block
    /\ drops \in 0 .. MaxDrops

\* The best chain is the peers' once that has more work than the node's branch.
Tip(h) == Max(h \cup {0})
pindexBest == IF Tip(have) > Branch THEN Tip(have) ELSE Nothing

\* The arguments of a getblocks that was never sent.
Never == <<0, Nothing>>

Init ==
    /\ nHeight = First
    /\ up = {}
    /\ toNode = [p \in Peer |-> <<>>] /\ toPeer = [p \in Peer |-> <<>>]
    /\ vInventoryToSend = [p \in Peer |-> <<>>]
    /\ setInventoryKnown = [p \in Peer |-> {}]
    /\ hashContinue = [p \in Peer |-> Nothing]
    /\ have = {} /\ orphans = {}
    /\ nAskedForBlocks = FALSE
    /\ lastGetBlocks = [p \in Peer |-> Never]
    /\ nRequestTime = [b \in Block |-> Past]
    /\ mapAskFor = [p \in Peer |-> NothingAsked]
    /\ drops = 0

-----------------------------------------------------------------------------
(* Connections                                                             *)

\* A connection is made; the peer's version comes first.
Connect(p) ==
    /\ p \notin up
    /\ up' = up \cup {p}
    /\ toNode' = [toNode EXCEPT ![p] = <<[type |-> "version"]>>]
    /\ UNCHANGED <<toPeer, drops, peerVars, nodeVars>>

\* It is lost, with all that belongs to the two CNode objects; what was asked on it remains
\* known as asked.  There are still blocks to be found after that.
Drop(p) ==
    /\ p \in up
    /\ drops < MaxDrops /\ drops' = drops + 1
    /\ \A q \in Peer : nHeight[q] <= Top - Later
    /\ up' = up \ {p}
    /\ toNode' = [toNode EXCEPT ![p] = <<>>] /\ toPeer' = [toPeer EXCEPT ![p] = <<>>]
    /\ vInventoryToSend' = [vInventoryToSend EXCEPT ![p] = <<>>]
    /\ setInventoryKnown' = [setInventoryKnown EXCEPT ![p] = {}]
    /\ hashContinue' = [hashContinue EXCEPT ![p] = Nothing]
    /\ lastGetBlocks' = [lastGetBlocks EXCEPT ![p] = Never]
    /\ mapAskFor' = [mapAskFor EXCEPT ![p] = NothingAsked]
    /\ UNCHANGED <<nHeight, have, orphans, nAskedForBlocks, nRequestTime>>

-----------------------------------------------------------------------------
(* The peer                                                                *)

\* The blocks of a sequence that are in a set.
Those(bs, S) == FlattenSeq([i \in 1 .. Len(bs) |-> IF bs[i] \in S THEN <<bs[i]>> ELSE <<>>])

\* PushInventory of the blocks of a sequence.
Unknown(p, bs) == Those(bs, Block \ setInventoryKnown[p])
Pushed(p, bs) == vInventoryToSend[p] \o Unknown(p, bs)

\* Nothing is under way, nor waits to be asked for: as it is some minutes after a block.
Settled ==
    /\ up = Peer
    /\ \A p \in Peer : /\ toNode[p] = <<>> /\ toPeer[p] = <<>> /\ vInventoryToSend[p] = <<>>
                       /\ mapAskFor[p] = NothingAsked

\* The peer's chain grows and the block is announced.  The last blocks, found when the
\* connections last, come one after the other, with minutes between them.
Grow(p) ==
    /\ nHeight[p] < Top
    /\ nHeight[p] >= Top - Later => Settled
    /\ nHeight' = [nHeight EXCEPT ![p] = @ + 1]
    /\ vInventoryToSend' = IF p \in up
          THEN [vInventoryToSend EXCEPT ![p] = Pushed(p, <<nHeight[p] + 1>>)]
          ELSE vInventoryToSend
    /\ UNCHANGED <<up, toNode, toPeer, drops, setInventoryKnown, hashContinue, nodeVars>>

\* Each block of a sequence once.
Firsts(bs) == FlattenSeq([i \in 1 .. Len(bs) |->
                  IF bs[i] \in Range(SubSeq(bs, 1, i - 1)) THEN <<>> ELSE <<bs[i]>>])

\* SendMessages: what the node has not been told is announced.
SendInventory(p) ==
    /\ vInventoryToSend[p] # <<>>
    /\ LET new == Firsts(Unknown(p, vInventoryToSend[p]))
       IN  /\ toNode' = IF new = <<>> THEN toNode
                        ELSE [toNode EXCEPT ![p] = Append(@, [type |-> "inv", inv |-> new])]
           /\ setInventoryKnown' = [setInventoryKnown EXCEPT ![p] = @ \cup Range(new)]
    /\ vInventoryToSend' = [vInventoryToSend EXCEPT ![p] = <<>>]
    /\ UNCHANGED <<up, toPeer, drops, nHeight, hashContinue, nodeVars>>

\* The first block of a locator of the node's best chain that is in the peer's.
Fork(p, begin) == IF begin = Nothing THEN 0 ELSE Min({begin, nHeight[p]})

\* GetDistanceBack
DistanceBack(p, begin) == (IF begin = Nothing THEN Branch ELSE begin) - Fork(p, begin)

\* Mutant of Limit: the same for every caller.
LimitFixed(p, begin) == Batch
Limit(p, begin) == Batch + DistanceBack(p, begin)

\* Message getblocks.  The blocks after the fork are announced, as many as the limit
\* allows, up to the one before hashStop.
GetBlocks(p) ==
    /\ toPeer[p] # <<>> /\ Head(toPeer[p]).type = "getblocks"
    /\ toPeer' = [toPeer EXCEPT ![p] = Tail(@)]
    /\ LET m == Head(toPeer[p])
           from == Fork(p, m.begin) + 1
           last == from + Limit(p, m.begin) - 1
           stop == IF m.stop > nHeight[p] \/ m.stop < from THEN nHeight[p] ELSE m.stop - 1
       IN  /\ vInventoryToSend' = [vInventoryToSend EXCEPT ![p] =
                  Pushed(p, [i \in 1 .. Min({last, stop}) - from + 1 |-> from + i - 1])]
           /\ hashContinue' = IF last <= stop THEN [hashContinue EXCEPT ![p] = last]
                                              ELSE hashContinue
    /\ UNCHANGED <<up, toNode, drops, nHeight, setInventoryKnown, nodeVars>>

\* The announcement of the peer's best block after the last of a batch.
Trigger(p) == <<[type |-> "inv", inv |-> <<nHeight[p]>>]>>

\* Message getdata.
GetData(p) ==
    /\ toPeer[p] # <<>> /\ Head(toPeer[p]).type = "getdata"
    /\ toPeer' = [toPeer EXCEPT ![p] = Tail(@)]
    /\ LET inv == Head(toPeer[p]).inv
           Answer(b) == <<[type |-> "block", block |-> b]>>
                          \o (IF b = hashContinue[p] THEN Trigger(p) ELSE <<>>)
       IN  /\ toNode' = [toNode EXCEPT ![p] = @ \o FlattenSeq([i \in 1 .. Len(inv) |-> Answer(inv[i])])]
           /\ hashContinue' = IF hashContinue[p] \in Range(inv)
                              THEN [hashContinue EXCEPT ![p] = Nothing] ELSE hashContinue
    /\ UNCHANGED <<up, drops, nHeight, vInventoryToSend, setInventoryKnown, nodeVars>>

-----------------------------------------------------------------------------
(* The node                                                                *)

AlreadyHave(b) == b \in have \cup orphans
Lacking(bs) == Those(bs, Block \ (have \cup orphans))

\* GetOrphanRoot
OrphanRoot(b, os) == Min({r \in os : r .. b \subseteq os})

\* PushGetBlocks for each of a sequence of ends: one that repeats the last is dropped.
GetBlocksSent(last, ends, best) ==
    LET asked == [i \in 0 .. Len(ends) |-> IF i = 0 THEN last ELSE <<best, ends[i]>>]
        Request(e) == [type |-> "getblocks", begin |-> best, stop |-> e]
    IN  [last |-> asked[Len(ends)],
         out  |-> FlattenSeq([i \in 1 .. Len(ends) |->
                      IF asked[i] = asked[i - 1] THEN <<>> ELSE <<Request(ends[i])>>])]

PushGetBlocks(p, ends, best) ==
    LET sent == GetBlocksSent(lastGetBlocks[p], ends, best)
    IN  /\ lastGetBlocks' = [lastGetBlocks EXCEPT ![p] = sent.last]
        /\ toPeer' = [toPeer EXCEPT ![p] = @ \o sent.out]

Received(p, type) ==
    /\ toNode[p] # <<>> /\ Head(toNode[p]).type = type
    /\ toNode' = [toNode EXCEPT ![p] = Tail(@)]

\* Whether a connection is asked for blocks at its start.
AsksForBlocks == ~nAskedForBlocks \/ Cardinality(up) <= 1

\* Message version.
Version(p) ==
    /\ Received(p, "version")
    /\ IF AsksForBlocks
       THEN nAskedForBlocks' = TRUE /\ PushGetBlocks(p, <<Nothing>>, pindexBest)
       ELSE UNCHANGED <<nAskedForBlocks, lastGetBlocks, toPeer>>
    /\ UNCHANGED <<up, drops, peerVars, have, orphans, nRequestTime, mapAskFor>>

\* How long a block is to wait: at least two minutes after it was last to be asked for,
\* of whatever peer.
Wait(b) == Min({nRequestTime[b] + 1, MaxWait})

\* What is asked for stands in line by the time it may be asked for.
AskFor(p, inv) ==
    /\ mapAskFor' = [mapAskFor EXCEPT ![p] =
           [w \in 0 .. MaxWait |-> @[w] \o Those(inv, {b \in Block : Wait(b) = w})]]
    /\ nRequestTime' = [b \in Block |-> IF b \in Range(inv) THEN Wait(b) ELSE nRequestTime[b]]

\* Message inv: what is new will be asked for; for a block that is held as an orphan the
\* blocks before it are asked for.
Inv(p) ==
    /\ Received(p, "inv")
    /\ LET inv == Head(toNode[p]).inv
           held == Those(inv, orphans)
       IN  /\ AskFor(p, Lacking(inv))
           /\ PushGetBlocks(p, [i \in 1 .. Len(held) |-> OrphanRoot(held[i], orphans)], pindexBest)
    /\ UNCHANGED <<up, drops, peerVars, have, orphans, nAskedForBlocks>>

\* SendMessages: what is due and still lacking is asked for.
SendGetData(p) ==
    /\ mapAskFor[p][0] # <<>>
    /\ LET lacking == Lacking(mapAskFor[p][0])
       IN  toPeer' = IF lacking = <<>> THEN toPeer
                     ELSE [toPeer EXCEPT ![p] = Append(@, [type |-> "getdata", inv |-> lacking])]
    /\ mapAskFor' = [mapAskFor EXCEPT ![p][0] = <<>>]
    /\ UNCHANGED <<up, toNode, drops, peerVars, have, orphans, nAskedForBlocks, lastGetBlocks, nRequestTime>>

\* Two minutes pass, in the middle of whatever is done.
TwoMinutes ==
    /\ \/ \E b \in Block : nRequestTime[b] # Past
       \/ \E p \in Peer : \E w \in 1 .. MaxWait : mapAskFor[p][w] # <<>>
    /\ nRequestTime' = [b \in Block |-> IF nRequestTime[b] = Past THEN Past ELSE nRequestTime[b] - 1]
    /\ mapAskFor' = [p \in Peer |-> [w \in 0 .. MaxWait |->
           (IF w = 0 THEN mapAskFor[p][0] ELSE <<>>)
               \o (IF w < MaxWait THEN mapAskFor[p][w + 1] ELSE <<>>)]]
    /\ UNCHANGED <<up, toNode, toPeer, drops, peerVars, have, orphans, nAskedForBlocks, lastGetBlocks>>

\* A block and the orphans that come after it.
Linked(b) == b .. Max({c \in b .. Top : b + 1 .. c \subseteq orphans})

\* Message block: ProcessBlock, with the orphans that depend on the block, after which it
\* counts as never asked for.
GotBlock(p) ==
    /\ Received(p, "block")
    /\ LET b == Head(toNode[p]).block
       IN  /\ nRequestTime' = IF AlreadyHave(b) THEN nRequestTime ELSE [nRequestTime EXCEPT ![b] = Past]
           /\ CASE AlreadyHave(b) -> UNCHANGED <<have, orphans, lastGetBlocks, toPeer>>
                [] ~AlreadyHave(b) /\ b - 1 \in have \cup {0} ->
                     /\ have' = have \cup Linked(b) /\ orphans' = orphans \ Linked(b)
                     /\ UNCHANGED <<lastGetBlocks, toPeer>>
                [] OTHER ->
                     /\ orphans' = orphans \cup {b} /\ UNCHANGED have
                     /\ PushGetBlocks(p, <<OrphanRoot(b, orphans')>>, pindexBest)
    /\ UNCHANGED <<up, drops, peerVars, nAskedForBlocks, mapAskFor>>

-----------------------------------------------------------------------------
PeerStep(p) == SendInventory(p) \/ GetBlocks(p) \/ GetData(p)
NodeStep(p) == Version(p) \/ Inv(p) \/ SendGetData(p) \/ GotBlock(p)

\* What is done without anybody's will, if only in time; a connection need not be lost.
Work(p) == Connect(p) \/ Grow(p) \/ PeerStep(p) \/ NodeStep(p)
Progress == TwoMinutes \/ \E p \in Peer : Work(p)

Next == Progress \/ \E p \in Peer : Drop(p)

\* The threads go on, and so does time.  No choice between them is needed: what blocks, or a
\* connection, give them to do comes to an end.
Fairness == WF_syncVars(Progress)

Spec == Init /\ [][Next]_syncVars /\ Fairness

-----------------------------------------------------------------------------
\* The node gets the whole chain, wherever connections were lost on the way, once the last blocks
\* are announced.  Until then a block that was never asked for may come before those that wait
\* to be asked for again, or the peer that would have told of the rest is gone.
CatchesUp == <>[](have = Block)
=============================================================================
