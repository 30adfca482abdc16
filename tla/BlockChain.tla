----------------------------- MODULE BlockChain -----------------------------
(***************************************************************************)
(* The block chain of one node: the in-memory block index, the transaction *)
(* database blkindex.dat, the block file, and the handler that changes     *)
(* them, ProcessBlock with all it calls (AcceptBlock, AddToBlockIndex,     *)
(* Reorganize, ConnectBlock, DisconnectBlock), which holds cs_main from    *)
(* beginning to end.  The loops of Reorganize are one step per block,      *)
(* inside one database transaction; the node may be killed between any two *)
(* steps and started again.                                                *)
(*                                                                         *)
(* The wallet and the memory pool, which ConnectBlock and AddToBlockIndex  *)
(* also update, are other components; NodePool adds the pool's part to     *)
(* each action of this module.                                             *)
(***************************************************************************)
EXTENDS BlockTree

VARIABLES
    mapBlockIndex,  \* blocks with an entry in the in-memory index
    stubs,          \* entries InsertBlockIndex made for a hash without a record
    dangling,       \* entries whose pprev points to a deleted entry
    pnext,          \* pnext[b]: the forward link of b's entry
    pindexBest,     \* the tip; nBestHeight and hashBestChain follow it
    txdb,           \* blkindex.dat, as committed
    view,           \* blkindex.dat, as the open transaction sees it
    blkFile,        \* blocks whose bytes are intact in blk0001.dat
    orphans,        \* mapOrphanBlocks (mapOrphanBlocksByPrev is its index)
    workQueue,      \* vWorkQueue of ProcessBlock
    phase,          \* where the handler is: see Phase
    pindexNew,      \* the block Reorganize works for
    cursor          \* Reorganize: the block up to which view has been changed

vars == <<mapBlockIndex, stubs, dangling, pnext, pindexBest, txdb, view, blkFile,
          orphans, workQueue, phase, pindexNew, cursor>>

\* idle: cs_main is free or ProcessBlock is between two blocks; reorg: inside the
\* database transaction of Reorganize; erase, unindex: in the loop that deletes
\* the rest of an invalid branch, before and after EraseBlockFromDisk.
Phase == {"idle", "reorg", "erase", "unindex"}

\* blkindex.dat: the blockindex records with their hashNext, hashBestChain, and
\* per transaction the block of its CDiskTxPos (NoBlock: no tx record) and, per
\* output, the block of the CDiskTxPos in vSpent (NoBlock: IsNull).
TxDB == [blockindex    : SUBSET Block,
         hashNext      : [Block -> Block \cup {NoBlock}],
         hashBestChain : Block,
         pos           : [Tx -> Block \cup {NoBlock}],
         vSpent        : [OutPoint -> Block \cup {NoBlock}]]

TypeOK ==
    /\ mapBlockIndex \in SUBSET Block
    /\ stubs \in SUBSET Block
    /\ dangling \in SUBSET Block
    /\ pnext \in [Block -> Block \cup {NoBlock}]
    /\ pindexBest \in Block
    /\ txdb \in TxDB
    /\ view \in TxDB
    /\ blkFile \in SUBSET Block
    /\ orphans \in SUBSET Block
    /\ workQueue \in Seq(Block)
    /\ phase \in Phase
    /\ pindexNew \in Block
    /\ cursor \in Block

-----------------------------------------------------------------------------
(* The database side of a block.                                           *)

\* nHeight of an entry: InsertBlockIndex leaves it 0.
nHeight(b) == IF b \in stubs THEN 0 ELSE Height[b]

IsInMainChain(b) == pnext[b] # NoBlock \/ b = pindexBest

\* ConnectInputs walks back from pindexBest to find the block of a coinbase.
Mature(b) == ~ /\ b \in Anc[pindexBest]
               /\ Height[pindexBest] - Height[b] < CoinbaseMaturity - 1

\* Mutant of InputConnects: the spent mark is not looked at.
InputConnectsTwice(db, c, i, k) ==
    LET prevout == Vin[Vtx[c][i]][k]
    IN  /\ db.pos[prevout[1]] # NoBlock \/ prevout[1] \in TxsOf(c)
        /\ Vtx[c][i] \in Sound

\* ConnectInputs of input k of the i-th transaction of c, with fBlock set: the
\* previous transaction is in the database or earlier in c, has that output, is
\* mature if a coinbase, and nothing has spent the output, in the database or
\* earlier in c.
InputConnects(db, c, i, k) ==
    LET t       == Vtx[c][i]
        prevout == Vin[t][k]
        InBlock == \E j \in DOMAIN Vtx[c] : j < i /\ Vtx[c][j] = prevout[1]
        prevPos == IF InBlock THEN c ELSE db.pos[prevout[1]]
    IN  /\ prevPos # NoBlock
        /\ prevout[2] \in Vout[prevout[1]]
        /\ prevout[1] \in CoinBase => Mature(prevPos)
        /\ t \in Sound
        /\ db.vSpent[prevout] = NoBlock
        /\ \A j \in DOMAIN Vtx[c] : \A l \in DOMAIN Vin[Vtx[c][j]] :
              (j < i \/ (j = i /\ l < k)) => Vin[Vtx[c][j]][l] # prevout

\* ConnectBlock succeeds.
Connects(db, c) ==
    /\ \A i \in DOMAIN Vtx[c] : \A k \in DOMAIN Vin[Vtx[c][i]] : InputConnects(db, c, i, k)
    /\ Claim[c] <= BlockValue(Height[pindexBest])

\* Mutant of Connected: the parent's record keeps its old hashNext.
ConnectedUnlinked(db, c) ==
    [db EXCEPT !.pos    = [t \in Tx |-> IF t \in TxsOf(c) THEN c ELSE @[t]],
               !.vSpent = [o \in OutPoint |-> IF o \in Spends(c) THEN c ELSE @[o]]]

\* What it writes: a fresh record per transaction, a spent mark per input, and
\* the record of the parent with its hashNext.
Connected(db, c) ==
    [db EXCEPT !.blockindex = @ \cup {Prev[c]},
               !.hashNext   = [@ EXCEPT ![Prev[c]] = c],
               !.pos        = [t \in Tx |-> IF t \in TxsOf(c) THEN c ELSE @[t]],
               !.vSpent     = [o \in OutPoint |-> IF o \in Spends(c) THEN c
                                                  ELSE IF o[1] \in TxsOf(c) THEN NoBlock
                                                  ELSE @[o]]]

\* Mutant of Disconnected: the records of the block go, the marks it set stay.
DisconnectedMarked(db, c) ==
    [db EXCEPT !.hashNext = [@ EXCEPT ![Prev[c]] = NoBlock],
               !.pos      = [t \in Tx |-> IF t \in TxsOf(c) THEN NoBlock ELSE @[t]]]

\* What DisconnectBlock writes.
Disconnected(db, c) ==
    [db EXCEPT !.blockindex = @ \cup {Prev[c]},
               !.hashNext   = [@ EXCEPT ![Prev[c]] = NoBlock],
               !.pos        = [t \in Tx |-> IF t \in TxsOf(c) THEN NoBlock ELSE @[t]],
               !.vSpent     = [o \in OutPoint |-> IF o \in Spends(c) \/ o[1] \in TxsOf(c)
                                                  THEN NoBlock ELSE @[o]]]

\* WriteBlockIndex of a new entry, whose pnext is null.
Recorded(db, b) == [db EXCEPT !.blockindex = @ \cup {b},
                              !.hashNext   = [@ EXCEPT ![b] = NoBlock]]

\* WriteHashBestChain
Best(db, b) == [db EXCEPT !.hashBestChain = b]

-----------------------------------------------------------------------------
(* ProcessBlock, AcceptBlock and AddToBlockIndex.                          *)

Idle == phase = "idle"

\* The block ProcessBlock now hands to AcceptBlock: the message itself, or an
\* orphan of the block at the head of the work queue.
Offered(b) == \/ workQueue = <<>> /\ b \notin orphans
              \/ workQueue # <<>> /\ b \in orphans /\ Prev[b] = Head(workQueue)

\* A block is dropped from mapOrphanBlocks whatever AcceptBlock says of it.
Taken(b) == orphans' = orphans \ {b}

\* ProcessBlock keeps a block without its parent until the parent comes.
KeepOrphan(b) ==
    /\ Idle
    /\ workQueue = <<>>
    /\ b \notin mapBlockIndex \cup orphans
    /\ Prev[b] \notin mapBlockIndex
    /\ orphans' = orphans \cup {b}
    /\ UNCHANGED <<mapBlockIndex, stubs, dangling, pnext, pindexBest, txdb, view,
                   blkFile, workQueue, phase, pindexNew, cursor>>

\* What AcceptBlock asks of a block before it is written: it is new, its parent
\* is indexed, its time, transactions and nBits fit.  A stub has nBits 0, which
\* no block repeats.
Acceptable(b) ==
    /\ b \notin mapBlockIndex
    /\ Prev[b] \in mapBlockIndex \ stubs
    /\ b \in WellTimed
    /\ LockHeight[b] = 0 \/ LockHeight[b] < Height[pindexBest]

\* AcceptBlock refuses an orphan, which is then gone; a refused message changes
\* nothing.  A walk along a dangling pprev may have any result, so it may refuse
\* anything.
RefuseOrphan(b) ==
    /\ Idle
    /\ workQueue # <<>>
    /\ Offered(b)
    /\ ~Acceptable(b) \/ Anc[b] \cap dangling # {}
    /\ Taken(b)
    /\ UNCHANGED <<mapBlockIndex, stubs, dangling, pnext, pindexBest, txdb, view,
                   blkFile, workQueue, phase, pindexNew, cursor>>

\* AddToBlockIndex up to the checkpoint test: the block is written to the block
\* file, and its entry is in the index before anything is decided.
Enter(b) ==
    /\ Idle
    /\ Offered(b)
    /\ Acceptable(b)
    /\ Taken(b)
    /\ blkFile' = blkFile \cup {b}
    /\ mapBlockIndex' = mapBlockIndex \cup {b}

\* Checkpoints::CheckBlock
AgreesWithCheckpoints(b) == \A c \in Checkpoints : Height[c] = Height[b] => c = b

\* Walking back from b, the entry of c is one that was deleted: c may have been
\* received again since, but the pointer is not to its new entry.
Deleted(c, b) == \E d \in dangling \cap Anc[b] : Prev[d] = c

\* Reorganize refuses to start: the branch leads to an entry without a pprev, or
\* leaves the main chain below the last checkpoint that is in the index, where
\* the new block already is.
ForkHeight(b) ==
    LET common == {c \in Anc[b] \cap Anc[pindexBest] : ~Deleted(c, b)}
    IN  Height[CHOOSE f \in common : \A g \in common : Height[g] <= Height[f]]
GetLastCheckpoint(index) == CHOOSE c \in Checkpoints \cap index :
                               \A d \in Checkpoints \cap index : Height[d] <= Height[c]
PastLastCheckpoint(b) ==
    LET index == mapBlockIndex \cup {b}
    IN  Checkpoints \cap index # {} /\ ForkHeight(b) < nHeight(GetLastCheckpoint(index))
ReorganizeRefused(b) == Anc[b] \cap stubs # {} \/ PastLastCheckpoint(b)

\* The block stays in the index, not on disk, and AcceptBlock fails.
AddRejected(b) ==
    /\ Enter(b)
    /\ \/ ~AgreesWithCheckpoints(b)
       \/ /\ AgreesWithCheckpoints(b)
          /\ Height[b] > Height[pindexBest]
          /\ Prev[b] # pindexBest
          /\ ReorganizeRefused(b)
    /\ UNCHANGED <<stubs, dangling, pnext, pindexBest, txdb, view, workQueue, phase,
                   pindexNew, cursor>>

\* A block that is not higher than the tip is recorded, no more.
AddSideBlock(b) ==
    /\ Enter(b)
    /\ AgreesWithCheckpoints(b)
    /\ Height[b] <= Height[pindexBest]
    /\ txdb' = Recorded(txdb, b)
    /\ view' = txdb'
    /\ workQueue' = Append(workQueue, b)
    /\ UNCHANGED <<stubs, dangling, pnext, pindexBest, phase, pindexNew, cursor>>

\* A child of the tip is connected in one transaction; the memory index follows.
ExtendBestChain(b) ==
    /\ Enter(b)
    /\ AgreesWithCheckpoints(b)
    /\ Prev[b] = pindexBest
    /\ Connects(txdb, b)
    /\ txdb' = Best(Connected(Recorded(txdb, b), b), b)
    /\ view' = txdb'
    /\ pnext' = [pnext EXCEPT ![pindexBest] = b]
    /\ pindexBest' = b
    /\ workQueue' = Append(workQueue, b)
    /\ UNCHANGED <<stubs, dangling, phase, pindexNew, cursor>>

\* If it does not connect it is erased from the file and leaves the index.
ExtendFails(b) ==
    /\ Idle
    /\ Offered(b)
    /\ Acceptable(b)
    /\ Taken(b)
    /\ AgreesWithCheckpoints(b)
    /\ Prev[b] = pindexBest
    /\ ~Connects(txdb, b)
    /\ blkFile' = blkFile \ {b}
    /\ UNCHANGED <<mapBlockIndex, stubs, dangling, pnext, pindexBest, txdb, view,
                   workQueue, phase, pindexNew, cursor>>

\* Any other block above the tip starts Reorganize.
StartReorganize(b) ==
    /\ Enter(b)
    /\ AgreesWithCheckpoints(b)
    /\ Height[b] > Height[pindexBest]
    /\ Prev[b] # pindexBest
    /\ ~ReorganizeRefused(b)
    /\ phase' = "reorg"
    /\ pindexNew' = b
    /\ cursor' = pindexBest
    /\ view' = Recorded(txdb, b)
    /\ UNCHANGED <<stubs, dangling, pnext, pindexBest, txdb, workQueue>>

\* Mutant of NextInQueue: one orphan per queued block, the others are left.
NextInQueueEarly ==
    /\ Idle
    /\ workQueue # <<>>
    /\ workQueue' = Tail(workQueue)
    /\ UNCHANGED <<mapBlockIndex, stubs, dangling, pnext, pindexBest, txdb, view,
                   blkFile, orphans, phase, pindexNew, cursor>>

\* ProcessBlock moves on when no orphan waits for the head of the queue.
NextInQueue ==
    /\ Idle
    /\ workQueue # <<>>
    /\ \A b \in orphans : Prev[b] # Head(workQueue)
    /\ workQueue' = Tail(workQueue)
    /\ UNCHANGED <<mapBlockIndex, stubs, dangling, pnext, pindexBest, txdb, view,
                   blkFile, orphans, phase, pindexNew, cursor>>

-----------------------------------------------------------------------------
(* The loops of Reorganize.  vDisconnect is the path from the tip down to  *)
(* the first entry that pindexNew leads back to, vConnect the path from    *)
(* there up.                                                               *)

\* Mutant of OnNewBranch: the search for the fork does not walk back from pindexNew.
OnNewBranchTip(c) == c = pindexNew /\ ~Deleted(c, pindexNew)

OnNewBranch(c) == c \in Anc[pindexNew] /\ ~Deleted(c, pindexNew)

\* Disconnect shorter branch
DisconnectStep ==
    /\ phase = "reorg"
    /\ ~OnNewBranch(cursor)
    /\ view' = Disconnected(view, cursor)
    /\ cursor' = Prev[cursor]
    /\ UNCHANGED <<mapBlockIndex, stubs, dangling, pnext, pindexBest, txdb, blkFile,
                   orphans, workQueue, phase, pindexNew>>

\* c is the next block of vConnect.
NextToConnect(c) == c \in Anc[pindexNew] /\ Prev[c] = cursor

\* ReadFromDisk for connect: EraseBlockFromDisk left a null block, which fails the
\* proof-of-work test; a deleted entry leads to such a block.
Readable(c) == c \in blkFile /\ ~Deleted(c, pindexNew)

\* Connect longer branch
ConnectStep ==
    /\ phase = "reorg"
    /\ OnNewBranch(cursor)
    /\ \E c \in Block : /\ NextToConnect(c)
                        /\ Readable(c)
                        /\ Connects(view, c)
                        /\ view' = Connected(view, c)
                        /\ cursor' = c
    /\ UNCHANGED <<mapBlockIndex, stubs, dangling, pnext, pindexBest, txdb, blkFile,
                   orphans, workQueue, phase, pindexNew>>

\* A block that cannot be read ends Reorganize; AddToBlockIndex aborts the
\* transaction, and pindexNew stays in the index.
ReadFails ==
    /\ phase = "reorg"
    /\ OnNewBranch(cursor)
    /\ \E c \in Block : NextToConnect(c) /\ ~Readable(c)
    /\ phase' = "idle"
    /\ view' = txdb
    /\ UNCHANGED <<mapBlockIndex, stubs, dangling, pnext, pindexBest, txdb, blkFile,
                   orphans, workQueue, pindexNew, cursor>>

\* Mutant of ConnectFails: the deletion begins one block too early.
ConnectFailsEarly ==
    /\ phase = "reorg"
    /\ OnNewBranch(cursor)
    /\ \E c \in Block : NextToConnect(c) /\ Readable(c) /\ ~Connects(view, c)
    /\ phase' = "erase"
    /\ view' = txdb
    /\ cursor' = Prev[cursor]
    /\ UNCHANGED <<mapBlockIndex, stubs, dangling, pnext, pindexBest, txdb, blkFile,
                   orphans, workQueue, pindexNew>>

\* Invalid block, delete the rest of this branch
ConnectFails ==
    /\ phase = "reorg"
    /\ OnNewBranch(cursor)
    /\ \E c \in Block : NextToConnect(c) /\ Readable(c) /\ ~Connects(view, c)
    /\ phase' = "erase"
    /\ view' = txdb
    /\ UNCHANGED <<mapBlockIndex, stubs, dangling, pnext, pindexBest, txdb, blkFile,
                   orphans, workQueue, pindexNew, cursor>>

\* Mutant of EraseStep: the bytes of the deleted block stay in the file.
EraseStepKeeping ==
    /\ phase = "erase"
    /\ phase' = "unindex"
    /\ UNCHANGED <<mapBlockIndex, stubs, dangling, pnext, pindexBest, txdb, view,
                   blkFile, orphans, workQueue, pindexNew, cursor>>

\* EraseBlockFromDisk of vConnect[j]
EraseStep ==
    /\ phase = "erase"
    /\ \E c \in Block : NextToConnect(c) /\ blkFile' = blkFile \ {c}
    /\ phase' = "unindex"
    /\ UNCHANGED <<mapBlockIndex, stubs, dangling, pnext, pindexBest, txdb, view,
                   orphans, workQueue, pindexNew, cursor>>

\* EraseBlockIndex, outside any transaction, and the entry is deleted: every
\* other entry that points to it now dangles.
UnindexStep ==
    /\ phase = "unindex"
    /\ \E c \in Block :
          /\ NextToConnect(c)
          /\ txdb' = [txdb EXCEPT !.blockindex = @ \ {c}]
          /\ view' = txdb'
          /\ mapBlockIndex' = mapBlockIndex \ {c}
          /\ dangling' = (dangling \cup {d \in mapBlockIndex : Prev[d] = c}) \ {c}
          /\ cursor' = c
          /\ phase' = IF c = pindexNew THEN "idle" ELSE "erase"
    /\ UNCHANGED <<stubs, pnext, pindexBest, blkFile, orphans, workQueue, pindexNew>>

\* Mutant of Relinked: the links of the new branch are not set.
RelinkedHalf(p) ==
    IF \E c \in Anc[pindexBest] \ Anc[pindexNew] : Prev[c] = p THEN NoBlock ELSE pnext[p]

\* pnext is cleared along the old branch, then set along the new one.
Relinked(p) ==
    LET old == {c \in Anc[pindexBest] \ Anc[pindexNew] : Prev[c] = p}
        new == {c \in Anc[pindexNew] \ Anc[pindexBest] : Prev[c] = p}
    IN  IF new # {} THEN CHOOSE c \in new : TRUE
        ELSE IF old # {} THEN NoBlock ELSE pnext[p]

\* WriteHashBestChain, TxnCommit, and the memory index follows.
CommitReorganize ==
    /\ phase = "reorg"
    /\ cursor = pindexNew
    /\ txdb' = Best(view, pindexNew)
    /\ view' = txdb'
    /\ pnext' = [p \in Block |-> Relinked(p)]
    /\ pindexBest' = pindexNew
    /\ phase' = "idle"
    /\ workQueue' = Append(workQueue, pindexNew)
    /\ UNCHANGED <<mapBlockIndex, stubs, dangling, blkFile, orphans, pindexNew, cursor>>

-----------------------------------------------------------------------------
(* The process is killed, and LoadBlockIndex builds memory from disk.      *)

Restart ==
    LET records == txdb.blockindex
        named   == {Prev[b] : b \in records} \cup {txdb.hashNext[b] : b \in records}
    IN  /\ mapBlockIndex' = (records \cup named) \ {NoBlock}
        /\ stubs' = (named \ records) \ {NoBlock}
        /\ dangling' = {}
        /\ pnext' = [b \in Block |-> IF b \in records THEN txdb.hashNext[b] ELSE NoBlock]
        /\ pindexBest' = txdb.hashBestChain
        /\ view' = txdb
        /\ orphans' = {}
        /\ workQueue' = <<>>
        /\ phase' = "idle"
        /\ UNCHANGED <<txdb, blkFile, pindexNew, cursor>>

\* LoadBlockIndex on an empty data directory writes genesis and records it; its
\* coinbase never enters the transaction index.
GenesisDB == [blockindex    |-> {Genesis},
              hashNext      |-> [b \in Block |-> NoBlock],
              hashBestChain |-> Genesis,
              pos           |-> [t \in Tx |-> NoBlock],
              vSpent        |-> [o \in OutPoint |-> NoBlock]]

Init ==
    /\ mapBlockIndex = {Genesis}
    /\ stubs = {}
    /\ dangling = {}
    /\ pnext = [b \in Block |-> NoBlock]
    /\ pindexBest = Genesis
    /\ txdb = GenesisDB
    /\ view = GenesisDB
    /\ blkFile = {Genesis}
    /\ orphans = {}
    /\ workQueue = <<>>
    /\ phase = "idle"
    /\ pindexNew = Genesis
    /\ cursor = Genesis

ProcessBlock(b) ==
    \/ KeepOrphan(b)
    \/ RefuseOrphan(b)
    \/ AddRejected(b)
    \/ AddSideBlock(b)
    \/ ExtendBestChain(b)
    \/ ExtendFails(b)
    \/ StartReorganize(b)

Reorganize ==
    \/ DisconnectStep
    \/ ConnectStep
    \/ ReadFails
    \/ ConnectFails
    \/ EraseStep
    \/ UnindexStep
    \/ CommitReorganize

Next ==
    \/ \E b \in Block \ {Genesis} : ProcessBlock(b)
    \/ NextInQueue
    \/ Reorganize
    \/ Restart

Spec == Init /\ [][Next]_vars

\* ProcessBlock is a loop in one thread that holds cs_main: once begun it goes on,
\* unless the process is killed.
Handler ==
    /\ workQueue # <<>> \/ ~Idle
    /\ \/ \E b \in Block \ {Genesis} : ProcessBlock(b)
       \/ NextInQueue
       \/ Reorganize

FairSpec == Spec /\ WF_vars(Handler)

-----------------------------------------------------------------------------
(* Properties.                                                             *)

\* db is what connecting the blocks up to tip, one by one, would have written.
Replays(db, tip) ==
    /\ \A t \in Tx, b \in Block : db.pos[t] = b <=> b \in Branch(tip) /\ t \in TxsOf(b)
    /\ \A o \in OutPoint, b \in Block : db.vSpent[o] = b <=> b \in Branch(tip) /\ o \in Spends(b)
    /\ \A p, b \in Block : db.hashNext[p] = b <=> b \in Branch(tip) /\ Prev[b] = p

\* The transaction index is a function of the best chain: whatever was connected,
\* disconnected, aborted or interrupted before, committed positions, spent marks
\* and forward links are those of the blocks from genesis to hashBestChain, and
\* within Reorganize those of the branch up to the block it has reached.
IndexReplaysChain ==
    /\ Replays(txdb, txdb.hashBestChain)
    /\ phase = "reorg" => Replays(view, cursor)

\* "pnext will only point forward to the longest branch, or will be null if the
\* block is not part of the longest chain" (main.h:1094): IsInMainChain answers
\* for the branch of pindexBest and no other block.
MainChainLinked ==
    \A b \in Block : /\ IsInMainChain(b) <=> b \in Anc[pindexBest]
                     /\ pnext[b] # NoBlock => Prev[pnext[b]] = b

\* Every block of the best chain keeps its index entry, its record and its bytes,
\* and can be walked back from: the deletion of an invalid branch and the loading
\* of an index with holes never touch it, so it can always be disconnected.
BestBranchStored ==
    Anc[pindexBest] \subseteq
        (mapBlockIndex \cap txdb.blockindex \cap blkFile) \ (stubs \cup dangling)

\* A valid branch that the node holds in full, be it as orphans, is connected unless
\* something better is: no orphan waits for a block that is there.  The handler
\* runs to its end, it waits for nothing.
Held(b) == Anc[b] \subseteq mapBlockIndex \cup orphans
BranchAdopted ==
    \A b \in {c \in Block : ValidBranch(c)} :
        Held(b) ~> Height[pindexBest] >= Height[b] \/ ~Held(b)

\* A restart at any moment gives back the tip and the links of before.
RestartRestores ==
    [][Restart => pindexBest' = pindexBest /\ pnext' = pnext]_vars

\* The committed database implements the abstract ledger.
L == INSTANCE Ledger WITH
        tip       <- txdb.hashBestChain,
        confirmed <- {t \in Tx : txdb.pos[t] # NoBlock},
        spent     <- {o \in OutPoint : txdb.vSpent[o] # NoBlock}
ImplementsLedger == L!Spec
=============================================================================
