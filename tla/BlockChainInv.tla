---------------------------- MODULE BlockChainInv ----------------------------
(***************************************************************************)
(* The inductive invariant behind the properties of BlockChain.            *)
(***************************************************************************)
EXTENDS BlockChain

\* The parent link of an entry leads to an entry, unless it dangles or the entry
\* has none.
LinksLead ==
    /\ stubs \cup dangling \subseteq mapBlockIndex
    /\ \A b \in mapBlockIndex \ (stubs \cup dangling \cup {Genesis}) : Prev[b] \in mapBlockIndex
    /\ \A d \in dangling : Prev[d] \notin {NoBlock, Genesis}

\* Between transactions memory and disk tell the same story.
Settled ==
    /\ txdb.hashBestChain = pindexBest
    /\ Replays(txdb, pindexBest)
    /\ ValidBranch(pindexBest)
    /\ \A p, b \in Block : pnext[p] = b <=> b \in Branch(pindexBest) /\ Prev[b] = p
    /\ phase # "reorg" => view = txdb

\* A deleted entry that a dangling pointer leads to has no bytes on disk, unless
\* the block was received again and has a new entry.
DeletedErased == \A d \in dangling : Anc[d] \cap blkFile \subseteq mapBlockIndex

\* Everything Reorganize has connected so far can be walked and read.
CursorStored ==
    /\ Anc[cursor] \subseteq (mapBlockIndex \cap blkFile) \ dangling
    /\ Anc[cursor] \ {cursor} \subseteq view.blockindex

\* The new branch is above the tip, its own entry is intact, and the blocks it
\* shares with the old branch are below the cursor, but for those it reaches only
\* as deleted entries.
Reorganizing ==
    /\ Height[pindexNew] > Height[pindexBest]
    /\ pindexNew \in (blkFile \cap view.blockindex) \ dangling
    /\ view.blockindex \subseteq mapBlockIndex
    /\ Anc[pindexNew] \cap stubs = {}
    /\ Replays(view, cursor)
    /\ ValidBranch(cursor)
    /\ CursorStored
    /\ \A a \in Anc[pindexNew] \cap Anc[pindexBest] : a \in Anc[cursor] \/ Deleted(a, pindexNew)

\* The blocks still to be deleted are not in the main chain.
Deleting ==
    /\ cursor \in Anc[pindexNew] \ {pindexNew}
    /\ Anc[pindexNew] \cap stubs = {}
    /\ Anc[cursor] \cap blkFile \subseteq mapBlockIndex
    /\ \A a \in Anc[pindexNew] \cap Anc[pindexBest] : a \in Anc[cursor]
    /\ phase = "unindex" => \A c \in Block : NextToConnect(c) => c \notin blkFile

IInv ==
    /\ TypeOK
    /\ txdb.blockindex \subseteq mapBlockIndex
    /\ LinksLead
    /\ DeletedErased
    /\ Settled
    /\ BestBranchStored
    /\ phase = "reorg" => Reorganizing
    /\ phase \in {"erase", "unindex"} => Deleting
=============================================================================
