------------------------------ MODULE NodePool ------------------------------
(***************************************************************************)
(* The block chain and the memory pool of one node.  Both are changed under *)
(* cs_main: a block message and all it leads to, or a tx message and all it *)
(* leads to, runs to its end before the next.                              *)
(***************************************************************************)
EXTENDS BlockChain, MemPool

nodeVars == <<vars, poolVars>>

Confirmed(t) == txdb.pos[t] # NoBlock

\* ConnectInputs of a loose transaction: each input names an output, mature if of
\* a coinbase and not spent, of a confirmed or of a pool transaction.
ConnectsLoose(t) ==
    /\ t \in Sound
    /\ \A o \in Inputs(t) :
          /\ o[2] \in Vout[o[1]]
          /\ Confirmed(o[1]) => /\ o[1] \in CoinBase => Mature(txdb.pos[o[1]])
                                /\ txdb.vSpent[o] = NoBlock
          /\ ~Confirmed(o[1]) => o[1] \in mapTransactions

-----------------------------------------------------------------------------
(* What the block chain does to the pool.                                   *)

\* A block that extends the chain takes its transactions out of the pool.
ConfirmBlock(b) ==
    /\ ExtendBestChain(b)
    /\ mapTransactions' = Removed(mapTransactions, TxsOf(b))
    /\ mapNextTx' = NextRemoved(mapNextTx, TxsOf(b))
    /\ UNCHANGED <<mapOrphanTransactions, txQueue, txAccepted, txTried>>

\* The transactions of the blocks a reorganization disconnects, and connects.
vResurrect == UNION {TxsOf(a) \ CoinBase : a \in Anc[pindexBest] \ Anc[pindexNew]}
vDelete    == UNION {TxsOf(a) : a \in Anc[pindexNew] \ Anc[pindexBest]}

\* Those that fit are accepted without a look at their inputs; no two of them
\* conflict, so the order does not matter.
Resurrected == {t \in vResurrect : Fits(t)}

\* Mutants: the two are done in the other order; nothing is resurrected.
PoolReorganizedBackwards ==
    LET back == {t \in vResurrect : Fits(t) \/ t \in vDelete}
    IN  /\ mapTransactions' = Removed(mapTransactions, vDelete) \cup back
        /\ mapNextTx' = NextAdded(back)
PoolReorganizedForgetting ==
    /\ mapTransactions' = Removed(mapTransactions, vDelete)
    /\ mapNextTx' = NextRemoved(mapNextTx, vDelete)

\* After the commit, resurrect what was disconnected, then delete what was connected.
PoolReorganized ==
    /\ mapTransactions' = Removed(Added(Resurrected), vDelete)
    /\ mapNextTx' = NextRemoved(NextAdded(Resurrected), vDelete)

SwitchBranch ==
    /\ CommitReorganize
    /\ PoolReorganized
    /\ UNCHANGED <<mapOrphanTransactions, txQueue, txAccepted, txTried>>

\* After a restart ReacceptWalletTransactions puts unconfirmed transactions of the
\* wallet into the pool, without a look at their inputs but not two that conflict.
RestartNode ==
    /\ Restart
    /\ \E S \in SUBSET {t \in (WalletTx \cap Standard) \ CoinBase : ~Confirmed(t)} :
          /\ \A t, u \in S : Inputs(t) \cap Inputs(u) # {} => t = u
          /\ mapTransactions' = S
          /\ mapNextTx' = [o \in OutPoint |-> IF \E t \in S : o \in Inputs(t)
                                              THEN CHOOSE t \in S : o \in Inputs(t) ELSE NoTx]
    /\ mapOrphanTransactions' = {}
    /\ txQueue' = <<>>
    /\ txAccepted' = {}
    /\ txTried' = {}

\* The rest of the chain's steps leave the pool alone.
BlockMessage(b) ==
    /\ NoTxMessage
    /\ \/ ConfirmBlock(b)
       \/ /\ KeepOrphan(b) \/ RefuseOrphan(b) \/ AddRejected(b) \/ AddSideBlock(b)
             \/ ExtendFails(b) \/ StartReorganize(b)
          /\ UNCHANGED poolVars

ChainStep ==
    \/ SwitchBranch
    \/ /\ NextInQueue \/ DisconnectStep \/ ConnectStep \/ ReadFails \/ ConnectFails
          \/ EraseStep \/ UnindexStep
       /\ UNCHANGED poolVars

\* A tx message, when no block is being processed.
TxMessage ==
    /\ Idle /\ workQueue = <<>>
    /\ \/ \E t \in Heard : TxAccepted(t, Confirmed(t), ConnectsLoose(t))
       \/ \E t \in Heard : TxHeld(t, Confirmed(t), ConnectsLoose(t))
       \/ \E t \in mapOrphanTransactions : TryOrphan(t, Confirmed(t), ConnectsLoose(t))
       \/ NextTx
       \/ FinishTx
    /\ UNCHANGED vars

NodeInit == Init /\ PoolInit

NodeNext ==
    \/ \E b \in Block \ {Genesis} : BlockMessage(b)
    \/ ChainStep
    \/ RestartNode
    \/ TxMessage

NodeSpec == NodeInit /\ [][NodeNext]_nodeVars

-----------------------------------------------------------------------------
\* What is confirmed has left the pool, however it got there: by a message, from
\* the wallet at start, or from a branch that was left.
PoolUnconfirmed == \A t \in mapTransactions : ~Confirmed(t)

\* A transaction that a reorganization unconfirms is not forgotten: it is in the
\* pool again, or one of its inputs is spent by the pool or by the new branch, or
\* the pool does not take such transactions.
UnconfirmedKept ==
    [][\A t \in Standard \ CoinBase :
          txdb.pos[t] # NoBlock /\ txdb'.pos[t] = NoBlock =>
              \/ t \in mapTransactions'
              \/ \E o \in Inputs(t) : mapNextTx[o] # NoTx]_nodeVars

\* "Recursively process any orphan transactions that depended on this one"
\* (main.cpp:2385): when a tx message is done, nothing that is still held and spends
\* an output of an accepted transaction could be accepted.
OrphansProcessed ==
    [][FinishTx => \A t \in mapOrphanTransactions' :
          Parents(t) \cap txAccepted # {} => ~(Fits(t) /\ ~Confirmed(t) /\ ConnectsLoose(t))]_nodeVars
=============================================================================
