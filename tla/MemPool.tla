------------------------------- MODULE MemPool -------------------------------
(***************************************************************************)
(* The memory pool: transactions waiting for a block, the index of the     *)
(* outputs they spend, and the transactions held until their inputs come.  *)
(* What the block chain says of a transaction is a parameter of each       *)
(* operation; NodePool supplies it.  The wallet, which is told of every    *)
(* accepted and replaced transaction, is another component.                *)
(***************************************************************************)
EXTENDS BlockTree

CONSTANTS
    NoTx,       \* no entry in mapNextTx
    Standard,   \* transactions that pass CheckTransaction, IsStandardTx and the
                \*   nLockTime limit
    Newer,      \* <<t, u>> \in Newer: t.IsNewerThan(u)
    Heard,      \* the transactions peers send
    WalletTx    \* transactions the wallet may hold when the node starts

VARIABLES
    mapTransactions,        \* the pool
    mapNextTx,              \* mapNextTx[o]: the pool transaction o.ptx points to
    mapOrphanTransactions,  \* transactions held for want of inputs
    txQueue,                \* the part of vWorkQueue that is still to be walked
    txAccepted,             \* all of vWorkQueue
    txTried                 \* the orphans tried for the head of txQueue

poolVars == <<mapTransactions, mapNextTx, mapOrphanTransactions, txQueue, txAccepted, txTried>>

\* IsNewerThan compares transactions with the same inputs, by the lowest of the
\* sequence numbers that differ: no transaction is newer than itself, and what is
\* newer than a newer one is newer.
ASSUME PoolAssumption ==
    /\ NoTx \notin Tx
    /\ Standard \subseteq Tx
    /\ Newer \subseteq {p \in Tx \X Tx : Vin[p[1]] = Vin[p[2]] /\ p[1] # p[2]}
    /\ \A p, q \in Newer : p[2] = q[1] => <<p[1], q[2]>> \in Newer
    /\ Heard \subseteq Tx
    /\ WalletTx \subseteq Tx

PoolTypeOK ==
    /\ mapTransactions \in SUBSET (Standard \ CoinBase)
    /\ mapNextTx \in [OutPoint -> Tx \cup {NoTx}]
    /\ mapOrphanTransactions \in SUBSET Tx
    /\ txQueue \in Seq(Tx)
    /\ txAccepted \in SUBSET Tx
    /\ txTried \in SUBSET Tx

\* The transactions t spends outputs of.
Parents(t) == {o[1] : o \in Inputs(t)}

-----------------------------------------------------------------------------
(* AcceptTransaction                                                       *)

\* The pool transactions that spend an input of t.
Conflicts(t) == {mapNextTx[o] : o \in Inputs(t)} \ {NoTx}

\* t conflicts with nothing, or replaces an older version of itself: the one
\* transaction that all its inputs are already spent by.
NoConflict(t) ==
    \/ Conflicts(t) = {}
    \/ \E u \in Tx : <<t, u>> \in Newer /\ \A o \in Inputs(t) : mapNextTx[o] = u

\* Mutant of Fits: a coinbase is accepted by itself.
FitsCoinBase(t) == t \in Standard \ mapTransactions /\ NoConflict(t)

\* The tests of AcceptTransaction that do not look at the block chain.
Fits(t) == t \in Standard \ (CoinBase \cup mapTransactions) /\ NoConflict(t)

\* AddToMemoryPool of the transactions S, after the erasure of those replaced.
\* No two of S spend the same output.
Added(S) == (mapTransactions \ UNION {Conflicts(t) : t \in S}) \cup S
NextAdded(S) == [o \in OutPoint |-> IF \E t \in S : o \in Inputs(t)
                                    THEN CHOOSE t \in S : o \in Inputs(t)
                                    ELSE mapNextTx[o]]

\* Mutant of NextRemoved: the index is left alone.
NextKept(next, S) == next

\* RemoveFromMemoryPool of the transactions S, from a pool and its index: the
\* entries of their inputs go, whichever transaction they point to.
Removed(pool, S) == pool \ S
NextRemoved(next, S) == [o \in OutPoint |-> IF \E t \in S : o \in Inputs(t) THEN NoTx ELSE next[o]]

PoolInit ==
    /\ mapTransactions = {}
    /\ mapNextTx = [o \in OutPoint |-> NoTx]
    /\ mapOrphanTransactions = {}
    /\ txQueue = <<>>
    /\ txAccepted = {}
    /\ txTried = {}

-----------------------------------------------------------------------------
(* The handler of a tx message: confirmed(t) says that the database has t,  *)
(* connects(t) that ConnectInputs succeeds.                                 *)

NoTxMessage == txAccepted = {}

Acceptance(t) ==
    /\ mapTransactions' = Added({t})
    /\ mapNextTx' = NextAdded({t})
    /\ txQueue' = Append(txQueue, t)
    /\ txAccepted' = txAccepted \cup {t}

\* The transaction is accepted, and those held for it will be looked at.
TxAccepted(t, confirmed, connects) ==
    /\ NoTxMessage
    /\ Fits(t) /\ ~confirmed /\ connects
    /\ Acceptance(t)
    /\ UNCHANGED <<mapOrphanTransactions, txTried>>

\* fMissingInputs, which says only that ConnectInputs failed: the transaction is
\* held.
TxHeld(t, confirmed, connects) ==
    /\ NoTxMessage
    /\ Fits(t) /\ ~confirmed /\ ~connects
    /\ t \notin mapOrphanTransactions
    /\ mapOrphanTransactions' = mapOrphanTransactions \cup {t}
    /\ UNCHANGED <<mapTransactions, mapNextTx, txQueue, txAccepted, txTried>>

\* A held transaction that depends on the head of the queue is tried, once.  It
\* stays in the holding area till the queue is done.
Waits(t) == /\ txQueue # <<>>
            /\ t \in mapOrphanTransactions \ txTried
            /\ Head(txQueue) \in Parents(t)

TryOrphan(t, confirmed, connects) ==
    /\ Waits(t)
    /\ txTried' = txTried \cup {t}
    /\ IF Fits(t) /\ ~confirmed /\ connects
       THEN Acceptance(t)
       ELSE UNCHANGED <<mapTransactions, mapNextTx, txQueue, txAccepted>>
    /\ UNCHANGED mapOrphanTransactions

\* Mutant of NextTx: the walk over the held transactions ends with the first that
\* is accepted.
NextTxEarly ==
    /\ txQueue # <<>>
    /\ txTried # {} \/ \A t \in mapOrphanTransactions : ~Waits(t)
    /\ txQueue' = Tail(txQueue)
    /\ txTried' = {}
    /\ UNCHANGED <<mapTransactions, mapNextTx, mapOrphanTransactions, txAccepted>>

\* The next element of vWorkQueue.
NextTx ==
    /\ txQueue # <<>>
    /\ \A t \in mapOrphanTransactions : ~Waits(t)
    /\ txQueue' = Tail(txQueue)
    /\ txTried' = {}
    /\ UNCHANGED <<mapTransactions, mapNextTx, mapOrphanTransactions, txAccepted>>

\* EraseOrphanTx of everything that was accepted.
FinishTx ==
    /\ txAccepted # {}
    /\ txQueue = <<>>
    /\ mapOrphanTransactions' = mapOrphanTransactions \ txAccepted
    /\ txAccepted' = {}
    /\ UNCHANGED <<mapTransactions, mapNextTx, txQueue, txTried>>

-----------------------------------------------------------------------------
\* No pointer of mapNextTx leads to a transaction that was erased:
\* AcceptTransaction follows it to compare versions.
NextTxValid ==
    \A o \in OutPoint : mapNextTx[o] # NoTx =>
        mapNextTx[o] \in mapTransactions /\ o \in Inputs(mapNextTx[o])
=============================================================================
