------------------------------- MODULE Ledger -------------------------------
(***************************************************************************)
(* What the block chain of a node promises to the rest of the program: a   *)
(* ledger of confirmed transactions and spent outputs that always belongs  *)
(* to one valid branch, and moves, whole, from a branch to a higher one.   *)
(* BlockChain implements it with a database that it changes block by       *)
(* block.                                                                  *)
(***************************************************************************)
EXTENDS BlockTree

VARIABLES
    tip,        \* the last block of the branch
    confirmed,  \* the transactions of the branch
    spent       \* the outpoints they spend

ledgerVars == <<tip, confirmed, spent>>

Init ==
    /\ tip = Genesis
    /\ confirmed = {}
    /\ spent = {}

\* The ledger moves to a higher valid branch, in one step.
Adopt(b) ==
    /\ Height[b] > Height[tip]
    /\ ValidBranch(b)
    /\ tip' = b
    /\ confirmed' = UNION {TxsOf(a) : a \in Branch(b)}
    /\ spent' = UNION {Spends(a) : a \in Branch(b)}

Next == \E b \in Block : Adopt(b)

Spec == Init /\ [][Next]_ledgerVars
=============================================================================
