----------------------------- MODULE SmallTrees -----------------------------
(***************************************************************************)
(* How the MC modules write a small block tree down: the parent of each    *)
(* block, the transactions of its body, and what those spend.              *)
(***************************************************************************)
EXTENDS BlockTree

\* Height and ancestors as the parent links give them.
HeightIn(prev) ==
    LET h[b \in DOMAIN prev] == IF prev[b] = NoBlock THEN 0 ELSE h[prev[b]] + 1 IN h
AncIn(prev) ==
    LET a[b \in DOMAIN prev] == {b} \cup IF prev[b] = NoBlock THEN {} ELSE a[prev[b]] IN a

\* The coinbase of block b, and the transaction named n.
cb(b) == <<"coinbase", b>>
tx(n) == <<"tx", n>>
VtxIn(prev, body) ==
    [b \in DOMAIN prev |-> <<cb(b)>> \o IF b \in DOMAIN body THEN body[b] ELSE <<>>]
TxIn(prev, vin)  == {cb(b) : b \in DOMAIN prev} \cup {tx(n) : n \in DOMAIN vin}
VinIn(prev, vin) == [t \in TxIn(prev, vin) |-> IF t[1] = "tx" THEN vin[t[2]] ELSE <<>>]
=============================================================================
