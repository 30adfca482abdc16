------------------------------ MODULE MCWallet ------------------------------
(* Instances of Wallet for TLC. *)
EXTENDS Wallet, TLC

\* Two payments to the wallet; a copy of it spends the first.
TwoSpends == "c1" :> {"x1"} @@ "c2" :> {"x2"} @@ "k" :> {"c1"}
TwoValues == "c1" :> 3 @@ "c2" :> 4
=============================================================================
