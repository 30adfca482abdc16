----------------------------- MODULE MCInterface -----------------------------
(***************************************************************************)
(* A wallet with one key, and a second one to come: a coinbase, a receipt, *)
(* a payment to two others with change and fee, one to oneself, and one    *)
(* put together with somebody else.  Two strings are one address; one is   *)
(* somebody else's and one is none.  The list and the dialog have nothing  *)
(* in common, and a behaviour is of the one or of the other.               *)
(***************************************************************************)
EXTENDS WalletList, SendingDialog

CONSTANTS ListTxs,      \* what the wallet may have while the list is looked at
          AnswerTxs,    \* and while the answers are,
          MaxBook       \* and a bound on the address book

Other == "other"
MCTxs == {"base", "receipt", "payment", "self", "mixed"}
MCIn == [base    |-> {},
         receipt |-> {<<"foreign", 1>>},
         payment |-> {<<"receipt", 1>>},
         self    |-> {<<"base", 1>>},
         mixed   |-> {<<"receipt", 2>>, <<"foreign", 2>>}]
Pays(to, type, value) == [to |-> to, type |-> type, value |-> value]
MCOut == [base    |-> <<Pays("h1", "key", 5)>>,
          receipt |-> <<Pays("h1", "address", 7), Pays("h1", "address", 3), Pays(Other, "address", 2)>>,
          payment |-> <<Pays("h1", "address", 1), Pays(Other, "address", 2), Pays(Other, "key", 3)>>,
          self    |-> <<Pays("h1", "address", 4)>>,
          mixed   |-> <<Pays("h2", "key", 1), Pays(Other, "address", 3)>>]
MCListTxs == SUBSET {"base", "receipt"} \cup SUBSET {"receipt", "payment"}
MCAnswerTxs == SUBSET {"base", "receipt", "self"} \cup {{"payment", "receipt"}, {"mixed", "receipt"}}
MCStrings == {"a1", "a1 ", "a2", "b"}
MCAddressOf == [s \in MCStrings |->
    CASE s \in {"a1", "a1 "} -> "h1" [] s = "a2" -> "h2" [] OTHER -> "invalid"]

VARIABLE mode           \* which of the machines runs

allVars == <<historyVars, listVars, dialogVars, mode>>
Taken == DOMAIN mapWallet' \cup UNION Range(vtx')
ListMode == mode = "list" /\ Taken \in ListTxs
                          /\ UNCHANGED <<mapAddressBook, dialogVars, mode>>
AnswerMode == mode = "answer" /\ Taken \in AnswerTxs
                              /\ Cardinality(DOMAIN mapAddressBook') <= MaxBook
                              /\ UNCHANGED <<listVars, dialogVars, mode>>
DialogMode == mode = "dialog" /\ UNCHANGED <<historyVars, listVars, mode>>

Init == ListInit /\ InitDialog /\ mode \in {"list", "answer", "dialog"}
Next == \/ (ListNext \/ (HistoryNext /\ UNCHANGED listVars)) /\ ListMode
        \/ (HistoryNext \/ setlabel) /\ AnswerMode
        \/ DialogNext /\ DialogMode
Spec == Init /\ [][Next]_allVars
=============================================================================
