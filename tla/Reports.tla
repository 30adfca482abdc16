------------------------------- MODULE Reports -------------------------------
(***************************************************************************)
(* The answers of the JSON-RPC calls on the wallet (src/rpc.cpp), as       *)
(* operators of the state of WalletHistory.  A list is the set of its      *)
(* entries; counts, times and the comments of a payment are left out, and  *)
(* every transaction is final.                                             *)
(***************************************************************************)
EXTENDS WalletHistory

Nowhere == "nowhere"                    \* no address in the answer
Depths == {0, 2}                        \* minconf in the calls checked

ExtractAddress(out) == IF out.type \in {"address", "key"} THEN out.to ELSE Nowhere
-----------------------------------------------------------------------------
(* gettransaction, for a transaction of the wallet.                        *)
Detail(t, i) == [category |-> IF i \in Others(t) THEN "send"
                              ELSE IF t \in Coinbases THEN "generate" ELSE "receive",
                 n |-> i, address |-> ExtractAddress(Out[t][i]),
                 amount |-> IF i \in Others(t) THEN -Out[t][i].value ELSE Out[t][i].value]

gettransaction(t) ==
    [confirmations |-> GetDepthInMainChain(t),
     amount |-> GetCredit(t) - GetDebit(t),
     fee |-> IF GetDebit(t) > 0 THEN GetDebit(t) - GetValueOut(t) ELSE 0,
     details |-> {Detail(t, i) : i \in (IF GetDebit(t) > 0 THEN Others(t) ELSE {})
                                       \cup (IF GetCredit(t) > 0 THEN Mine(t) ELSE {})}]

(* listtransactions: what it has for a transaction, unless it is a         *)
(* coinbase too young.  The fee goes to the first output that is sent.     *)
Entry(t, i) ==
    LET d == Detail(t, i)
    IN  [txid |-> t, category |-> d.category, n |-> d.n, address |-> d.address, fee |-> 0,
         amount |-> d.amount, confirmations |-> GetDepthInMainChain(t)]

\* Mutant of SentEntry: every output has the fee.
SentEntryFee(t, i) == [Entry(t, i) EXCEPT !.fee = GetValueOut(t) - GetDebit(t)]
SentEntry(t, i) ==
    [Entry(t, i) EXCEPT !.fee = IF i = Min(Others(t)) THEN GetValueOut(t) - GetDebit(t) ELSE 0]

EntriesOf(t) ==
    IF t \in Coinbases
    THEN {[txid |-> t, category |-> "generate", n |-> 0, address |-> Nowhere, fee |-> 0,
           amount |-> GetCredit(t), confirmations |-> GetDepthInMainChain(t)]}
    ELSE {SentEntry(t, i) : i \in IF GetDebit(t) > 0 THEN Others(t) ELSE {}}
         \cup {Entry(t, i) : i \in IF GetCredit(t) > 0 THEN Mine(t) ELSE {}}

Listable(t, fIncludeGenerated) ==
    t \in Coinbases => fIncludeGenerated /\ GetDepthInMainChain(t) >= CoinbaseMaturity

listtransactions(fIncludeGenerated) ==
    UNION {EntriesOf(t) : t \in {x \in DOMAIN mapWallet : Listable(x, fIncludeGenerated)}}
-----------------------------------------------------------------------------
(* What addresses have received: getreceivedbyaddress compares the script  *)
(* of the address, so payments to a key do not count.                      *)
Paid(t, hash) == {i \in DOMAIN Out[t] : Out[t][i].type = "address" /\ Out[t][i].to = hash}
Counting(minDepth) == {t \in DOMAIN mapWallet \ Coinbases : GetDepthInMainChain(t) >= minDepth}
Received(hashes, minDepth) ==
    SumFunction([t \in Counting(minDepth) |-> ValueOf(t, UNION {Paid(t, h) : h \in hashes})])

getreceivedbyaddress(s, minDepth) ==
    IF AddressOf[s] \in keys THEN Received({AddressOf[s]}, minDepth) ELSE 0

Labelled(l) == {s \in DOMAIN mapAddressBook : mapAddressBook[s] = l}

getreceivedbylabel(l, minDepth) ==
    Received({AddressOf[s] : s \in Labelled(l)} \cap keys, minDepth)

getlabel(s) == IF s \in DOMAIN mapAddressBook THEN mapAddressBook[s] ELSE ""
getaddressesbylabel(l) == {s \in Labelled(l) : AddressOf[s] # Invalid}

validateaddress(s) ==
    [isvalid |-> AddressOf[s] # Invalid, ismine |-> AddressOf[s] \in keys, label |-> getlabel(s)]

(* ListReceived: the tally by hash, and then an entry for each address of  *)
(* the book or, added up, for each label.                                  *)
NoConf == 1000                          \* INT_MAX
Tallied(minDepth) == {h \in keys : \E t \in Counting(minDepth) : Paid(t, h) # {}}
\* Mutant of TallyAmount: the depth has to be exceeded.
TallyAmountDeeper(h, minDepth) == Received({h}, minDepth + 1)
TallyAmount(h, minDepth) == Received({h}, minDepth)
TallyConf(h, minDepth) ==
    Min({NoConf} \cup {GetDepthInMainChain(t) : t \in {x \in Counting(minDepth) : Paid(x, h) # {}}})

Reported(minDepth, fIncludeEmpty) ==
    {s \in DOMAIN mapAddressBook : /\ AddressOf[s] # Invalid
                                   /\ AddressOf[s] \in Tallied(minDepth) \/ fIncludeEmpty}

AmountAt(s, minDepth) ==
    IF AddressOf[s] \in Tallied(minDepth) THEN TallyAmount(AddressOf[s], minDepth) ELSE 0
ConfAt(s, minDepth) ==
    IF AddressOf[s] \in Tallied(minDepth) THEN TallyConf(AddressOf[s], minDepth) ELSE NoConf

listreceivedbyaddress(minDepth, fIncludeEmpty) ==
    {[address |-> s, label |-> mapAddressBook[s], amount |-> AmountAt(s, minDepth),
      confirmations |-> ConfAt(s, minDepth) % NoConf] : s \in Reported(minDepth, fIncludeEmpty)}

listreceivedbylabel(minDepth, fIncludeEmpty) ==
    {LET items == {s \in Reported(minDepth, fIncludeEmpty) : mapAddressBook[s] = l}
     IN  [label |-> l, amount |-> SumFunction([s \in items |-> AmountAt(s, minDepth)]),
          confirmations |-> Min({ConfAt(s, minDepth) : s \in items}) % NoConf] :
        l \in {mapAddressBook[s] : s \in Reported(minDepth, fIncludeEmpty)}}
-----------------------------------------------------------------------------
(* listunspent reads from the transaction index which outputs the main     *)
(* chain has spent.                                                        *)
SpentInChain(t, i) == \E x \in Chained(chain) : <<t, i>> \in In[x]

listunspent(minDepth) ==
    UNION {{[txid |-> t, vout |-> i, amount |-> Out[t][i].value,
             confirmations |-> GetDepthInMainChain(t)] : i \in {j \in Mine(t) : ~SpentInChain(t, j)}} :
           t \in {x \in DOMAIN mapWallet : /\ GetBlocksToMaturity(x) = 0
                                           /\ GetDepthInMainChain(x) >= minDepth
                                           /\ x \in Chained(chain)}}
-----------------------------------------------------------------------------
Amounts(entries) == SumFunction([e \in entries |-> e.amount])
Fees(entries) == SumFunction([e \in entries |-> e.fee])

(* The amounts gettransaction gives for what the main chain has add up to  *)
(* the coins listunspent lists: nothing is counted twice or lost between   *)
(* the history and the coins, after any reorganization, whenever no block  *)
(* is being connected.                                                     *)
HistoryAddsUp ==
    connecting = <<>> =>
        SumFunction([t \in {x \in DOMAIN mapWallet : GetDepthInMainChain(x) > 0} |->
                        gettransaction(t).amount])
            = Amounts(listunspent(1))

(* For every transaction that listtransactions lists, what it sends and    *)
(* its fee are the amount that gettransaction gives, if anybody else is    *)
(* paid; otherwise the fee is not listed, and what it receives is what it  *)
(* adds to the coins.                                                      *)
ListedAddsUp ==
    LET listed == listtransactions(TRUE)
    IN  \A t \in DOMAIN mapWallet :
           LET entries == {e \in listed : e.txid = t}
               sent == {e \in entries : e.category = "send"}
           IN  /\ sent # {} => Amounts(sent) + Fees(sent) = gettransaction(t).amount
               /\ entries # {} => Amounts(entries \ sent) = GetCredit(t)
               /\ entries = {} => t \in Coinbases \/ GetDebit(t) = GetCredit(t) + gettransaction(t).fee

(* The four calls on received amounts agree: an address is listed with     *)
(* what is asked for it alone, no address with an amount is left out, a    *)
(* label has what its own addresses have, and listreceivedbylabel says the *)
(* same unless two strings of the label are the same address.              *)
SameAddress(l) == \E s, r \in Labelled(l) : s # r /\ AddressOf[s] = AddressOf[r]

ReceivedAgree ==
    \A minDepth \in Depths :
        LET list == listreceivedbyaddress(minDepth, FALSE)
        IN  /\ \A e \in list : e.amount = getreceivedbyaddress(e.address, minDepth)
            /\ \A s \in DOMAIN mapAddressBook :
                  getreceivedbyaddress(s, minDepth) > 0 => \E e \in list : e.address = s
            /\ \A l \in Labels :
                  getreceivedbylabel(l, minDepth) =
                      SumFunction([h \in {AddressOf[s] : s \in Labelled(l)} \cap keys |->
                                      Received({h}, minDepth)])
            /\ \A e \in listreceivedbylabel(minDepth, TRUE) :
                  SameAddress(e.label) \/ e.amount = getreceivedbylabel(e.label, minDepth)
=============================================================================
