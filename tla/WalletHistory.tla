---------------------------- MODULE WalletHistory ----------------------------
(***************************************************************************)
(* What the user interfaces report on: the transactions of the wallet and  *)
(* where the main chain has them, the keys and the address book            *)
(* (src/main.cpp, src/main.h, src/rpc.cpp).  Blocks reach the wallet one   *)
(* by one while they are connected and the main chain only when all of     *)
(* them are, and both interfaces look at the wallet in between: connecting *)
(* holds cs_main, they take cs_mapWallet alone.                            *)
(*                                                                         *)
(* A transaction is what In, Out and Coinbases say of it.  The keys of     *)
(* this wallet are its own: a transaction that spends its coins has been   *)
(* made by it and is in mapWallet before any block has it.  Coins of       *)
(* others are always there to spend, and two transactions never spend the  *)
(* same coin.                                                              *)
(***************************************************************************)
EXTENDS Integers, Sequences, SequencesExt, FiniteSetsExt

CONSTANTS Txs,          \* transactions
          Coinbases,    \* those that are coinbases
          In,           \* the coins each spends, as <<transaction, output>>;
                        \* <<Foreign, n>> is a coin of somebody else
          Out,          \* its outputs: [to, type, value], where type is "address"
                        \* for a template with a hash, "key" for one with the key
          Foreign,
          FirstKeys,    \* the hashes of the keys of a new wallet
          NewKeys,      \* and of those that can be generated later
          Strings,      \* what the address book may call an address
          AddressOf,    \* the hash such a string decodes to, or Invalid
          Invalid,
          Labels,
          CoinbaseMaturity,     \* GetCoinbaseMaturity(), 0 in test mode
          Buffer,       \* the wallet waits so many blocks longer, unless that is 0
          MaxBlocks     \* bounds the blocks that are made

ASSUME HistoryAssumption ==
    /\ IsFiniteSet(Txs) /\ Coinbases \subseteq Txs /\ Foreign \notin Txs
    /\ \A t \in Txs : t \in Coinbases <=> In[t] = {}
    /\ \A t \in Txs : In[t] \subseteq (Txs \cup {Foreign}) \X Nat /\ IsFiniteSet(In[t])
    /\ \A t \in Txs : \A c \in In[t] : c[1] = Foreign \/ (c[1] \in Txs /\ c[2] \in DOMAIN Out[c[1]])
    /\ \A t, x \in Txs : t # x => In[t] \cap In[x] = {}
    /\ \A t \in Txs : Len(Out[t]) \in Nat /\ DOMAIN Out[t] = 1 .. Len(Out[t])
    /\ \A t \in Txs : \A i \in DOMAIN Out[t] : Out[t][i].value \in Nat
    /\ Invalid \notin FirstKeys \cup NewKeys
    /\ CoinbaseMaturity \in Nat /\ Buffer \in Nat \ {0} /\ MaxBlocks \in Nat

VARIABLES keys,             \* mapPubKeys: the hashes of the wallet's keys
          mapAddressBook,   \* string -> label, for the strings it has
          mapWallet,        \* transaction -> hashBlock, 0 for none
          vtx,              \* the transactions of each block made
          nHeight,          \* and its height
          chain,            \* the main chain, as the blocks from the first on
          connecting,       \* the chain a call of ProcessBlock is connecting, or <<>>
          hashPrevBestCoinBase,    \* the last tip's first transaction
          vWalletUpdated    \* transactions to be shown anew (as a set)

historyVars == <<keys, mapAddressBook, mapWallet, vtx, nHeight, chain,
                 connecting, hashPrevBestCoinBase, vWalletUpdated>>
chainVars == <<vtx, nHeight, chain, connecting, hashPrevBestCoinBase>>
-----------------------------------------------------------------------------
(* CTxOut::IsMine, CTxIn::IsMine and what they add up to.                  *)
IsMine(out) == out.to \in keys
Mine(t) == {i \in DOMAIN Out[t] : IsMine(Out[t][i])}
Others(t) == DOMAIN Out[t] \ Mine(t)

InMine(coin) == /\ coin[1] \in DOMAIN mapWallet
                /\ IsMine(Out[coin[1]][coin[2]])

ValueOf(t, outs) == SumFunction([i \in outs |-> Out[t][i].value])
GetValueOut(t) == ValueOf(t, DOMAIN Out[t])
CoinsOf(coins) == SumFunction([c \in coins |-> Out[c[1]][c[2]].value])
GetDebit(t) == CoinsOf({c \in In[t] : InMine(c)})

(* The depth of a transaction of the wallet.                               *)
HeightOf(b) == IF \E h \in DOMAIN chain : chain[h] = b
               THEN CHOOSE h \in DOMAIN chain : chain[h] = b ELSE 0

GetDepthInMainChain(t) ==
    LET h == HeightOf(mapWallet[t])
    IN  IF h = 0 THEN 0 ELSE Len(chain) - h + 1

Maturity == CoinbaseMaturity + IF CoinbaseMaturity > 0 THEN Buffer ELSE 0
GetBlocksToMaturity(t) ==
    IF t \in Coinbases THEN Max({0, Maturity - GetDepthInMainChain(t)}) ELSE 0

\* Mutant of GetCredit: coins that are too young count.
GetCreditYoung(t) == ValueOf(t, Mine(t))
GetCredit(t) == IF GetBlocksToMaturity(t) > 0 THEN 0 ELSE ValueOf(t, Mine(t))
-----------------------------------------------------------------------------
InitHistory ==
    /\ keys = FirstKeys
    /\ mapAddressBook = <<>> /\ mapWallet = <<>>
    /\ vtx = <<>> /\ nHeight = <<>> /\ chain = <<>> /\ connecting = <<>>
    /\ hashPrevBestCoinBase = Foreign /\ vWalletUpdated = {}

Chained(c) == UNION {vtx[c[h]] : h \in DOMAIN c}        \* what a chain has

(* A key has no outputs before it is made.                                 *)
Payable(t) == \A i \in DOMAIN Out[t] : Out[t][i].to \in NewKeys => IsMine(Out[t][i])
Recorded(book, s, l) == [x \in DOMAIN book \cup {s} |-> IF x = s THEN l ELSE book[x]]

(* AddToWallet: the transaction is inserted or its block replaced.         *)
InWallet(wallet, t, b) ==
    [x \in DOMAIN wallet \cup {t} |->
        IF x # t THEN wallet[x]
        ELSE IF b # 0 \/ t \notin DOMAIN wallet THEN b ELSE wallet[t]]

(* CommitTransaction, or a loose transaction of somebody else that         *)
(* AddToWalletIfMine takes: its coins are there.  The coins it spends are  *)
(* marked and shown anew too.                                              *)
NewTx(t) ==
    /\ t \notin DOMAIN mapWallet \cup Coinbases /\ Payable(t)
    /\ \A c \in In[t] : \/ c[1] = Foreign
                        \/ InMine(c) /\ GetBlocksToMaturity(c[1]) = 0
    /\ Mine(t) # {} \/ GetDebit(t) > 0
    /\ mapWallet' = InWallet(mapWallet, t, 0)
    /\ vWalletUpdated' = vWalletUpdated \cup {t} \cup {c[1] : c \in {d \in In[t] : InMine(d)}}
    /\ UNCHANGED <<keys, mapAddressBook, chainVars>>

(* ProcessBlock makes blocks the new end of the main chain, one or, in a   *)
(* reorganization, two in the place of one.  ConnectBlock shows every      *)
(* transaction of theirs to AddToWalletIfMine with its block.              *)
Blocks(base) ==       \* what a block on a chain that has base may have
    {B \in SUBSET (Txs \ base) :
        /\ Cardinality(B \cap Coinbases) <= 1
        /\ \A t \in B : Payable(t) /\ \A c \in In[t] :
              \/ c[1] = Foreign
              \/ /\ c[1] \in base \cup B
                 /\ IsMine(Out[c[1]][c[2]]) => t \in DOMAIN mapWallet}

(* ConnectInputs lets a coinbase be spent only by a block that comes late  *)
(* enough.  It looks for it, and counts, on the main chain, which in a     *)
(* reorganization is the one before: the blocks after base are not looked  *)
(* at.                                                                     *)
Mature(base, t) ==
    \A h \in DOMAIN base : \A o \in In[t] :
        o[1] \in vtx[base[h]] \cap Coinbases => Len(chain) + 1 - h >= CoinbaseMaturity

\* Mutant of HeightsOn: the heights go on from the main chain.
HeightsOnTip(base, blocks) == [i \in 1 .. blocks |-> Len(chain) + i]
HeightsOn(base, blocks) == [i \in 1 .. blocks |-> Len(base) + i]

ConnectBlocks ==
    /\ connecting = <<>>
    /\ \E base \in {chain} \cup (IF chain = <<>> THEN {} ELSE {SubSeq(chain, 1, Len(chain) - 1)}) :
       LET n == Len(vtx)
           blocks == Len(chain) - Len(base) + 1
       IN  /\ n + blocks <= MaxBlocks
           /\ \E B \in Blocks(Chained(base)) :
              \E C \in IF blocks = 2 THEN Blocks(Chained(base) \cup B) ELSE {{}} :
                 /\ \A t \in B \cup C : Mature(base, t)
                 /\ vtx' = IF blocks = 2 THEN vtx \o <<B, C>> ELSE Append(vtx, B)
                 /\ nHeight' = nHeight \o HeightsOn(base, blocks)
                 /\ connecting' = base \o [i \in 1 .. blocks |-> n + i]
                 /\ LET shown == {t \in B \cup C : Mine(t) # {} \/ t \in DOMAIN mapWallet}
                    IN  /\ mapWallet' =
                             [t \in DOMAIN mapWallet \cup shown |->
                                 IF t \in B THEN n + 1 ELSE IF t \in C THEN n + 2 ELSE mapWallet[t]]
                        /\ vWalletUpdated' = vWalletUpdated \cup shown
    /\ UNCHANGED <<keys, mapAddressBook, chain, hashPrevBestCoinBase>>

(* The rest of AddToBlockIndex: the new best chain, and the first          *)
(* transaction of the tip before is shown anew.                            *)
SetBestChain ==
    /\ connecting # <<>>
    /\ chain' = connecting /\ connecting' = <<>>
    /\ vWalletUpdated' = vWalletUpdated \cup {hashPrevBestCoinBase}
    /\ LET own == vtx[connecting[Len(connecting)]] \cap Coinbases
       IN  hashPrevBestCoinBase' = IF own = {} THEN Foreign ELSE CHOOSE t \in own : TRUE
    /\ UNCHANGED <<keys, mapAddressBook, mapWallet, vtx, nHeight>>

(* RPC getnewaddress: a key, and its address in the book.                  *)
getnewaddress ==
    \E k \in NewKeys \ keys, s \in Strings, l \in Labels :
       /\ AddressOf[s] = k
       /\ keys' = keys \cup {k}
       /\ mapAddressBook' = Recorded(mapAddressBook, s, l)
       /\ UNCHANGED <<mapWallet, chainVars, vWalletUpdated>>

(* RPC setlabel takes any string; the book is used by everybody else as if *)
(* every string of it named an address.                                    *)
setlabel ==
    \E s \in Strings, l \in Labels :
       /\ mapAddressBook' = Recorded(mapAddressBook, s, l)
       /\ UNCHANGED <<keys, mapWallet, chainVars, vWalletUpdated>>

(* The state, and that a chain has each transaction once and each coin     *)
(* spent once, with its blocks at their heights.                           *)
HistoryTypeOK ==
    LET blocks == DOMAIN vtx
    IN  /\ keys \subseteq FirstKeys \cup NewKeys
        /\ \A s \in DOMAIN mapAddressBook : s \in Strings /\ mapAddressBook[s] \in Labels
        /\ \A t \in DOMAIN mapWallet : t \in Txs /\ mapWallet[t] \in {0} \cup blocks
        /\ Len(vtx) <= MaxBlocks /\ Len(nHeight) = Len(vtx)
        /\ vWalletUpdated \subseteq Txs \cup {Foreign}
        /\ \A c \in {chain, connecting} :
              /\ \A h \in DOMAIN c : c[h] \in blocks /\ nHeight[c[h]] = h
              /\ \A h, g \in DOMAIN c : h # g => vtx[c[h]] \cap vtx[c[g]] = {}
              /\ \A t, x \in Chained(c) : t # x => In[t] \cap In[x] = {}

HistoryNext == \/ \E t \in Txs : NewTx(t)
               \/ ConnectBlocks \/ SetBestChain \/ getnewaddress
=============================================================================
