------------------------------- MODULE Wallet -------------------------------
(***************************************************************************)
(* The wallet: what it records of transactions, how it spends its coins,   *)
(* and how it agrees with the chain and the pool when blocks come and go,  *)
(* the program crashes, and a copy of the wallet spends the same coins.    *)
(***************************************************************************)
EXTENDS Integers, Sequences, FiniteSets, FiniteSetsExt, SequencesExt

CONSTANTS
    Coin,         \* transactions of others that pay to the wallet
    Copy,         \* transactions made with a copy of the wallet
    Own,          \* transactions the wallet makes
    Spends,       \* Spends[t]: what a transaction of Coin or Copy spends: members of
                  \*   Coin, or outputs of others
    Value,        \* Value[c]: what c pays to the wallet
    Amount,       \* amounts to be paid
    Cent,         \* below this an output costs a fee of as much
    MaxChain      \* bound on the length of the chain

Theirs == Coin \cup Copy
Tx == Theirs \cup Own
NoTx == "none"

ASSUME WalletAssumption ==
    /\ Coin \cap Copy = {} /\ Own \cap Theirs = {} /\ NoTx \notin Tx /\ IsFiniteSet(Tx)
    /\ \A c \in Coin : Value[c] \in Nat
    /\ Amount \subseteq Nat /\ Cent \in Nat

VARIABLES
    vin,          \* vin[t]: what a transaction spends
    change,       \* change[t]: what t pays back to the wallet
    mapWallet, fSpent,       \* transactions of the wallet, those flagged as spent
    disk,         \* wallet.dat: transactions, those flagged as spent, and the change keys
    mapTransactions,         \* the pool
    chain,        \* the transactions of each block of the main chain
    relayed,      \* transactions the wallet made that others may have
    draft,        \* the transaction of the thread in SendMoney, which holds cs_main
    commit,       \* "no", or how far CommitTransaction has come
    committed     \* transactions whose CommitTransaction recorded everything

money == <<vin, change>>
wallet == <<mapWallet, fSpent, disk>>
network == <<mapTransactions, chain, relayed>>
sending == <<draft, commit>>
walletVars == <<money, wallet, network, sending, committed>>

Unlocked == draft = NoTx

-----------------------------------------------------------------------------
Confirmed(ch) == UNION Range(ch)
SpentOn(ch) == UNION {vin[t] : t \in Confirmed(ch)}

\* What a transaction pays to the wallet, and whether it is the wallet's.
Credit(t) == IF t \in Coin THEN Value[t] ELSE IF t \in Own THEN change[t] ELSE 0
IsMine(t) == Credit(t) > 0

\* An input is an output of a transaction that is known, or of somebody else's.
Known(i, ts) == i \in Tx => i \in ts

\* Transactions that could be the next block of ch: each spends what is there, in ch or in
\* the block itself, and no two the same.
NextBlocks(ch, ts) ==
    {B \in SUBSET (ts \ Confirmed(ch)) :
        /\ Cardinality(B) <= 2
        /\ \A t \in B : /\ vin[t] \cap SpentOn(ch) = {}
                        /\ \A i \in vin[t] : Known(i, Confirmed(ch) \cup B)
        /\ \A t, u \in B : t # u => vin[t] \cap vin[u] = {}}

WalletTypeOK ==
    /\ vin \in [Tx -> SUBSET (Tx \cup UNION {Spends[t] : t \in Theirs})]
    /\ change \in [Own -> Nat]
    /\ fSpent \subseteq mapWallet /\ mapWallet \subseteq Tx
    /\ disk.tx \subseteq Tx /\ disk.spent \subseteq disk.tx /\ disk.keys \subseteq Own
    /\ commit = "no" => disk.tx = mapWallet /\ disk.spent = fSpent
    /\ mapTransactions \subseteq Tx /\ mapTransactions \cap Confirmed(chain) = {}
    /\ draft \in Own \cup {NoTx}
    /\ commit \in {"no", "keyed", "recorded", "marked"}

Init ==
    /\ vin = [t \in Tx |-> IF t \in Theirs THEN Spends[t] ELSE {}]
    /\ change = [t \in Own |-> 0]
    /\ mapWallet = {} /\ fSpent = {}
    /\ disk = [tx |-> {}, spent |-> {}, keys |-> {}]
    /\ mapTransactions = {} /\ chain = <<>> /\ relayed = {}
    /\ draft = NoTx /\ commit = "no"
    /\ committed = {}

-----------------------------------------------------------------------------
(* What validation does to the wallet                                      *)

\* Mutant of UpdatedSpent: only coins that the pool or a block confirms are looked at.
UpdatedSpentNone(ts, in) == {}
\* WalletUpdateSpent of every input whose signature is verified: the coins of the wallet
\* that the transactions ts spend.
UpdatedSpent(ts, in) == {c \in in : IsMine(c) /\ \E t \in ts : c \in vin[t]}

\* AddToWallet of ts after the flags of coins are set: the record is written with what changed.
WalletIs(tx, spent) ==
    /\ mapWallet' = tx /\ fSpent' = spent
    /\ disk' = [disk EXCEPT !.tx = tx, !.spent = spent]

InConflict(t) == {u \in mapTransactions \ {t} : vin[u] \cap vin[t] # {}}

\* A tx message.  If nothing in the pool spends the same and what it spends is known, the
\* signatures are verified, before it turns out whether that is still unspent.
Receive(t) ==
    /\ Unlocked
    /\ t \in Theirs \cup relayed
    /\ t \notin mapTransactions \cup Confirmed(chain)
    /\ InConflict(t) = {}
    /\ \A i \in vin[t] : Known(i, Confirmed(chain) \cup mapTransactions)
    /\ LET spent == fSpent \cup UpdatedSpent({t}, mapWallet)
       IN  IF vin[t] \cap SpentOn(chain) = {}
           THEN /\ mapTransactions' = mapTransactions \cup {t}
                /\ WalletIs(mapWallet \cup {u \in {t} : IsMine(u)}, spent)
           ELSE WalletIs(mapWallet, spent) /\ UNCHANGED mapTransactions
    /\ UNCHANGED <<money, chain, relayed, sending, committed>>

\* Transactions that others can put in a block.
Minable == Theirs \cup relayed \cup mapTransactions

\* ConnectBlock: all inputs are verified before the block's transactions are added.
Connected(B) ==
    WalletIs(mapWallet \cup {t \in B : IsMine(t)}, fSpent \cup UpdatedSpent(B, mapWallet))

ConnectBlock(B) ==
    /\ Unlocked
    /\ Len(chain) < MaxChain
    /\ B \in NextBlocks(chain, Minable)
    /\ chain' = Append(chain, B)
    /\ mapTransactions' = mapTransactions \ B
    /\ Connected(B)
    /\ UNCHANGED <<money, relayed, sending, committed>>

\* A block whose inputs verify but that is refused, or one of a reorganization that is
\* aborted after it, or before a crash: the database forgets it, the wallet does not.
ConnectUndone(B) ==
    /\ Unlocked
    /\ B \in NextBlocks(chain, Minable)
    /\ \/ Connected(B)
       \/ WalletIs(mapWallet, fSpent \cup UpdatedSpent(B, mapWallet))
    /\ UNCHANGED <<money, network, sending, committed>>

\* Reorganize: the last block gives way to two.  Its transactions go back to the pool,
\* unless the pool has a conflict; the flags of coins stay.
Reorganize(B, C) ==
    /\ Unlocked
    /\ chain # <<>> /\ Len(chain) < MaxChain
    /\ LET base == Front(chain)
           back == {t \in Last(chain) : InConflict(t) = {}}
       IN  /\ B \in NextBlocks(base, Minable \cup Last(chain))
           /\ C \in NextBlocks(Append(base, B), Minable \cup Last(chain))
           /\ chain' = base \o <<B, C>>
           /\ mapTransactions' = (mapTransactions \cup back) \ (B \cup C)
           /\ WalletIs(mapWallet \cup {t \in B \cup C : IsMine(t)},
                       fSpent \cup UpdatedSpent(B, mapWallet)
                              \cup UpdatedSpent(C, mapWallet \cup {t \in B : IsMine(t)}))
    /\ UNCHANGED <<money, relayed, sending, committed>>

-----------------------------------------------------------------------------
(* Sending money                                                           *)

SumOf(S) == MapThenSumSet(Credit, S)

\* SelectCoins: one coin of exactly the target; the smallest larger coin, if the lower ones
\* are not enough or it is as near; else a set of lower coins that reaches the target, one
\* that a random walk finds.
SelectCoins(target) ==
    LET coins  == {c \in mapWallet \ fSpent : Credit(c) > 0}
        exact  == {c \in coins : Credit(c) = target}
        lower  == {c \in coins : Credit(c) < target}
        larger == {c \in coins \ lower : \A d \in coins \ lower : Credit(c) <= Credit(d)}
        reach  == {S \in SUBSET lower : /\ SumOf(S) >= target
                                        /\ S = lower \/ \E c \in S : SumOf(S \ {c}) < target}
    IN  CASE exact # {} -> {{c} : c \in exact}
          [] exact = {} /\ SumOf(lower) < target -> {{c} : c \in larger}
          [] OTHER -> {S \in reach : \A c \in larger : SumOf(S) < Credit(c)}
                        \cup {{c} : c \in {d \in larger : \E S \in reach : Credit(d) <= SumOf(S)}}

\* What CreateTransaction ends with for a payment: the coins, and the change.  Change below
\* a cent makes it begin again with a fee of a cent.
Created(amount) ==
    LET Change(S, fee) == SumOf(S) - amount - fee
        Dust(S) == Change(S, 0) \in 1 .. Cent - 1 \/ amount < Cent
    IN  {[coins |-> S, change |-> Change(S, 0)] : S \in {T \in SelectCoins(amount) : ~Dust(T)}}
        \cup (IF \E T \in SelectCoins(amount) : Dust(T)
              THEN {[coins |-> S, change |-> Change(S, Cent)] : S \in SelectCoins(amount + Cent)}
              ELSE {})

\* SendMoney, or a dialog that got the reply it waited for, takes cs_main and makes a
\* transaction.
Create(t, amount) ==
    /\ Unlocked
    /\ t \notin relayed \cup mapWallet /\ vin[t] = {}
    /\ \E made \in Created(amount) :
         /\ vin' = [vin EXCEPT ![t] = made.coins]
         /\ change' = [change EXCEPT ![t] = made.change]
    /\ draft' = t
    /\ UNCHANGED <<wallet, network, commit, committed>>

\* The fee is not accepted, the dialog is cancelled, or the other side has gone.
Abort ==
    /\ ~Unlocked /\ commit = "no"
    /\ draft' = NoTx
    /\ vin' = [vin EXCEPT ![draft] = {}] /\ change' = [change EXCEPT ![draft] = 0]
    /\ UNCHANGED <<wallet, network, commit, committed>>

\* Mutant of AddKey: the key stays in memory.
AddKeyMemory(t) == UNCHANGED disk
AddKey(t) == disk' = [disk EXCEPT !.keys = @ \cup {t}]

\* CommitTransaction, with a write to wallet.dat in each step: the key of the change, ...
CommitKey ==
    /\ ~Unlocked /\ commit = "no"
    /\ commit' = "keyed"
    /\ IF change[draft] > 0 THEN AddKey(draft) ELSE UNCHANGED disk
    /\ UNCHANGED <<money, mapWallet, fSpent, network, draft, committed>>

\* ... the transaction, ...
CommitRecord ==
    /\ commit = "keyed" /\ commit' = "recorded"
    /\ mapWallet' = mapWallet \cup {draft}
    /\ disk' = [disk EXCEPT !.tx = @ \cup {draft}]
    /\ UNCHANGED <<money, fSpent, network, draft, committed>>

\* Mutant of Spent: the record of a coin is not written.
SpentMemory(c) == fSpent' = fSpent \cup {c} /\ UNCHANGED disk
Spent(c) ==
    /\ fSpent' = fSpent \cup {c}
    /\ disk' = [disk EXCEPT !.spent = @ \cup {c}]

\* ... and each of the coins.
CommitCoin(c) ==
    /\ commit = "recorded"
    /\ c \in vin[draft] \ fSpent
    /\ Spent(c)
    /\ UNCHANGED <<money, mapWallet, network, sending, committed>>

CommitMarked ==
    /\ commit = "recorded" /\ vin[draft] \subseteq fSpent
    /\ commit' = "marked"
    /\ committed' = committed \cup {draft}
    /\ UNCHANGED <<money, wallet, network, draft>>

\* AcceptTransaction of the new transaction, which is relayed if that succeeds.
CommitAccept ==
    /\ commit = "marked"
    /\ IF /\ InConflict(draft) = {}
          /\ vin[draft] \subseteq Confirmed(chain) \cup mapTransactions
          /\ vin[draft] \cap SpentOn(chain) = {}
       THEN /\ mapTransactions' = mapTransactions \cup {draft}
            /\ relayed' = relayed \cup {draft}
       ELSE UNCHANGED <<mapTransactions, relayed>>
    /\ commit' = "no" /\ draft' = NoTx
    /\ UNCHANGED <<money, wallet, chain, committed>>

\* ResendWalletTransactions.  What others made they have anyway.
Resend(t) ==
    /\ Unlocked
    /\ t \in (mapWallet \cap Own) \ Confirmed(chain)
    /\ relayed' = relayed \cup {t}
    /\ UNCHANGED <<money, wallet, mapTransactions, chain, sending, committed>>

-----------------------------------------------------------------------------
\* Mutant of FoundSpent: records are taken as they are.
FoundSpentNone == {}
\* ReacceptWalletTransactions: coins whose record in the database says they are spent, ...
FoundSpent == {c \in disk.tx \cap Confirmed(chain) : IsMine(c) /\ c \in SpentOn(chain)}

\* Mutant of Reaccepted: only what is not spent again.
ReacceptedCoins == {disk.tx \ (disk.spent \cup Confirmed(chain))}
\* ... and the unconfirmed ones, which are accepted without a look at their inputs, in the
\* order of their hashes.
Reaccepted ==
    LET loose == disk.tx \ Confirmed(chain)
        Fit(S) == \A t, u \in S : t # u => vin[t] \cap vin[u] = {}
    IN  {S \in SUBSET loose : Fit(S) /\ \A t \in loose \ S : ~Fit(S \cup {t})}

\* The program crashes or is stopped at any point, and starts again.
Restart ==
    /\ mapWallet' = disk.tx
    /\ fSpent' = disk.spent \cup FoundSpent
    /\ disk' = [disk EXCEPT !.spent = fSpent']
    /\ mapTransactions' \in Reaccepted
    /\ draft' = NoTx /\ commit' = "no"
    /\ UNCHANGED <<money, chain, relayed, committed>>

-----------------------------------------------------------------------------
Send ==
    \/ \E t \in Own, a \in Amount : Create(t, a)
    \/ Abort \/ CommitKey \/ CommitRecord \/ CommitMarked \/ CommitAccept
    \/ \E c \in Tx : CommitCoin(c)

Next ==
    \/ \E t \in Tx : Receive(t) \/ Resend(t)
    \/ \E B \in SUBSET Tx : ConnectBlock(B) \/ ConnectUndone(B)
    \/ \E B, C \in SUBSET Tx : Reorganize(B, C)
    \/ Send \/ Restart

Spec == Init /\ [][Next]_walletVars

-----------------------------------------------------------------------------
\* Whatever the program lost in crashes, and whatever blocks came and went, no two
\* transactions it recorded in full spend the same coin.
CommittedDisjoint ==
    \A t, u \in committed : t # u => vin[t] \cap vin[u] = {}

\* A coin that the main chain spends does not count, whoever spent it and whatever was
\* refused, undone or lost in between, unless the block that pays it spends it too.
ChainSpentKnown ==
    \A c \in mapWallet \ fSpent : IsMine(c) /\ c \in SpentOn(chain) =>
        \E i \in DOMAIN chain : c \in chain[i] /\ \E t \in chain[i] : c \in vin[t]

\* What others may have is in wallet.dat, with the key of its change, at every point a crash
\* may come.
RelayedRecoverable ==
    \A t \in relayed \cap Own : t \in disk.tx /\ (change[t] > 0 => t \in disk.keys)

\* After a start no coin counts that the chain has spent, though a copy of the wallet spent it
\* or the crash came before it was written.
StartFindsSpent == [][Restart => \A c \in (mapWallet \ fSpent)' : IsMine(c) => c \notin SpentOn(chain)]_walletVars

\* After a start the pool has every transaction of the wallet that is not confirmed, or one
\* that spends the same.
StartRestoresPool ==
    [][Restart => \A t \in mapWallet' \ Confirmed(chain) :
          t \in mapTransactions' \/ \E u \in mapTransactions' : vin[u] \cap vin[t] # {}]_walletVars

\* The types, and payments that do not conflict.
WalletInv == WalletTypeOK /\ CommittedDisjoint

\* A start finds what is spent and what is still to be confirmed.
StartRestores == StartFindsSpent /\ StartRestoresPool
=============================================================================
