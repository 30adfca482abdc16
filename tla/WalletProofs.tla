----------------------------- MODULE WalletProofs -----------------------------
(***************************************************************************)
(* For any coins, payments and blocks: no two payments that were committed *)
(* spend one coin, what the chain has spent is known, what was relayed can *)
(* be recovered, and a start finds what is spent and what is loose.        *)
(***************************************************************************)
EXTENDS Wallet, FiniteSetTheorems, SequenceTheorems, WellFoundedInduction, TLAPS

Input == Tx \cup UNION {Spends[t] : t \in Theirs}

Types ==
    /\ vin \in [Tx -> SUBSET Input] /\ change \in [Own -> Nat]
    /\ mapWallet \subseteq Tx /\ fSpent \subseteq mapWallet
    /\ disk \in [tx : SUBSET Tx, spent : SUBSET Tx, keys : SUBSET Own]
    /\ mapTransactions \subseteq Tx /\ relayed \subseteq Own
    /\ chain \in Seq(SUBSET Tx)
    /\ draft \in Own \cup {NoTx}
    /\ commit \in {"no", "keyed", "recorded", "marked"}

\* wallet.dat has what memory has, and a transaction with change has its key there.
Stored ==
    /\ disk.tx = mapWallet /\ disk.spent = fSpent
    /\ \A t \in mapWallet \cap Own : change[t] > 0 => t \in disk.keys

\* The wallet knows what it made, wherever it went, ...
OwnKnown == (Confirmed(chain) \cup mapTransactions \cup relayed) \cap Own \subseteq mapWallet

\* ... nothing is confirmed and loose, ...
PoolLoose == mapTransactions \cap Confirmed(chain) = {}

\* ... and the transaction that is being made spends what no other has spent.
Drafted ==
    /\ Unlocked => commit = "no"
    /\ ~Unlocked => vin[draft] \subseteq mapWallet /\ draft \notin Confirmed(chain)
    /\ ~Unlocked /\ commit \in {"no", "keyed"} => draft \notin mapWallet
    /\ commit \in {"recorded", "marked"} => draft \in mapWallet
    /\ commit # "no" /\ change[draft] > 0 => draft \in disk.keys
    /\ ~Unlocked /\ commit # "marked" =>
          \A t \in committed : t # draft /\ vin[t] \cap vin[draft] = {}

Paid ==
    /\ committed \subseteq mapWallet \cap Own
    /\ \A t \in committed : vin[t] \subseteq fSpent
    /\ CommittedDisjoint

\* In a chain a transaction is in one block, after what it spends or with it.
Chained(ch) ==
    /\ \A i, j \in DOMAIN ch : i # j => ch[i] \cap ch[j] = {}
    /\ \A i \in DOMAIN ch : \A t \in ch[i] : \A c \in vin[t] \cap Tx : \E j \in 1 .. i : c \in ch[j]

\* Whatever block spends a coin that is not flagged has the coin as well.
SpentInBlock ==
    \A i \in DOMAIN chain : \A t \in chain[i] : \A c \in vin[t] \cap mapWallet :
        c \notin fSpent /\ IsMine(c) => c \in chain[i]

WalletIInv ==
    /\ Types /\ Stored /\ OwnKnown /\ PoolLoose /\ Drafted /\ Paid
    /\ Chained(chain) /\ SpentInBlock

-----------------------------------------------------------------------------
(* Chains                                                                  *)

LEMMA ConfirmedIn ==
    ASSUME NEW ch, NEW t
    PROVE  t \in Confirmed(ch) <=> \E i \in DOMAIN ch : t \in ch[i]
  BY DEF Confirmed, Range

LEMMA SpentOnIn ==
    ASSUME NEW ch, NEW c
    PROVE  c \in SpentOn(ch) <=> \E i \in DOMAIN ch : \E t \in ch[i] : c \in vin[t]
  BY DEF SpentOn, Confirmed, Range

\* What a chain spends of the transactions is in it.
LEMMA SpentConfirmed ==
    ASSUME NEW ch \in Seq(SUBSET Tx), Chained(ch)
    PROVE  SpentOn(ch) \cap Tx \subseteq Confirmed(ch)
<1> SUFFICES ASSUME NEW c \in SpentOn(ch) \cap Tx PROVE c \in Confirmed(ch)
  OBVIOUS
<1>1. PICK i \in DOMAIN ch : \E t \in ch[i] : c \in vin[t]
  BY SpentOnIn
<1>2. PICK j \in 1 .. i : c \in ch[j]
  BY <1>1 DEF Chained
<1>3. DOMAIN ch = 1 .. Len(ch) /\ Len(ch) \in Nat
  BY LenProperties
<1> QED
  BY <1>1, <1>2, <1>3, ConfirmedIn

\* A block that may come next keeps it so.
LEMMA Grows ==
    ASSUME NEW ch \in Seq(SUBSET Tx), Chained(ch), NEW ts \in SUBSET Tx, NEW B \in NextBlocks(ch, ts)
    PROVE  /\ Append(ch, B) \in Seq(SUBSET Tx) /\ Chained(Append(ch, B))
           /\ Confirmed(Append(ch, B)) = Confirmed(ch) \cup B
           /\ B \cap Confirmed(ch) = {} /\ B \subseteq ts
           /\ DOMAIN Append(ch, B) = DOMAIN ch \cup {Len(ch) + 1} /\ Len(ch) + 1 \notin DOMAIN ch
           /\ Append(ch, B)[Len(ch) + 1] = B
           /\ \A i \in DOMAIN ch : Append(ch, B)[i] = ch[i]
<1> DEFINE n == Len(ch)
           new == Append(ch, B)
<1>1. /\ B \in SUBSET Tx /\ B \subseteq ts /\ B \cap Confirmed(ch) = {}
      /\ \A t \in B : \A i \in vin[t] \cap Tx : i \in Confirmed(ch) \cup B
  BY DEF NextBlocks, Known
<1>2. n \in Nat /\ DOMAIN ch = 1 .. n
  BY LenProperties
<1>3. new \in Seq(SUBSET Tx) /\ Len(new) = n + 1 /\ new[n + 1] = B
      /\ \A i \in 1 .. n : new[i] = ch[i]
  BY <1>1, AppendProperties
<1>4. DOMAIN new = 1 .. (n + 1)
  BY <1>3, LenProperties
<1> HIDE DEF new, n
<1>5. DOMAIN new = DOMAIN ch \cup {n + 1} /\ n + 1 \notin DOMAIN ch
  BY <1>2, <1>4
<1>6. \A i \in DOMAIN ch : ch[i] \cap B = {}
  BY <1>1, ConfirmedIn
<1>7. Confirmed(new) = Confirmed(ch) \cup B
  BY <1>2, <1>3, <1>5 DEF Confirmed, Range
<1>8. Chained(new)
  <2>1. ASSUME NEW i \in DOMAIN new, NEW j \in DOMAIN new, i # j PROVE new[i] \cap new[j] = {}
    BY <1>2, <1>3, <1>5, <1>6, <2>1 DEF Chained
  <2>2. ASSUME NEW i \in DOMAIN new, NEW t \in new[i], NEW c \in vin[t] \cap Tx
        PROVE  \E j \in 1 .. i : c \in new[j]
    <3>1. CASE i \in DOMAIN ch
      <4>1. PICK j \in 1 .. i : c \in ch[j]
        BY <1>2, <1>3, <2>2, <3>1 DEF Chained
      <4> QED
        BY <1>2, <1>3, <3>1, <4>1
    <3>2. CASE i = n + 1
      <4>1. c \in Confirmed(ch) \cup B
        BY <1>1, <1>3, <2>2, <3>2
      <4>2. ASSUME c \in Confirmed(ch) PROVE \E j \in DOMAIN ch : c \in new[j]
        BY <1>2, <1>3, <4>2, ConfirmedIn
      <4> QED
        BY <1>2, <1>3, <3>2, <4>1, <4>2
    <3> QED
      BY <1>5, <3>1, <3>2
  <2> QED
    BY <2>1, <2>2 DEF Chained
<1> QED
  BY <1>1, <1>2, <1>3, <1>5, <1>7, <1>8 DEF new, n

\* The last block is taken off.
LEMMA Shrinks ==
    ASSUME NEW ch \in Seq(SUBSET Tx), Chained(ch), ch # <<>>
    PROVE  /\ Front(ch) \in Seq(SUBSET Tx) /\ Chained(Front(ch))
           /\ Confirmed(ch) = Confirmed(Front(ch)) \cup Last(ch)
           /\ Confirmed(Front(ch)) \cap Last(ch) = {} /\ Last(ch) \in SUBSET Tx
           /\ DOMAIN Front(ch) \subseteq DOMAIN ch
           /\ \A i \in DOMAIN Front(ch) : Front(ch)[i] = ch[i]
<1> DEFINE n == Len(ch)
           old == Front(ch)
<1>1. n \in Nat \ {0} /\ DOMAIN ch = 1 .. n /\ \A i \in 1 .. n : ch[i] \in SUBSET Tx
  BY EmptySeq, LenProperties, ElementOfSeq
<1>2. /\ 1 \in Int /\ n - 1 \in Int /\ 1 - 1 = 0
      /\ \A i \in 1 .. n - 1 : ch[i] \in SUBSET Tx
  BY <1>1
<1>3. /\ old \in Seq(SUBSET Tx) /\ Len(old) = n - 1
      /\ \A i \in 1 .. n - 1 : old[i] = ch[i]
  <2> HIDE DEF n
  <2>1. /\ SubSeq(ch, 1, n - 1) \in Seq(SUBSET Tx)
        /\ Len(SubSeq(ch, 1, n - 1)) = IF 1 <= n - 1 THEN (n - 1) - 1 + 1 ELSE 0
        /\ \A i \in 1 .. (n - 1) - 1 + 1 : SubSeq(ch, 1, n - 1)[i] = ch[1 + i - 1]
    BY <1>2, SubSeqProperties
  <2> QED
    BY <1>1, <2>1 DEF Front, n
<1>4. DOMAIN old = 1 .. (n - 1)
  BY <1>1, <1>3, LenProperties
<1>5. Last(ch) = ch[n]
  BY DEF Last
<1> HIDE DEF old, n
<1>6. Confirmed(ch) = Confirmed(old) \cup ch[n]
  BY <1>1, <1>3, <1>4 DEF Confirmed, Range
<1>7. Confirmed(old) \cap ch[n] = {}
  BY <1>1, <1>3, <1>4, ConfirmedIn DEF Chained
<1>8. Chained(old)
  BY <1>1, <1>3, <1>4 DEF Chained
<1> QED
  BY <1>1, <1>3, <1>4, <1>5, <1>6, <1>7, <1>8 DEF old

LEMMA TwoMore ==
    ASSUME NEW ch \in Seq(SUBSET Tx), NEW B \in SUBSET Tx, NEW C \in SUBSET Tx
    PROVE  ch \o <<B, C>> = Append(Append(ch, B), C)
<1> DEFINE l == ch \o <<B, C>>
           r == Append(Append(ch, B), C)
<1>1. Len(ch) \in Nat /\ <<B, C>> \in Seq(SUBSET Tx) /\ Len(<<B, C>>) = 2
  BY LenProperties
<1>2. /\ l \in Seq(SUBSET Tx) /\ Len(l) = Len(ch) + 2
      /\ \A i \in 1 .. Len(ch) + 2 : l[i] = IF i <= Len(ch) THEN ch[i] ELSE <<B, C>>[i - Len(ch)]
  BY <1>1, ConcatProperties
<1>3. /\ Append(ch, B) \in Seq(SUBSET Tx) /\ Len(Append(ch, B)) = Len(ch) + 1
      /\ \A i \in 1 .. Len(ch) + 1 : Append(ch, B)[i] = IF i = Len(ch) + 1 THEN B ELSE ch[i]
  BY <1>1, AppendProperties
<1>4. /\ r \in Seq(SUBSET Tx) /\ Len(r) = Len(ch) + 2
      /\ \A i \in 1 .. Len(ch) + 2 :
            r[i] = IF i = Len(ch) + 2 THEN C ELSE IF i = Len(ch) + 1 THEN B ELSE ch[i]
  BY <1>1, <1>3, AppendProperties
<1>5. <<B, C>>[1] = B /\ <<B, C>>[2] = C
  OBVIOUS
<1> HIDE DEF l, r
<1>6. \A i \in 1 .. Len(l) : l[i] = r[i]
  <2> SUFFICES ASSUME NEW i \in 1 .. Len(ch) + 2 PROVE l[i] = r[i]
    BY <1>2
  <2>1. CASE i <= Len(ch)
    BY <1>1, <1>2, <1>4, <2>1
  <2>2. CASE i = Len(ch) + 1
    <3>1. i - Len(ch) = 1 /\ ~(i <= Len(ch)) /\ i # Len(ch) + 2
      BY <1>1, <2>2
    <3> QED
      BY <1>2, <1>4, <1>5, <2>2, <3>1
  <2>3. CASE i = Len(ch) + 2
    <3>1. i - Len(ch) = 2 /\ ~(i <= Len(ch))
      BY <1>1, <2>3
    <3> QED
      BY <1>2, <1>4, <1>5, <2>3, <3>1
  <2> QED
    BY <1>1, <2>1, <2>2, <2>3
<1> QED
  BY <1>2, <1>4, <1>6, SeqEqual DEF l, r

-----------------------------------------------------------------------------
(* Blocks and messages                                                     *)

\* The wallet takes up transactions and flags coins, while nobody sends.
LEMMA Takes ==
    ASSUME WalletIInv, NEW tx \in SUBSET Tx, NEW spent, WalletIs(tx, spent), Unlocked,
           mapWallet \subseteq tx, tx \cap Own \subseteq mapWallet,
           fSpent \subseteq spent, spent \subseteq tx, UNCHANGED <<money, sending, committed>>
    PROVE  /\ vin' \in [Tx -> SUBSET Input] /\ change' \in [Own -> Nat]
           /\ mapWallet' \subseteq Tx /\ fSpent' \subseteq mapWallet'
           /\ disk' \in [tx : SUBSET Tx, spent : SUBSET Tx, keys : SUBSET Own]
           /\ draft' \in Own \cup {NoTx} /\ commit' \in {"no", "keyed", "recorded", "marked"}
           /\ Stored' /\ Drafted' /\ Paid'
<1>1. /\ mapWallet' = tx /\ fSpent' = spent /\ disk' = [disk EXCEPT !.tx = tx, !.spent = spent]
      /\ UNCHANGED <<vin, change, draft, commit, committed>>
  BY DEF WalletIs, money, sending
<1>2. /\ disk' \in [tx : SUBSET Tx, spent : SUBSET Tx, keys : SUBSET Own]
      /\ disk'.tx = tx /\ disk'.spent = spent /\ disk'.keys = disk.keys
  BY <1>1 DEF WalletIInv, Types
<1>3. Stored'
  BY <1>1, <1>2 DEF WalletIInv, Stored
<1>4. Drafted'
  BY <1>1 DEF WalletIInv, Drafted, Unlocked
<1>5. Paid'
  BY <1>1 DEF WalletIInv, Paid, CommittedDisjoint
<1> QED
  BY <1>1, <1>2, <1>3, <1>4, <1>5 DEF WalletIInv, Types

LEMMA FlaggedKnown == ASSUME NEW ts, NEW in PROVE UpdatedSpent(ts, in) \subseteq in
  BY DEF UpdatedSpent

LEMMA ReceiveStep == ASSUME WalletIInv, NEW t \in Tx, Receive(t) PROVE WalletIInv'
<1> DEFINE spent == fSpent \cup UpdatedSpent({t}, mapWallet)
<1>1. /\ Unlocked /\ t \in Theirs \cup relayed /\ t \notin Confirmed(chain)
      /\ UNCHANGED <<money, chain, relayed, sending, committed>> /\ UNCHANGED <<vin, change>>
  BY DEF Receive, money
<1>2. PICK tx, pool : /\ WalletIs(tx, spent) /\ mapTransactions' = pool
                      /\ mapWallet \subseteq tx /\ tx \subseteq mapWallet \cup {t}
                      /\ pool \subseteq mapTransactions \cup {t}
  BY DEF Receive
<1> HIDE DEF spent
<1>3. /\ tx \in SUBSET Tx /\ tx \cap Own \subseteq mapWallet
      /\ fSpent \subseteq spent /\ spent \subseteq tx
  BY <1>1, <1>2, FlaggedKnown, WalletAssumption DEF WalletIInv, Types, OwnKnown, spent
<1>4. Types' /\ Stored' /\ Drafted' /\ Paid'
  BY <1>1, <1>2, <1>3, Takes, ZenonT(60) DEF WalletIInv, Types
<1>5. Confirmed(chain)' = Confirmed(chain) /\ Chained(chain)'
  BY <1>1 DEF WalletIInv, Chained, Confirmed
<1>6. OwnKnown' /\ PoolLoose'
  BY <1>1, <1>2, <1>3, <1>5, WalletAssumption DEF WalletIInv, OwnKnown, PoolLoose, WalletIs
<1>7. SpentInBlock'
  <2> SUFFICES ASSUME NEW i \in DOMAIN chain, NEW u \in chain[i], NEW c \in vin[u] \cap mapWallet',
                      c \notin fSpent', IsMine(c)
               PROVE  c \in chain[i]
    BY <1>1 DEF SpentInBlock, IsMine, Credit
  <2>1. c \in mapWallet /\ c \notin fSpent
    <3>1. c \in Tx /\ c \in SpentOn(chain)
      BY <1>2, <1>3, SpentOnIn DEF WalletIs
    <3>2. c \in Confirmed(chain)
      BY <3>1, SpentConfirmed DEF WalletIInv, Types
    <3> QED
      BY <1>1, <1>2, <1>3, <3>2 DEF WalletIs
  <2> QED
    BY <2>1 DEF WalletIInv, SpentInBlock
<1> QED
  BY <1>4, <1>5, <1>6, <1>7 DEF WalletIInv

\* The transactions of a block are known if the wallet made them.
LEMMA MinableKnown ==
    ASSUME WalletIInv, NEW B, B \subseteq Minable \cup Confirmed(chain)
    PROVE  B \cap Own \subseteq mapWallet
  BY WalletAssumption DEF WalletIInv, OwnKnown, Minable

LEMMA MinableTx == WalletIInv => Minable \in SUBSET Tx
  BY DEF WalletIInv, Types, Minable, Tx

LEMMA ConnectStep == ASSUME WalletIInv, NEW B \in SUBSET Tx, ConnectBlock(B) PROVE WalletIInv'
<1> DEFINE tx == mapWallet \cup {t \in B : IsMine(t)}
           spent == fSpent \cup UpdatedSpent(B, mapWallet)
           n == Len(chain) + 1
<1>1. /\ Unlocked /\ B \in NextBlocks(chain, Minable) /\ chain' = Append(chain, B)
      /\ mapTransactions' = mapTransactions \ B /\ WalletIs(tx, spent)
      /\ UNCHANGED <<money, relayed, sending, committed>> /\ UNCHANGED <<vin, change>>
  BY DEF ConnectBlock, Connected, money
<1>2. /\ chain' \in Seq(SUBSET Tx) /\ Chained(chain') /\ Confirmed(chain') = Confirmed(chain) \cup B
      /\ B \cap Confirmed(chain) = {} /\ B \subseteq Minable
      /\ DOMAIN chain' = DOMAIN chain \cup {n} /\ chain'[n] = B
      /\ \A i \in DOMAIN chain : chain'[i] = chain[i]
  BY <1>1, Grows, MinableTx DEF WalletIInv, Types
<1> HIDE DEF n
<1>3. /\ tx \in SUBSET Tx /\ tx \cap Own \subseteq mapWallet /\ mapWallet \subseteq tx
      /\ fSpent \subseteq spent /\ spent \subseteq tx
  BY <1>2, MinableKnown, FlaggedKnown DEF WalletIInv, Types
<1>4. mapWallet' = tx /\ fSpent' = spent
  BY <1>1 DEF WalletIs
<1>5. Types' /\ Stored' /\ Drafted' /\ Paid'
  <2> HIDE DEF tx, spent
  <2>1. UNCHANGED <<money, sending, committed>>
    BY <1>1
  <2>2. /\ vin' \in [Tx -> SUBSET Input] /\ change' \in [Own -> Nat]
        /\ mapWallet' \subseteq Tx /\ fSpent' \subseteq mapWallet'
        /\ disk' \in [tx : SUBSET Tx, spent : SUBSET Tx, keys : SUBSET Own]
        /\ draft' \in Own \cup {NoTx} /\ commit' \in {"no", "keyed", "recorded", "marked"}
        /\ Stored' /\ Drafted' /\ Paid'
    BY <1>1, <1>3, <2>1, Takes
  <2> QED
    BY <1>1, <1>2, <2>2 DEF WalletIInv, Types
<1>6. Confirmed(chain)' = Confirmed(chain) \cup B /\ Chained(chain)'
  <2>1. vin' = vin /\ chain' = chain'
    BY <1>1
  <2>2. Confirmed(chain)' = Confirmed(chain')
    BY DEF Confirmed
  <2>3. Chained(chain)' <=> Chained(chain')
    BY <2>1 DEF Chained, Confirmed
  <2> QED
    BY <1>2, <2>2, <2>3
<1>7. OwnKnown' /\ PoolLoose'
  BY <1>1, <1>2, <1>4, <1>6, MinableKnown DEF WalletIInv, OwnKnown, PoolLoose
<1>8. SpentInBlock'
  <2> SUFFICES ASSUME NEW i \in DOMAIN chain', NEW u \in chain'[i], NEW c \in vin[u] \cap mapWallet',
                      c \notin fSpent', IsMine(c)
               PROVE  c \in chain'[i]
    BY <1>1 DEF SpentInBlock, IsMine, Credit
  <2>1. CASE i = n
    BY <1>2, <1>4, <2>1 DEF UpdatedSpent
  <2>2. CASE i \in DOMAIN chain
    <3>1. c \in Confirmed(chain)
      BY <1>2, <1>3, <1>4, <2>2, SpentOnIn, SpentConfirmed DEF WalletIInv, Types
    <3> QED
      BY <1>2, <1>4, <2>2, <3>1 DEF WalletIInv, SpentInBlock
  <2> QED
    BY <1>2, <2>1, <2>2
<1> QED
  BY <1>5, <1>6, <1>7, <1>8 DEF WalletIInv

\* The chain and the pool stay; the transactions taken up are not confirmed.
LEMMA UndoneStep == ASSUME WalletIInv, NEW B \in SUBSET Tx, ConnectUndone(B) PROVE WalletIInv'
<1>1. /\ Unlocked /\ B \in NextBlocks(chain, Minable)
      /\ UNCHANGED <<money, sending, committed>> /\ UNCHANGED <<vin, change, mapTransactions, chain, relayed>>
  BY DEF ConnectUndone, money, network
<1>2. B \cap Confirmed(chain) = {} /\ B \subseteq Minable
  BY <1>1 DEF NextBlocks
<1>3. PICK tx : /\ WalletIs(tx, fSpent \cup UpdatedSpent(B, mapWallet))
                /\ mapWallet \subseteq tx /\ tx \subseteq mapWallet \cup B
  BY DEF ConnectUndone, Connected
<1> DEFINE spent == fSpent \cup UpdatedSpent(B, mapWallet)
<1>4. /\ tx \in SUBSET Tx /\ tx \cap Own \subseteq mapWallet
      /\ fSpent \subseteq spent /\ spent \subseteq tx
  BY <1>2, <1>3, MinableKnown, FlaggedKnown DEF WalletIInv, Types
<1> HIDE DEF spent
<1>5. /\ vin' \in [Tx -> SUBSET Input] /\ change' \in [Own -> Nat]
      /\ mapWallet' \subseteq Tx /\ fSpent' \subseteq mapWallet'
      /\ disk' \in [tx : SUBSET Tx, spent : SUBSET Tx, keys : SUBSET Own]
      /\ draft' \in Own \cup {NoTx} /\ commit' \in {"no", "keyed", "recorded", "marked"}
      /\ Stored' /\ Drafted' /\ Paid'
  BY <1>1, <1>3, <1>4, Takes DEF spent
<1>6. Types'
  BY <1>1, <1>5 DEF WalletIInv, Types
<1>7. Confirmed(chain)' = Confirmed(chain) /\ Chained(chain)'
  BY <1>1 DEF WalletIInv, Chained, Confirmed
<1>8. mapWallet' = tx /\ fSpent \subseteq fSpent'
  BY <1>3 DEF WalletIs
<1>9. OwnKnown' /\ PoolLoose'
  BY <1>1, <1>3, <1>7, <1>8 DEF WalletIInv, OwnKnown, PoolLoose
<1>10. SpentInBlock'
  <2> SUFFICES ASSUME NEW i \in DOMAIN chain, NEW u \in chain[i], NEW c \in vin[u] \cap tx,
                      c \notin fSpent, IsMine(c)
               PROVE  c \in chain[i]
    BY <1>1, <1>8 DEF SpentInBlock, IsMine, Credit
  <2>1. c \in Confirmed(chain)
    BY <1>4, SpentOnIn, SpentConfirmed DEF WalletIInv, Types
  <2>2. c \in mapWallet
    BY <1>2, <1>3, <2>1
  <2> QED
    BY <2>2 DEF WalletIInv, SpentInBlock
<1> QED
  BY <1>5, <1>6, <1>7, <1>9, <1>10 DEF WalletIInv

LEMMA ReorganizeStep ==
    ASSUME WalletIInv, NEW B \in SUBSET Tx, NEW C \in SUBSET Tx, Reorganize(B, C)
    PROVE  WalletIInv'
<1> DEFINE base == Front(chain)
           mid == Append(base, B)
           back == {t \in Last(chain) : InConflict(t) = {}}
           tx == mapWallet \cup {t \in B \cup C : IsMine(t)}
           in == mapWallet \cup {t \in B : IsMine(t)}
           spent == fSpent \cup UpdatedSpent(B, mapWallet) \cup UpdatedSpent(C, in)
           ts == Minable \cup Last(chain)
           n == Len(base) + 1
           m == Len(mid) + 1
<1>1. /\ Unlocked /\ chain # <<>> /\ B \in NextBlocks(base, ts) /\ C \in NextBlocks(mid, ts)
      /\ chain' = base \o <<B, C>> /\ mapTransactions' = (mapTransactions \cup back) \ (B \cup C)
      /\ WalletIs(tx, spent)
      /\ UNCHANGED <<money, relayed, sending, committed>> /\ UNCHANGED <<vin, change>>
  BY DEF Reorganize, money
<1>2. /\ base \in Seq(SUBSET Tx) /\ Chained(base)
      /\ Confirmed(chain) = Confirmed(base) \cup Last(chain)
      /\ Confirmed(base) \cap Last(chain) = {} /\ Last(chain) \in SUBSET Tx
      /\ DOMAIN base \subseteq DOMAIN chain
      /\ \A i \in DOMAIN base : base[i] = chain[i]
  BY <1>1, Shrinks DEF WalletIInv, Types
<1>3. ts \in SUBSET Tx /\ ts \subseteq Minable \cup Confirmed(chain)
  BY <1>2, MinableTx
<1> HIDE DEF base, ts
<1>4. /\ mid \in Seq(SUBSET Tx) /\ Chained(mid)
      /\ Confirmed(mid) = Confirmed(base) \cup B
      /\ B \cap Confirmed(base) = {} /\ B \subseteq ts
      /\ DOMAIN mid = DOMAIN base \cup {n} /\ mid[n] = B
      /\ \A i \in DOMAIN base : mid[i] = base[i]
  BY <1>1, <1>2, <1>3, Grows
<1>5. chain' = Append(mid, C)
  BY <1>1, <1>2, TwoMore
<1> HIDE DEF mid, n
<1>6. /\ chain' \in Seq(SUBSET Tx) /\ Chained(chain')
      /\ Confirmed(chain') = Confirmed(mid) \cup C
      /\ C \cap Confirmed(mid) = {} /\ C \subseteq ts
      /\ DOMAIN chain' = DOMAIN mid \cup {m} /\ chain'[m] = C
      /\ \A i \in DOMAIN mid : chain'[i] = mid[i]
  <2>1. C \in NextBlocks(mid, ts)
    BY <1>1
  <2>2. /\ Append(mid, C) \in Seq(SUBSET Tx) /\ Chained(Append(mid, C))
        /\ Confirmed(Append(mid, C)) = Confirmed(mid) \cup C
        /\ C \cap Confirmed(mid) = {} /\ C \subseteq ts
        /\ DOMAIN Append(mid, C) = DOMAIN mid \cup {m} /\ Append(mid, C)[m] = C
        /\ \A i \in DOMAIN mid : Append(mid, C)[i] = mid[i]
    BY <1>3, <1>4, <2>1, Grows
  <2> HIDE DEF m
  <2> QED
    BY <1>5, <2>2
<1> HIDE DEF m
<1>7. B \cap Own \subseteq mapWallet /\ C \cap Own \subseteq mapWallet
  BY <1>3, <1>4, <1>6, MinableKnown
<1>8. UpdatedSpent(B, mapWallet) \subseteq mapWallet /\ UpdatedSpent(C, in) \subseteq in
  BY FlaggedKnown
<1>9. /\ tx \in SUBSET Tx /\ tx \cap Own \subseteq mapWallet /\ mapWallet \subseteq tx
      /\ fSpent \subseteq spent /\ spent \subseteq tx
  BY <1>7, <1>8 DEF WalletIInv, Types
<1>10. mapWallet' = tx /\ fSpent' = spent
  BY <1>1 DEF WalletIs
<1>11. Types' /\ Stored' /\ Drafted' /\ Paid'
  <2> HIDE DEF tx, spent, in
  <2>1. UNCHANGED <<money, sending, committed>>
    BY <1>1
  <2>2. /\ vin' \in [Tx -> SUBSET Input] /\ change' \in [Own -> Nat]
        /\ mapWallet' \subseteq Tx /\ fSpent' \subseteq mapWallet'
        /\ disk' \in [tx : SUBSET Tx, spent : SUBSET Tx, keys : SUBSET Own]
        /\ draft' \in Own \cup {NoTx} /\ commit' \in {"no", "keyed", "recorded", "marked"}
        /\ Stored' /\ Drafted' /\ Paid'
    BY <1>1, <1>9, <2>1, Takes
  <2>3. mapTransactions' \subseteq Tx
    BY <1>1, <1>2 DEF WalletIInv, Types
  <2> QED
    BY <1>1, <1>6, <2>2, <2>3 DEF WalletIInv, Types
<1>12. /\ Confirmed(chain)' = Confirmed(base) \cup B \cup C /\ Chained(chain)'
       /\ (B \cup C) \cap Confirmed(base) = {} /\ B \cap C = {}
  <2>0. vin' = vin
    BY <1>1
  <2>1. Confirmed(chain') = Confirmed(chain)' /\ (Chained(chain') => Chained(chain)')
    BY <2>0 DEF Chained, Confirmed
  <2> QED
    BY <1>4, <1>6, <2>1
<1>13. OwnKnown' /\ PoolLoose'
  <2>1. mapTransactions' \subseteq (mapTransactions \cup Last(chain)) \ (B \cup C)
    BY <1>1
  <2>2. Last(chain) \cap Own \subseteq mapWallet
    BY <1>2 DEF WalletIInv, OwnKnown
  <2>3. OwnKnown'
    BY <1>1, <1>2, <1>7, <1>9, <1>10, <1>12, <2>1, <2>2 DEF WalletIInv, OwnKnown
  <2>4. PoolLoose'
    BY <1>2, <1>12, <2>1 DEF WalletIInv, PoolLoose
  <2> QED
    BY <2>3, <2>4
<1>14. SpentInBlock'
  <2> SUFFICES ASSUME NEW i \in DOMAIN chain', NEW u \in chain'[i], NEW c \in vin[u] \cap tx,
                      c \notin spent, IsMine(c)
               PROVE  c \in chain'[i]
    BY <1>1, <1>10 DEF SpentInBlock, IsMine, Credit
  <2>1. CASE i = m
    BY <1>6, <2>1 DEF UpdatedSpent
  <2>2. CASE i = n
    <3>1. u \in B /\ chain'[i] = B
      BY <1>4, <1>6, <2>2
    <3>2. c \notin mapWallet
      BY <3>1 DEF UpdatedSpent
    <3>3. c \in Confirmed(mid)
      BY <1>4, <1>9, <2>2, <3>1, SpentOnIn, SpentConfirmed
    <3> QED
      BY <1>6, <3>1, <3>2, <3>3
  <2>3. CASE i \in DOMAIN base
    <3>1. u \in base[i] /\ chain'[i] = base[i] /\ i \in DOMAIN chain /\ chain[i] = base[i]
      BY <1>2, <1>4, <1>6, <2>3
    <3>2. c \in Confirmed(base)
      BY <1>2, <1>9, <2>3, <3>1, SpentOnIn, SpentConfirmed
    <3>3. c \in mapWallet /\ c \notin fSpent
      BY <1>9, <1>12, <3>2
    <3> QED
      BY <3>1, <3>3 DEF WalletIInv, SpentInBlock
  <2> QED
    BY <1>4, <1>6, <2>1, <2>2, <2>3
<1> QED
  BY <1>11, <1>12, <1>13, <1>14 DEF WalletIInv

-----------------------------------------------------------------------------
(* Sums.  The sum over a set is the value of a recursive function, which   *)
(* exists because the sets get smaller.                                    *)

One(s) == CHOOSE x \in s : TRUE

\* What the function g has for s, if it sums up.
Summed(g, s) == IF s = {} THEN 0 ELSE Credit(One(s)) + g[s \ {One(s)}]

SumsUp(S, g) == g = [s \in SUBSET S |-> Summed(g, s)]

LEMMA SumOfIs == ASSUME NEW S PROVE SumOf(S) = (CHOOSE g : SumsUp(S, g))[S]
  BY DEF SumOf, MapThenSumSet, MapThenFoldSet, SumsUp, Summed, One

LEMMA OneIn == ASSUME NEW s, s # {} PROVE One(s) \in s
  BY DEF One

\* A set of numbers that has none without a smaller one is empty.
LEMMA NoSmallest ==
    ASSUME NEW Bad \in SUBSET Nat, \A n \in Bad : \E k \in Bad : k < n
    PROVE  Bad = {}
<1> SUFFICES ASSUME Bad # {} PROVE FALSE
  OBVIOUS
<1>1. \E n \in Bad : \A k \in Bad : ~(<<k, n>> \in OpToRel(<, Nat))
  BY NatLessThanWellFounded, WFMin
<1>2. \A k, n \in Nat : k < n => <<k, n>> \in OpToRel(<, Nat)
  BY DEF OpToRel
<1> QED
  BY <1>1, <1>2

\* One element less is one less to count.
LEMMA Fewer ==
    ASSUME NEW S, IsFiniteSet(S), NEW s \in SUBSET S, s # {}
    PROVE  /\ Cardinality(s) \in Nat \ {0} /\ s \ {One(s)} \in SUBSET S
           /\ Cardinality(s \ {One(s)}) = Cardinality(s) - 1
<1>1. IsFiniteSet(s) /\ One(s) \in s
  BY OneIn, FS_Subset
<1>2. Cardinality(s \ {One(s)}) = Cardinality(s) - 1
  BY <1>1, FS_RemoveElement
<1> QED
  BY <1>1, <1>2, FS_CardinalityType, FS_EmptySet

LEMMA SumExists == ASSUME NEW S, IsFiniteSet(S) PROVE \E g : SumsUp(S, g)
<1> DEFINE Upto(g, n) == \A s \in SUBSET S : Cardinality(s) <= n => g[s] = Summed(g, s)
           Bad == {n \in Nat : ~\E g : Upto(g, n)}
<1>1. ASSUME NEW n \in Bad PROVE \E k \in Bad : k < n
  <2> SUFFICES ASSUME \A k \in Nat : k < n => k \notin Bad PROVE \E g : Upto(g, n)
    BY <1>1
  <2>1. CASE n = 0
    <3>1. Upto([s \in SUBSET S |-> 0], 0)
      <4> SUFFICES ASSUME NEW s \in SUBSET S, Cardinality(s) <= 0 PROVE s = {}
        BY DEF Summed
      <4>1. s # {} => Cardinality(s) \in Nat \ {0}
        BY Fewer
      <4> QED
        BY <4>1
    <3> QED
      BY <2>1, <3>1
  <2>2. CASE n # 0
    <3>1. n - 1 \in Nat /\ n - 1 < n
      BY <1>1, <2>2
    <3>2. PICK g : Upto(g, n - 1)
      BY <3>1
    <3> DEFINE h == [s \in SUBSET S |-> Summed(g, s)]
    <3>3. ASSUME NEW s \in SUBSET S, Cardinality(s) <= n PROVE h[s] = Summed(h, s)
      <4>1. CASE s = {}
        BY <4>1 DEF Summed
      <4>2. CASE s # {}
        <5> DEFINE u == s \ {One(s)}
        <5>1. u \in SUBSET S /\ Cardinality(u) <= n - 1
          BY <1>1, <3>3, <4>2, Fewer
        <5>2. g[u] = Summed(g, u)
          BY <3>2, <5>1
        <5>3. h[u] = g[u]
          BY <5>1, <5>2
        <5> QED
          BY <4>2, <5>3 DEF Summed
      <4> QED
        BY <4>1, <4>2
    <3>4. Upto(h, n)
      BY <3>3
    <3> HIDE DEF h
    <3> QED
      BY <3>4
  <2> QED
    BY <2>1, <2>2
<1>2. Bad = {}
  <2> HIDE DEF Bad
  <2>1. Bad \in SUBSET Nat
    BY DEF Bad
  <2> QED
    BY <1>1, <2>1, NoSmallest
<1>3. Cardinality(S) \in Nat /\ \A s \in SUBSET S : Cardinality(s) <= Cardinality(S)
  BY FS_CardinalityType, FS_Subset
<1>4. PICK g : Upto(g, Cardinality(S))
  BY <1>2, <1>3
<1> DEFINE h == [s \in SUBSET S |-> g[s]]
<1>5. ASSUME NEW s \in SUBSET S PROVE h[s] = Summed(h, s)
  BY <1>3, <1>4, Fewer DEF Summed
<1>6. SumsUp(S, h)
  BY <1>5 DEF SumsUp
<1> QED
  BY <1>6

LEMMA CreditNat == ASSUME change \in [Own -> Nat], NEW c PROVE Credit(c) \in Nat
  BY WalletAssumption DEF Credit

LEMMA SumNat ==
    ASSUME change \in [Own -> Nat], NEW S, IsFiniteSet(S)
    PROVE  SumOf(S) \in Nat
<1> DEFINE g == CHOOSE g : SumsUp(S, g)
<1>1. SumsUp(S, g)
  BY SumExists
<1> HIDE DEF g
<1>2. \A s \in SUBSET S : g[s] = Summed(g, s)
  BY <1>1 DEF SumsUp
<1> DEFINE Bad == {Cardinality(s) : s \in {u \in SUBSET S : g[u] \notin Nat}}
<1>3. ASSUME NEW n \in Bad PROVE \E k \in Bad : k < n
  <2>1. PICK s \in SUBSET S : g[s] \notin Nat /\ n = Cardinality(s)
    BY <1>3
  <2>2. s # {} /\ g[s] = Credit(One(s)) + g[s \ {One(s)}]
    BY <1>2, <2>1 DEF Summed
  <2>3. g[s \ {One(s)}] \notin Nat
    BY <2>1, <2>2, CreditNat
  <2>4. Cardinality(s \ {One(s)}) \in Bad /\ Cardinality(s \ {One(s)}) < n
    BY <2>1, <2>2, <2>3, Fewer
  <2> QED
    BY <2>4
<1>4. Bad \in SUBSET Nat
  BY FS_Subset, FS_CardinalityType
<1> HIDE DEF Bad
<1>5. Bad = {}
  BY <1>3, <1>4, NoSmallest
<1>6. g[S] \in Nat
  BY <1>5 DEF Bad
<1> QED
  BY <1>6, SumOfIs DEF g

LEMMA SumOne == ASSUME change \in [Own -> Nat], NEW c PROVE SumOf({c}) = Credit(c)
<1> DEFINE g == CHOOSE g : SumsUp({c}, g)
<1>1. SumsUp({c}, g)
  BY SumExists, FS_Singleton
<1> HIDE DEF g
<1>2. \A s \in SUBSET {c} : g[s] = Summed(g, s)
  BY <1>1 DEF SumsUp
<1>3. One({c}) = c
  BY OneIn
<1>4. g[{c}] = Credit(c) + g[{}]
  <2>1. {c} \ {c} = {}
    OBVIOUS
  <2> QED
    BY <1>2, <1>3, <2>1 DEF Summed
<1>5. g[{}] = 0
  BY <1>2 DEF Summed
<1>6. SumOf({c}) = g[{c}]
  BY SumOfIs DEF g
<1>7. Credit(c) \in Nat
  BY CreditNat
<1> QED
  BY <1>4, <1>5, <1>6, <1>7

\* What SelectCoins takes is there, unspent, and enough.
LEMMA Selected ==
    ASSUME Types, NEW target \in Nat, NEW S \in SelectCoins(target)
    PROVE  S \subseteq mapWallet \ fSpent /\ SumOf(S) \in Nat /\ SumOf(S) >= target
<1> DEFINE coins  == {c \in mapWallet \ fSpent : Credit(c) > 0}
           exact  == {c \in coins : Credit(c) = target}
           lower  == {c \in coins : Credit(c) < target}
           larger == {c \in coins \ lower : \A d \in coins \ lower : Credit(c) <= Credit(d)}
           reach  == {T \in SUBSET lower : /\ SumOf(T) >= target
                                           /\ T = lower \/ \E c \in T : SumOf(T \ {c}) < target}
<1>1. (\E c \in exact \cup larger : S = {c}) \/ S \in reach
  BY DEF SelectCoins
<1>2. S \subseteq coins
  BY <1>1
<1>3. IsFiniteSet(S)
  BY <1>2, WalletAssumption, FS_Subset DEF Types
<1>4. SumOf(S) \in Nat
  BY <1>3, SumNat DEF Types
<1>5. ASSUME NEW c \in exact \cup larger, S = {c} PROVE SumOf(S) >= target
  <2>1. Credit(c) \in Nat /\ Credit(c) >= target
    BY CreditNat DEF Types
  <2> QED
    BY <1>5, <2>1, SumOne DEF Types
<1> QED
  BY <1>1, <1>2, <1>4, <1>5

\* What CreateTransaction makes pays what it should.
LEMMA CreatedPays ==
    ASSUME Types, NEW amount \in Amount, NEW made \in Created(amount)
    PROVE  made.coins \subseteq mapWallet \ fSpent /\ made.change \in Nat
<1>1. amount \in Nat /\ Cent \in Nat /\ amount + Cent \in Nat
  BY WalletAssumption
<1>2. \/ \E S \in SelectCoins(amount) : made = [coins |-> S, change |-> SumOf(S) - amount - 0]
      \/ \E S \in SelectCoins(amount + Cent) : made = [coins |-> S, change |-> SumOf(S) - amount - Cent]
  BY DEF Created
<1> QED
  BY <1>1, <1>2, Selected

-----------------------------------------------------------------------------
(* Sending                                                                 *)

LEMMA ResendStep == ASSUME WalletIInv, NEW t \in Tx, Resend(t) PROVE WalletIInv'
<1>1. /\ relayed' = relayed \cup {t} /\ t \in mapWallet \cap Own
      /\ UNCHANGED <<vin, change, mapWallet, fSpent, disk, mapTransactions, chain, draft, commit, committed>>
  BY DEF Resend, money, wallet, sending
<1>2. Types' /\ Stored' /\ OwnKnown' /\ PoolLoose'
  BY <1>1 DEF WalletIInv, Types, Stored, OwnKnown, PoolLoose, Confirmed
<1>3. Drafted' /\ Paid' /\ Chained(chain)' /\ SpentInBlock'
  BY <1>1 DEF WalletIInv, Drafted, Paid, CommittedDisjoint, Chained, SpentInBlock, Unlocked, Confirmed,
     IsMine, Credit
<1> QED
  BY <1>2, <1>3 DEF WalletIInv

\* A draft is made or dropped: only the transaction itself changes, which the wallet does
\* not have.
LEMMA DraftStep ==
    ASSUME WalletIInv, Abort \/ \E t \in Own, a \in Amount : Create(t, a)
    PROVE  WalletIInv'
<1>1. UNCHANGED <<mapWallet, fSpent, disk, mapTransactions, chain, relayed, commit, committed>> /\ commit = "no"
  BY DEF Abort, Create, wallet, network, WalletIInv, Drafted
<1>2. PICK t \in Own, coins \in SUBSET (mapWallet \ fSpent), rest \in Nat :
         /\ vin' = [vin EXCEPT ![t] = coins] /\ change' = [change EXCEPT ![t] = rest]
         /\ t \notin mapWallet /\ draft' \in {t, NoTx}
  <2>1. CASE Abort
    BY <2>1 DEF Abort, Unlocked, WalletIInv, Types, Drafted
  <2>2. ASSUME NEW t \in Own, NEW a \in Amount, Create(t, a)
        PROVE  \E coins \in SUBSET (mapWallet \ fSpent), rest \in Nat :
                  /\ vin' = [vin EXCEPT ![t] = coins] /\ change' = [change EXCEPT ![t] = rest]
                  /\ t \notin mapWallet /\ draft' = t
    <3>1. PICK made \in Created(a) : /\ vin' = [vin EXCEPT ![t] = made.coins]
                                     /\ change' = [change EXCEPT ![t] = made.change]
      BY <2>2 DEF Create
    <3>2. made.coins \subseteq mapWallet \ fSpent /\ made.change \in Nat
      BY CreatedPays DEF WalletIInv
    <3> QED
      BY <2>2, <3>1, <3>2 DEF Create
  <2> QED
    BY <2>1, <2>2
<1>3. /\ t \in Tx /\ t # NoTx /\ vin'[t] = coins /\ coins \subseteq Tx
      /\ \A u \in Tx \ {t} : vin'[u] = vin[u] /\ IsMine(u)' = IsMine(u)
      /\ \A u \in Own \ {t} : change'[u] = change[u]
  BY <1>2, WalletAssumption DEF WalletIInv, Types, Tx, IsMine, Credit
<1>4. t \notin Confirmed(chain) /\ t \notin committed /\ Confirmed(chain) \subseteq Tx
  <2>1. \A i \in DOMAIN chain : chain[i] \subseteq Tx
    BY ElementOfSeq, LenProperties DEF WalletIInv, Types
  <2> QED
    BY <1>2, <2>1, ConfirmedIn DEF WalletIInv, OwnKnown, Paid
<1>5. Types'
  <2>1. vin' \in [Tx -> SUBSET Input] /\ change' \in [Own -> Nat]
    BY <1>2, <1>3 DEF WalletIInv, Types, Input
  <2> QED
    BY <1>1, <1>2, <2>1 DEF WalletIInv, Types
<1>6. Stored' /\ OwnKnown' /\ PoolLoose'
  BY <1>1, <1>2, <1>3 DEF WalletIInv, Stored, OwnKnown, PoolLoose, Confirmed
<1>7. Paid'
  BY <1>1, <1>3, <1>4 DEF WalletIInv, Types, Paid, CommittedDisjoint, Tx
<1>8. Drafted'
  BY <1>1, <1>2, <1>3, <1>4, <1>7 DEF WalletIInv, Drafted, Paid, Unlocked, Confirmed, Tx
<1>9. Chained(chain)'
  <2>1. \A i \in DOMAIN chain : \A u \in chain[i] : u \in Tx \ {t}
    BY <1>4, ConfirmedIn
  <2> QED
    BY <1>1, <1>3, <2>1 DEF WalletIInv, Chained
<1>10. SpentInBlock'
  <2>1. \A i \in DOMAIN chain : \A u \in chain[i] : u \in Tx \ {t}
    BY <1>4, ConfirmedIn
  <2> QED
    BY <1>1, <1>2, <1>3, <2>1 DEF WalletIInv, Types, SpentInBlock
<1> QED
  BY <1>5, <1>6, <1>7, <1>8, <1>9, <1>10 DEF WalletIInv

LEMMA NotUnlocked ==
    ASSUME WalletIInv, commit # "no" \/ ~Unlocked
    PROVE  ~Unlocked /\ draft \in Own /\ draft \in Tx
  BY DEF WalletIInv, Types, Drafted, Unlocked, Tx

LEMMA CommitStep ==
    ASSUME WalletIInv, CommitKey \/ CommitRecord \/ CommitMarked \/ CommitAccept \/ \E c \in Tx : CommitCoin(c)
    PROVE  WalletIInv'
<1>0. ~Unlocked /\ draft \in Own /\ draft \in Tx
  BY NotUnlocked DEF CommitKey, CommitRecord, CommitMarked, CommitAccept, CommitCoin
<1>1. UNCHANGED <<vin, change, chain>>
  BY DEF CommitKey, CommitRecord, CommitMarked, CommitAccept, CommitCoin, money, network
<1>2. Chained(chain)' /\ Confirmed(chain)' = Confirmed(chain)
  BY <1>1 DEF WalletIInv, Chained, Confirmed
<1>3. CASE CommitKey
  <2>1. /\ commit = "no" /\ commit' = "keyed" /\ disk' \in {disk, [disk EXCEPT !.keys = @ \cup {draft}]}
        /\ (change[draft] > 0 => disk' = [disk EXCEPT !.keys = @ \cup {draft}])
        /\ UNCHANGED <<mapWallet, fSpent, mapTransactions, relayed, draft, committed>>
    BY <1>3 DEF CommitKey, AddKey, network
  <2>2. /\ disk' \in [tx : SUBSET Tx, spent : SUBSET Tx, keys : SUBSET Own]
        /\ disk'.tx = disk.tx /\ disk'.spent = disk.spent /\ disk.keys \subseteq disk'.keys
        /\ change[draft] > 0 => draft \in disk'.keys
    BY <1>0, <2>1 DEF WalletIInv, Types
  <2>3. Types' /\ Stored'
    BY <1>1, <2>1, <2>2 DEF WalletIInv, Types, Stored
  <2>4. OwnKnown' /\ PoolLoose' /\ SpentInBlock'
    BY <1>1, <1>2, <2>1 DEF WalletIInv, OwnKnown, PoolLoose, SpentInBlock, IsMine, Credit
  <2>5. Drafted'
    BY <1>0, <1>1, <1>2, <2>1, <2>2 DEF WalletIInv, Drafted, Unlocked
  <2>6. Paid'
    BY <1>1, <2>1 DEF WalletIInv, Paid, CommittedDisjoint
  <2> QED
    BY <1>2, <2>3, <2>4, <2>5, <2>6 DEF WalletIInv
<1>4. CASE CommitRecord
  <2>1. /\ commit = "keyed" /\ commit' = "recorded" /\ mapWallet' = mapWallet \cup {draft}
        /\ disk' = [disk EXCEPT !.tx = @ \cup {draft}]
        /\ UNCHANGED <<fSpent, mapTransactions, relayed, draft, committed>>
    BY <1>4 DEF CommitRecord, network
  <2>2. /\ disk' \in [tx : SUBSET Tx, spent : SUBSET Tx, keys : SUBSET Own]
        /\ disk'.tx = disk.tx \cup {draft} /\ disk'.spent = disk.spent /\ disk.keys = disk'.keys
    BY <1>0, <2>1 DEF WalletIInv, Types
  <2>3. change[draft] > 0 => draft \in disk.keys
    BY <2>1 DEF WalletIInv, Drafted
  <2>4. Types'
    BY <1>0, <1>1, <2>1, <2>2 DEF WalletIInv, Types
  <2>5. Stored' /\ OwnKnown' /\ PoolLoose'
    BY <1>1, <1>2, <2>1, <2>2, <2>3 DEF WalletIInv, Stored, OwnKnown, PoolLoose
  <2>6. Drafted' /\ Paid'
    BY <1>1, <1>2, <2>1, <2>2, <2>3 DEF WalletIInv, Drafted, Paid, CommittedDisjoint, Unlocked
  <2>7. SpentInBlock'
    <3>1. draft \notin SpentOn(chain)
      BY <1>0, SpentConfirmed DEF WalletIInv, Types, Drafted
    <3>2. \A i \in DOMAIN chain : \A u \in chain[i] : draft \notin vin[u]
      BY <3>1, SpentOnIn
    <3> QED
      BY <1>1, <2>1, <3>2 DEF WalletIInv, SpentInBlock, IsMine, Credit
  <2> QED
    BY <1>2, <2>4, <2>5, <2>6, <2>7 DEF WalletIInv
<1>5. CASE \E c \in Tx : CommitCoin(c)
  <2>1. PICK c \in Tx : /\ commit = "recorded" /\ c \in vin[draft]
                        /\ fSpent' = fSpent \cup {c} /\ disk' = [disk EXCEPT !.spent = @ \cup {c}]
                        /\ UNCHANGED <<mapWallet, mapTransactions, relayed, draft, commit, committed>>
    BY <1>5 DEF CommitCoin, Spent, network, sending
  <2>2. /\ disk' \in [tx : SUBSET Tx, spent : SUBSET Tx, keys : SUBSET Own]
        /\ disk'.tx = disk.tx /\ disk'.spent = disk.spent \cup {c} /\ disk.keys = disk'.keys
    BY <2>1 DEF WalletIInv, Types
  <2>3. c \in mapWallet
    BY <1>0, <2>1 DEF WalletIInv, Drafted
  <2>4. Types' /\ Stored'
    BY <1>1, <2>1, <2>2, <2>3 DEF WalletIInv, Types, Stored
  <2>5. OwnKnown' /\ PoolLoose' /\ SpentInBlock'
    BY <1>1, <1>2, <2>1 DEF WalletIInv, OwnKnown, PoolLoose, SpentInBlock, IsMine, Credit
  <2>6. Drafted' /\ Paid'
    BY <1>1, <1>2, <2>1, <2>2 DEF WalletIInv, Drafted, Paid, CommittedDisjoint, Unlocked
  <2> QED
    BY <1>2, <2>4, <2>5, <2>6 DEF WalletIInv
<1>6. CASE CommitMarked
  <2>1. /\ commit = "recorded" /\ commit' = "marked" /\ vin[draft] \subseteq fSpent
        /\ committed' = committed \cup {draft}
        /\ UNCHANGED <<mapWallet, fSpent, disk, mapTransactions, relayed, draft>>
    BY <1>6 DEF CommitMarked, wallet, network
  <2>2. Types' /\ Stored' /\ OwnKnown' /\ PoolLoose' /\ SpentInBlock'
    BY <1>1, <1>2, <2>1 DEF WalletIInv, Types, Stored, OwnKnown, PoolLoose, SpentInBlock, IsMine, Credit
  <2>3. Drafted'
    BY <1>1, <1>2, <2>1 DEF WalletIInv, Drafted, Unlocked
  <2>4. Paid'
    BY <1>0, <1>1, <2>1 DEF WalletIInv, Drafted, Paid, CommittedDisjoint
  <2> QED
    BY <1>2, <2>2, <2>3, <2>4 DEF WalletIInv
<1>7. CASE CommitAccept
  <2>1. /\ commit = "marked" /\ commit' = "no" /\ draft' = NoTx
        /\ mapTransactions' \subseteq mapTransactions \cup {draft} /\ relayed' \subseteq relayed \cup {draft}
        /\ UNCHANGED <<mapWallet, fSpent, disk, committed>>
    BY <1>7 DEF CommitAccept, wallet
  <2>2. draft \in mapWallet /\ draft \notin Confirmed(chain)
    BY <1>0, <2>1 DEF WalletIInv, Drafted
  <2>3. Types' /\ Stored'
    BY <1>0, <1>1, <2>1 DEF WalletIInv, Types, Stored
  <2>4. OwnKnown' /\ PoolLoose' /\ SpentInBlock'
    BY <1>1, <1>2, <2>1, <2>2 DEF WalletIInv, OwnKnown, PoolLoose, SpentInBlock, IsMine, Credit
  <2>5. Drafted' /\ Paid'
    BY <1>1, <1>2, <2>1 DEF WalletIInv, Drafted, Paid, CommittedDisjoint, Unlocked
  <2> QED
    BY <1>2, <2>3, <2>4, <2>5 DEF WalletIInv
<1> QED
  BY <1>3, <1>4, <1>5, <1>6, <1>7

LEMMA RestartStep == ASSUME WalletIInv, Restart PROVE WalletIInv'
<1>1. /\ mapWallet' = mapWallet /\ fSpent' = fSpent \cup FoundSpent
      /\ disk' = [disk EXCEPT !.spent = fSpent'] /\ mapTransactions' \in Reaccepted
      /\ draft' = NoTx /\ commit' = "no"
      /\ UNCHANGED <<vin, change, chain, relayed, committed>>
  BY DEF Restart, money, WalletIInv, Stored
<1>2. FoundSpent \subseteq mapWallet /\ mapTransactions' \subseteq mapWallet \ Confirmed(chain)
  BY <1>1 DEF FoundSpent, Reaccepted, WalletIInv, Stored
<1>3. /\ disk' \in [tx : SUBSET Tx, spent : SUBSET Tx, keys : SUBSET Own]
      /\ disk'.tx = disk.tx /\ disk'.spent = fSpent' /\ disk'.keys = disk.keys
  BY <1>1, <1>2 DEF WalletIInv, Types
<1>4. Types' /\ Stored'
  BY <1>1, <1>2, <1>3 DEF WalletIInv, Types, Stored
<1>5. Chained(chain)' /\ Confirmed(chain)' = Confirmed(chain)
  BY <1>1 DEF WalletIInv, Chained, Confirmed
<1>6. OwnKnown' /\ PoolLoose' /\ SpentInBlock'
  BY <1>1, <1>2, <1>5 DEF WalletIInv, OwnKnown, PoolLoose, SpentInBlock, IsMine, Credit
<1>7. Drafted' /\ Paid'
  BY <1>1, <1>5 DEF WalletIInv, Drafted, Paid, CommittedDisjoint, Unlocked
<1> QED
  BY <1>4, <1>5, <1>6, <1>7 DEF WalletIInv

LEMMA InitWallet == Init => WalletIInv
<1> SUFFICES ASSUME Init PROVE WalletIInv
  OBVIOUS
<1>1. Types
  <2>1. vin \in [Tx -> SUBSET Input]
    BY DEF Init, Input
  <2>2. chain \in Seq(SUBSET Tx)
    BY EmptySeq DEF Init
  <2> QED
    BY <2>1, <2>2 DEF Init, Types
<1>2. DOMAIN chain = {} /\ Confirmed(chain) = {}
  BY ConfirmedIn DEF Init
<1>3. Stored /\ OwnKnown /\ PoolLoose /\ Drafted /\ Paid
  BY <1>2 DEF Init, Stored, OwnKnown, PoolLoose, Drafted, Paid, CommittedDisjoint, Unlocked
<1>4. Chained(chain) /\ SpentInBlock
  BY <1>2 DEF Chained, SpentInBlock
<1> QED
  BY <1>1, <1>3, <1>4 DEF WalletIInv

LEMMA WalletStutter == ASSUME WalletIInv, UNCHANGED walletVars PROVE WalletIInv'
<1>1. UNCHANGED <<vin, change, mapWallet, fSpent, disk, mapTransactions, chain, relayed, draft, commit, committed>>
  BY DEF walletVars, money, wallet, network, sending
<1>2. Types' /\ Stored' /\ OwnKnown' /\ PoolLoose'
  BY <1>1 DEF WalletIInv, Types, Stored, OwnKnown, PoolLoose, Confirmed
<1>3. Drafted' /\ Paid' /\ Chained(chain)' /\ SpentInBlock'
  BY <1>1 DEF WalletIInv, Drafted, Paid, CommittedDisjoint, Chained, SpentInBlock, Unlocked, Confirmed,
     IsMine, Credit
<1> QED
  BY <1>2, <1>3 DEF WalletIInv

-----------------------------------------------------------------------------
\* What the wallet, wallet.dat, the chain and the pool have of one another, in every state.
THEOREM WalletInvariant == Spec => []WalletIInv
<1>1. WalletIInv /\ [Next]_walletVars => WalletIInv'
  BY ReceiveStep, ResendStep, ConnectStep, UndoneStep, ReorganizeStep, DraftStep, CommitStep, RestartStep,
     WalletStutter DEF Next, Send
<1> QED
  BY InitWallet, <1>1, PTL DEF Spec

\* No two transactions that CommitTransaction recorded in full spend one coin, though the
\* process may stop between any two writes (main.cpp:3658-3706).
THEOREM PaidOnce == Spec => []WalletInv
<1>1. WalletIInv => WalletInv
  <2> SUFFICES ASSUME WalletIInv PROVE WalletInv
    OBVIOUS
  <2>1. WalletTypeOK
    BY DEF WalletIInv, Types, Stored, PoolLoose, WalletTypeOK, Input
  <2> QED
    BY <2>1 DEF WalletIInv, Paid, WalletInv
<1> QED
  BY WalletInvariant, <1>1, PTL

\* WalletUpdateSpent sees every coin that the chain spends, but one paid by the same block.
THEOREM SpentIsKnown == Spec => []ChainSpentKnown
<1>1. WalletIInv => ChainSpentKnown
  <2> SUFFICES ASSUME WalletIInv, NEW c \in mapWallet \ fSpent, IsMine(c), c \in SpentOn(chain)
               PROVE  \E i \in DOMAIN chain : c \in chain[i] /\ \E t \in chain[i] : c \in vin[t]
    BY DEF ChainSpentKnown
  <2>1. PICK i \in DOMAIN chain : \E t \in chain[i] : c \in vin[t]
    BY SpentOnIn
  <2> QED
    BY <2>1 DEF WalletIInv, SpentInBlock
<1> QED
  BY WalletInvariant, <1>1, PTL

\* A transaction is in wallet.dat, with the key of its change, before others can have it.
THEOREM RelayedKept == Spec => []RelayedRecoverable
<1>1. WalletIInv => RelayedRecoverable
  BY DEF WalletIInv, OwnKnown, Stored, RelayedRecoverable
<1> QED
  BY WalletInvariant, <1>1, PTL

\* ReacceptWalletTransactions finds what the chain has spent, and puts back what is not
\* confirmed (main.cpp:786-833).
THEOREM StartFinds == Spec => StartRestores
<1>1. WalletIInv /\ Restart => \A c \in (mapWallet \ fSpent)' : IsMine(c) => c \notin SpentOn(chain)
  <2> SUFFICES ASSUME WalletIInv, Restart, NEW c \in mapWallet, c \notin fSpent', IsMine(c), c \in SpentOn(chain)
               PROVE  FALSE
    BY DEF Restart, WalletIInv, Stored
  <2>1. c \in Confirmed(chain)
    BY SpentConfirmed DEF WalletIInv, Types
  <2> QED
    BY <2>1 DEF Restart, FoundSpent, WalletIInv, Stored
<1>2. Restart => \A t \in mapWallet' \ Confirmed(chain) :
          t \in mapTransactions' \/ \E u \in mapTransactions' : vin[u] \cap vin[t] # {}
  <2> SUFFICES ASSUME Restart, NEW t \in disk.tx \ Confirmed(chain), t \notin mapTransactions'
               PROVE  \E u \in mapTransactions' : vin[u] \cap vin[t] # {}
    BY DEF Restart
  <2> DEFINE loose == disk.tx \ Confirmed(chain)
             Fit(S) == \A v, u \in S : v # u => vin[v] \cap vin[u] = {}
  <2>1. Fit(mapTransactions') /\ ~Fit(mapTransactions' \cup {t})
    BY DEF Restart, Reaccepted
  <2> QED
    BY <2>1
<1> QED
  BY WalletInvariant, <1>1, <1>2, PTL DEF Spec, StartRestores, StartFindsSpent, StartRestoresPool
=============================================================================
