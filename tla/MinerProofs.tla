----------------------------- MODULE MinerProofs -----------------------------
(***************************************************************************)
(* The blocks a node makes, for any transactions, threads and bounds: the  *)
(* key of every block of the main chain is on disk, and only where another *)
(* thread comes between what a call does in ProcessBlock is a block not    *)
(* accepted that a thread solved for the tip.                              *)
(***************************************************************************)
EXTENDS Miner, FiniteSetTheorems, SequenceTheorems, TLAPS

\* A block of a chain has its key on disk.
Blocks == [txs : SUBSET Tx, saved : {TRUE}]
Chains == {ch \in Seq(Blocks) : Len(ch) <= MaxHeight}
Templates == [prev : Chains, txs : SUBSET Tx, value : Int, saved : BOOLEAN]
Stager == Maker \cup {Message}

Types ==
    /\ chain \in Chains /\ nBestHeight \in 0 .. MaxHeight
    /\ txdb \subseteq Tx /\ committed \in Chains /\ mapTransactions \subseteq Tx
    /\ cs_main \in Thread \cup {Free, Message}
    /\ new \in [Stager -> Chains]
    /\ stage \in [Stager -> {"no", "connected", "best"}]
    /\ pc \in [Maker -> {"off", "created", "begin", "read", "collected", "made", "keyed", "process", "leave"}]
    /\ template \in [Maker -> Templates]

\* Work is kept without its key.
WorkKept ==
    /\ work \subseteq Templates /\ IsFiniteSet(work) /\ Cardinality(work) <= MaxWork
    /\ freed \subseteq work /\ \A w \in work : ~w.saved
    /\ pc[Call] \in {"read", "collected"} => ~template[Call].saved

\* Whoever is in ProcessBlock holds cs_main, but for a call.
Locks ==
    /\ \A m \in Thread : /\ pc[m] \in {"keyed", "process"} <=> cs_main = m
                         /\ stage[m] # "no" <=> pc[m] = "process"
    /\ stage[Message] # "no" <=> cs_main = Message
    /\ stage[Call] # "no" <=> pc[Call] = "process"

\* A solved block is on a chain that is not full, and its key is on disk.
Keyed == \A m \in Maker : pc[m] = "keyed" => template[m].saved /\ Len(template[m].prev) < MaxHeight

Owned == Types /\ WorkKept /\ Locks /\ Keyed

-----------------------------------------------------------------------------
(* Lemmas                                                                  *)

LEMMA Names ==
    /\ Call \notin Thread /\ Message \notin Thread /\ Free \notin Thread
    /\ Call # Message /\ Call # Free /\ Message # Free
    /\ Maker = Thread \cup {Call} /\ Stager = Thread \cup {Call, Message}
    /\ Message \notin Maker
  BY MinerAssumption DEF Call, Message, Free, Maker, Stager

\* What is confirmed are transactions.
LEMMA ConfirmedTx ==
    ASSUME NEW ch \in Chains
    PROVE  Confirmed(ch) \subseteq Tx
<1>1. \A i \in DOMAIN ch : ch[i] \in Blocks
  BY ElementOfSeq, LenProperties DEF Chains
<1> QED
  BY <1>1 DEF Confirmed, Blocks

LEMMA EmptyChain == <<>> \in Chains /\ Len(<<>>) = 0
  BY MinerAssumption DEF Chains

\* A block on the tip.
LEMMA OneMore ==
    ASSUME NEW ch \in Chains, Len(ch) < MaxHeight, NEW b \in Blocks
    PROVE  Append(ch, b) \in Chains /\ Len(Append(ch, b)) = Len(ch) + 1
  BY MinerAssumption DEF Chains

\* A chain without its last block.
LEMMA FrontBlocks ==
    ASSUME NEW ch \in Seq(Blocks), ch # <<>>
    PROVE  Front(ch) \in Seq(Blocks)
<1> DEFINE n == Len(ch)
<1>1. n \in Nat \ {0} /\ DOMAIN ch = 1 .. n /\ \A i \in 1 .. n : ch[i] \in Blocks
  BY EmptySeq, LenProperties, ElementOfSeq
<1> HIDE DEF n
<1>2. 1 \in Int /\ n - 1 \in Int /\ \A i \in 1 .. n - 1 : ch[i] \in Blocks
  BY <1>1
<1>3. SubSeq(ch, 1, n - 1) \in Seq(Blocks)
  BY <1>2, SubSeqProperties
<1> QED
  BY <1>3 DEF Front, n

LEMMA OtherBlock == ASSUME NEW S \in SUBSET Tx PROVE Other(S) \in Blocks
  BY DEF Other, Blocks

\* What others send.
LEMMA FittingTx == ASSUME NEW ts, NEW have, NEW S \in Fitting(ts, have) PROVE S \subseteq ts /\ S \cap have = {}
  BY DEF Fitting

\* Division makes nothing larger.
LEMMA Quotient == ASSUME NEW n \in Nat, NEW h \in Nat \ {0} PROVE n \div h \in 0 .. n
<1> DEFINE q == n \div h
<1>1. q \in Int /\ h * q <= n /\ n < h * q + h
  OBVIOUS
<1> HIDE DEF q
<1>2. q >= 0
  <2> SUFFICES ASSUME q <= -1 PROVE FALSE
    BY <1>1
  <2>1. h * q <= h * (-1)
    BY <1>1
  <2> QED
    BY <1>1, <2>1
<1>3. q <= h * q
  <2>1. 1 * q <= h * q
    BY <1>1, <1>2
  <2> QED
    BY <1>1, <2>1
<1> QED
  BY <1>1, <1>2, <1>3 DEF q

LEMMA PowerOfTwo == ASSUME NEW k \in Nat PROVE 2 ^ k \in Int
  OBVIOUS

\* What a block pays is a number.
LEMMA ValueInt == ASSUME nBestHeight \in 0 .. MaxHeight PROVE GetBlockValue \in Int
<1>1. nBestHeight \div Halving \in 0 .. nBestHeight
  BY Quotient, MinerAssumption
<1>2. MaxHeight - (nBestHeight \div Halving) \in Nat
  BY <1>1, MinerAssumption
<1> QED
  BY <1>2, PowerOfTwo DEF GetBlockValue

\* What is left of the work that is kept.
LEMMA Smaller ==
    ASSUME NEW S, NEW T \in SUBSET S, IsFiniteSet(S), Cardinality(S) <= MaxWork
    PROVE  IsFiniteSet(T) /\ Cardinality(T) <= MaxWork
<1>1. IsFiniteSet(T) /\ Cardinality(T) <= Cardinality(S)
  BY FS_Subset
<1>2. Cardinality(T) \in Nat /\ Cardinality(S) \in Nat /\ MaxWork \in Nat
  BY <1>1, FS_CardinalityType, MinerAssumption
<1> QED
  BY <1>1, <1>2

LEMMA NoTemplateIs == NoTemplate \in Templates
  BY EmptyChain DEF NoTemplate, Templates

-----------------------------------------------------------------------------
(* Types and locks                                                         *)

LEMMA InitOwned == Init => Owned
<1> SUFFICES ASSUME Init PROVE Owned
  OBVIOUS
<1>1. IsFiniteSet({}) /\ Cardinality({}) = 0
  BY FS_EmptySet
<1>2. Types
  BY Names, EmptyChain, NoTemplateIs, MinerAssumption DEF Init, Types, Chains, Stager
<1> QED
  BY <1>1, <1>2, Names, MinerAssumption DEF Init, Owned, WorkKept, Locks, Keyed

\* Steps of the making of a block, of a thread or the call.
LEMMA ReadTipOwned == ASSUME Owned, NEW m \in Maker, ReadTip(m) PROVE Owned'
<1>1. /\ pc' = [pc EXCEPT ![m] = "read"]
      /\ template' = [template EXCEPT ![m] = [NoTemplate EXCEPT !.prev = chain]]
      /\ pc[m] \in {"off", "begin"}
      /\ UNCHANGED <<chain, nBestHeight, txdb, committed, mapTransactions, cs_main, new, stage, work, freed>>
  BY Names DEF ReadTip, chainVars
<1>2. /\ [NoTemplate EXCEPT !.prev = chain] \in Templates
      /\ [NoTemplate EXCEPT !.prev = chain].saved = FALSE
  <2>1. NoTemplate \in Templates /\ NoTemplate.saved = FALSE
    BY NoTemplateIs DEF NoTemplate
  <2> QED
    BY <2>1 DEF Owned, Types, Templates
<1> QED
  BY <1>1, <1>2, Names DEF Owned, Types, WorkKept, Locks, Keyed

LEMMA CollectOwned == ASSUME Owned, NEW m \in Maker, Collect(m) PROVE Owned'
<1>1. PICK S \in Fitting(mapTransactions, txdb) : template' = [template EXCEPT ![m].txs = S]
  BY DEF Collect, Collectable
<1>2. /\ pc[m] = "read" /\ pc' = [pc EXCEPT ![m] = "collected"]
      /\ UNCHANGED <<chain, nBestHeight, txdb, committed, mapTransactions, cs_main, new, stage, work, freed>>
  BY DEF Collect, chainVars
<1>3. [template[m] EXCEPT !.txs = S] \in Templates /\ [template[m] EXCEPT !.txs = S].saved = template[m].saved
  BY FittingTx DEF Owned, Types, Templates
<1>4. template' = [template EXCEPT ![m] = [template[m] EXCEPT !.txs = S]]
  BY <1>1
<1> QED
  BY <1>2, <1>3, <1>4, Names DEF Owned, Types, WorkKept, Locks, Keyed

LEMMA MakeOwned == ASSUME Owned, NEW m \in Thread, Make(m) PROVE Owned'
<1>1. /\ pc[m] = "collected" /\ pc' = [pc EXCEPT ![m] = "made"]
      /\ template' = [template EXCEPT ![m] = Made(m)]
      /\ UNCHANGED <<chain, nBestHeight, txdb, committed, mapTransactions, cs_main, new, stage, work, freed>>
  BY DEF Make, chainVars
<1>2. Made(m) \in Templates
  BY ValueInt, Names DEF Owned, Types, Templates, Made
<1> QED
  BY <1>1, <1>2, Names DEF Owned, Types, WorkKept, Locks, Keyed

LEMMA SolveOwned == ASSUME Owned, NEW m \in Thread, Solve(m) PROVE Owned'
<1>1. /\ pc[m] = "made" /\ cs_main = Free /\ Len(template[m].prev) < MaxHeight
      /\ UNCHANGED <<chain, nBestHeight, txdb, committed, mapTransactions, new, stage, work, freed>>
  BY DEF Solve, chainVars
<1>2. template[m] \in Templates /\ AddKey(template[m]) \in Templates
      /\ AddKey(template[m]).saved = TRUE /\ AddKey(template[m]).prev = template[m].prev
  BY Names DEF Owned, Types, Templates, AddKey
<1>3. CASE OnTip(template[m])
  <2>1. /\ template' = [template EXCEPT ![m] = AddKey(template[m])]
        /\ cs_main' = m /\ pc' = [pc EXCEPT ![m] = "keyed"]
    BY <1>3 DEF Solve
  <2> QED
    BY <1>1, <1>2, <2>1, Names DEF Owned, Types, WorkKept, Locks, Keyed
<1>4. CASE ~OnTip(template[m])
  <2>1. /\ template' = [template EXCEPT ![m] = NoTemplate]
        /\ cs_main' = cs_main /\ pc' = [pc EXCEPT ![m] = "begin"]
    BY <1>4 DEF Solve
  <2> QED
    BY <1>1, <2>1, Names, NoTemplateIs DEF Owned, Types, WorkKept, Locks, Keyed
<1> QED
  BY <1>3, <1>4
\* Its end.
LEMMA ConnectTypes ==
    ASSUME Types, NEW t \in Stager, NEW ch \in Chains, Connect(t, ch)
    PROVE  /\ txdb' \subseteq Tx /\ committed' \in Chains
           /\ new' = [new EXCEPT ![t] = ch] /\ new' \in [Stager -> Chains]
           /\ stage' = [stage EXCEPT ![t] = "connected"]
           /\ stage' \in [Stager -> {"no", "connected", "best"}]
  BY ConfirmedTx DEF Connect, Types

\* The chain that a solved block makes.
LEMMA KeyedChain ==
    ASSUME Types, Keyed, NEW m \in Maker, pc[m] = "keyed"
    PROVE  LET ch == Append(template[m].prev, Block(template[m]))
           IN  ch \in Chains /\ Len(ch) = Len(template[m].prev) + 1
<1>1. /\ template[m].prev \in Chains /\ Len(template[m].prev) < MaxHeight
      /\ Block(template[m]) \in Blocks
  BY DEF Types, Keyed, Templates, Blocks, Block
<1> QED
  BY <1>1, OneMore

LEMMA OfferOwned == ASSUME Owned, NEW m \in Thread, Offer(m) PROVE Owned'
<1>1. /\ pc[m] = "keyed" /\ UNCHANGED <<chain, nBestHeight, mapTransactions, work, freed>>
      /\ m \in Maker /\ m \in Stager
  BY Names DEF Offer
<1>2. CASE Higher(template[m]) /\ Connects(template[m])
  <2>1. /\ Connect(m, Append(template[m].prev, Block(template[m])))
        /\ pc' = [pc EXCEPT ![m] = "process"] /\ UNCHANGED <<template, cs_main>>
    BY <1>2 DEF Offer
  <2>2. Append(template[m].prev, Block(template[m])) \in Chains
    BY <1>1, KeyedChain DEF Owned
  <2>3. /\ txdb' \subseteq Tx /\ committed' \in Chains /\ new' \in [Stager -> Chains]
        /\ stage' = [stage EXCEPT ![m] = "connected"]
        /\ stage' \in [Stager -> {"no", "connected", "best"}]
    BY <1>1, <2>1, <2>2, ConnectTypes DEF Owned
  <2> QED
    BY <1>1, <2>1, <2>3, Names DEF Owned, Types, WorkKept, Locks, Keyed
<1>3. CASE ~(Higher(template[m]) /\ Connects(template[m]))
  <2>1. /\ pc' = [pc EXCEPT ![m] = "begin"] /\ template' = [template EXCEPT ![m] = NoTemplate]
        /\ cs_main' = Free /\ UNCHANGED <<txdb, committed, new, stage>>
    BY <1>3 DEF Offer
  <2> QED
    BY <1>1, <2>1, Names, NoTemplateIs DEF Owned, Types, WorkKept, Locks, Keyed
<1> QED
  BY <1>2, <1>3

\* A thread begins anew, leaves, or has left.
LEMMA RebuildOwned == ASSUME Owned, NEW m \in Thread, Rebuild(m) \/ Leave(m) PROVE Owned'
<1>1. /\ pc[m] \in {"begin", "made"} /\ \E p \in {"begin", "leave"} : pc' = [pc EXCEPT ![m] = p]
      /\ template' = [template EXCEPT ![m] = NoTemplate]
      /\ UNCHANGED <<chain, nBestHeight, txdb, committed, mapTransactions, cs_main, new, stage, work, freed>>
  BY DEF Rebuild, Leave, chainVars
<1> QED
  BY <1>1, Names, NoTemplateIs DEF Owned, Types, WorkKept, Locks, Keyed

LEMMA BeginOwned == ASSUME Owned, NEW m \in Thread, Begin(m) \/ Gone(m) PROVE Owned'
<1>1. /\ pc[m] \in {"created", "leave"} /\ \E p \in {"begin", "off"} : pc' = [pc EXCEPT ![m] = p]
      /\ UNCHANGED <<chain, nBestHeight, txdb, committed, mapTransactions, cs_main, new, stage, template, work, freed>>
  BY DEF Begin, Gone, chainVars
<1> QED
  BY <1>1, Names DEF Owned, Types, WorkKept, Locks, Keyed

\* A block has been connected.
LEMMA SetBestOwned == ASSUME Owned, NEW t \in Stager, SetBest(t) PROVE Owned'
<1>1. /\ stage[t] = "connected" /\ chain' = new[t] /\ stage' = [stage EXCEPT ![t] = "best"]
      /\ mapTransactions' = (mapTransactions \cup Confirmed(chain)) \ Confirmed(new[t])
      /\ UNCHANGED <<nBestHeight, txdb, committed, cs_main, new, pc, template, work, freed>>
  BY DEF SetBest, making
<1>2. mapTransactions' \subseteq Tx /\ chain' \in Chains
  BY <1>1, ConfirmedTx DEF Owned, Types
<1>3. stage' \in [Stager -> {"no", "connected", "best"}] /\ \A s \in Stager : stage'[s] # "no" <=> stage[s] # "no"
  BY <1>1 DEF Owned, Types
<1> QED
  BY <1>1, <1>2, <1>3, Names DEF Owned, Types, WorkKept, Locks, Keyed

LEMMA SetHeightOwned == ASSUME Owned, NEW t \in Stager, SetHeight(t) PROVE Owned'
<1>1. /\ stage[t] = "best" /\ nBestHeight' \in {Len(new[t]), Len(chain)}
      /\ stage' = [stage EXCEPT ![t] = "no"] /\ new' = [new EXCEPT ![t] = <<>>]
      /\ cs_main' = IF cs_main = t THEN Free ELSE cs_main
      /\ UNCHANGED <<chain, txdb, committed, mapTransactions>>
  BY DEF SetHeight
<1>2. nBestHeight' \in 0 .. MaxHeight
  BY <1>1, MinerAssumption DEF Owned, Types, Chains
<1>3. CASE t = Message
  <2>1. UNCHANGED <<pc, template, work, freed>>
    BY <1>3 DEF SetHeight, making
  <2> QED
    BY <1>1, <1>2, <1>3, <2>1, Names, EmptyChain DEF Owned, Types, WorkKept, Locks, Keyed
<1>4. CASE t \in Maker
  <2>1. /\ pc' = [pc EXCEPT ![t] = IF t = Call THEN "off" ELSE "begin"]
        /\ template' = [template EXCEPT ![t] = NoTemplate]
        /\ work' = {w \in work : t # Call \/ ~Same(w, template[Call])} /\ freed' = freed \cap work'
    BY <1>4, Names DEF SetHeight
  <2>2. IsFiniteSet(work') /\ Cardinality(work') <= MaxWork /\ work' \subseteq work
    <3>1. work' \subseteq work
      BY <2>1
    <3> QED
      BY <3>1, Smaller DEF Owned, WorkKept
  <2>3. CASE t \in Thread
    BY <1>1, <1>2, <2>1, <2>2, <2>3, Names, EmptyChain, NoTemplateIs
    DEF Owned, Types, WorkKept, Locks, Keyed
  <2>4. CASE t = Call
    <3>1. pc[Call] = "process" /\ cs_main # Call
      BY <1>1, <2>4, Names DEF Owned, Types, Locks
    <3> QED
      BY <1>1, <1>2, <2>1, <2>2, <2>4, <3>1, Names, EmptyChain, NoTemplateIs
      DEF Owned, Types, WorkKept, Locks, Keyed
  <2> QED
    BY <1>4, <2>3, <2>4, Names
<1> QED
  BY <1>3, <1>4 DEF Stager
-----------------------------------------------------------------------------
(* Calls, and the rest of the node                                         *)

\* One more is kept, or one of all is deleted.
LEMMA OneOut ==
    ASSUME NEW S, NEW x, NEW w \in S \cup {x}, IsFiniteSet(S), Cardinality(S) <= MaxWork
    PROVE  LET T == IF Cardinality(S \cup {x}) > MaxWork THEN (S \cup {x}) \ {w} ELSE S \cup {x}
           IN  IsFiniteSet(T) /\ Cardinality(T) <= MaxWork /\ T \subseteq S \cup {x}
<1> DEFINE all == S \cup {x}
<1>1. IsFiniteSet(all) /\ (Cardinality(all) = Cardinality(S) \/ Cardinality(all) = Cardinality(S) + 1)
  BY FS_AddElement
<1>2. IsFiniteSet(all \ {w}) /\ Cardinality(all \ {w}) = Cardinality(all) - 1
  BY <1>1, FS_RemoveElement
<1>3. Cardinality(S) \in Nat /\ Cardinality(all) \in Nat /\ MaxWork \in Nat
  BY <1>1, FS_CardinalityType, MinerAssumption
<1> QED
  BY <1>1, <1>2, <1>3

LEMMA KeepWorkOwned == ASSUME Owned, KeepWork PROVE Owned'
<1>1. /\ pc[Call] = "collected" /\ freed' = freed \cap work'
      /\ pc' = [pc EXCEPT ![Call] = "off"] /\ template' = [template EXCEPT ![Call] = NoTemplate]
      /\ UNCHANGED <<chain, nBestHeight, txdb, committed, mapTransactions, cs_main, new, stage>>
  BY DEF KeepWork, chainVars
<1>2. PICK w \in work \cup {Made(Call)} :
         work' = IF Cardinality(work \cup {Made(Call)}) > MaxWork
                 THEN (work \cup {Made(Call)}) \ {w} ELSE work \cup {Made(Call)}
  BY DEF KeepWork
<1>3. Made(Call) \in Templates /\ ~Made(Call).saved
  BY <1>1, ValueInt, Names DEF Owned, Types, WorkKept, Templates, Made
<1>4. IsFiniteSet(work') /\ Cardinality(work') <= MaxWork /\ work' \subseteq work \cup {Made(Call)}
  <2> DEFINE x == Made(Call)
  <2> HIDE DEF x
  <2>1. w \in work \cup {x} /\ work' = IF Cardinality(work \cup {x}) > MaxWork
                                       THEN (work \cup {x}) \ {w} ELSE work \cup {x}
    BY <1>2 DEF x
  <2>2. IsFiniteSet(work) /\ Cardinality(work) <= MaxWork
    BY DEF Owned, WorkKept
  <2>3. IsFiniteSet(work') /\ Cardinality(work') <= MaxWork /\ work' \subseteq work \cup {x}
    BY <2>1, <2>2, OneOut
  <2> QED
    BY <2>3 DEF x
<1> QED
  BY <1>1, <1>3, <1>4, Names, NoTemplateIs DEF Owned, Types, WorkKept, Locks, Keyed

LEMMA SubmitWorkOwned == ASSUME Owned, NEW w \in work, SubmitWork(w) PROVE Owned'
<1>1. /\ pc[Call] = "off" /\ w \notin freed /\ w.prev = chain /\ Len(chain) < MaxHeight
      /\ pc' = [pc EXCEPT ![Call] = "keyed"] /\ template' = [template EXCEPT ![Call] = AddKey(w)]
      /\ UNCHANGED <<chain, nBestHeight, txdb, committed, mapTransactions, cs_main, new, stage, work, freed>>
  BY DEF SubmitWork, chainVars, OnTip
<1>2. AddKey(w) \in Templates /\ AddKey(w).saved /\ AddKey(w).prev = chain
  BY <1>1 DEF Owned, WorkKept, AddKey, Templates
<1> QED
  BY <1>1, <1>2, Names DEF Owned, Types, WorkKept, Locks, Keyed

LEMMA ProcessWorkOwned == ASSUME Owned, ProcessWork PROVE Owned'
<1>1. /\ pc[Call] = "keyed"
      /\ UNCHANGED <<chain, nBestHeight, mapTransactions, cs_main>>
  BY DEF ProcessWork
<1>2. CASE /\ Connect(Call, Append(template[Call].prev, Block(template[Call])))
           /\ pc' = [pc EXCEPT ![Call] = "process"] /\ UNCHANGED <<template, work, freed>>
  <2>1. Append(template[Call].prev, Block(template[Call])) \in Chains
    BY <1>1, KeyedChain, Names DEF Owned
  <2>2. /\ txdb' \subseteq Tx /\ committed' \in Chains /\ new' \in [Stager -> Chains]
        /\ stage' = [stage EXCEPT ![Call] = "connected"]
        /\ stage' \in [Stager -> {"no", "connected", "best"}]
    BY <1>2, <2>1, ConnectTypes, Names DEF Owned
  <2> QED
    BY <1>1, <1>2, <2>2, Names DEF Owned, Types, WorkKept, Locks, Keyed
<1>3. CASE /\ pc' = [pc EXCEPT ![Call] = "off"] /\ template' = [template EXCEPT ![Call] = NoTemplate]
           /\ work' = {u \in work : ~Same(u, template[Call])} /\ freed' = freed \cap work'
           /\ UNCHANGED <<txdb, committed, new, stage>>
  <2>1. work' \subseteq work
    BY <1>3
  <2>2. IsFiniteSet(work') /\ Cardinality(work') <= MaxWork
    BY <2>1, Smaller DEF Owned, WorkKept
  <2> QED
    BY <1>1, <1>3, <2>1, <2>2, Names, NoTemplateIs DEF Owned, Types, WorkKept, Locks, Keyed
<1>4. CASE /\ pc' = [pc EXCEPT ![Call] = "off"] /\ template' = [template EXCEPT ![Call] = NoTemplate]
           /\ freed' = freed \cup {u \in work : Same(u, template[Call])}
           /\ UNCHANGED <<txdb, committed, new, stage, work>>
  BY <1>1, <1>4, Names, NoTemplateIs DEF Owned, Types, WorkKept, Locks, Keyed
<1> QED
  BY <1>2, <1>3, <1>4 DEF ProcessWork

\* A block of others makes a chain.
LEMMA BranchChain ==
    ASSUME Types, NEW br \in Branches, Len(br) <= MaxHeight
    PROVE  br \in Chains
<1>0. chain \in Seq(Blocks)
  BY DEF Types, Chains
<1>1. CASE br \in {Append(chain, Other(B)) : B \in Fitting(Tx, txdb)}
  <2>1. PICK B \in Fitting(Tx, txdb) : br = Append(chain, Other(B))
    BY <1>1
  <2>2. Other(B) \in Blocks
    BY FittingTx, OtherBlock
  <2>3. br \in Seq(Blocks)
    BY <1>0, <2>1, <2>2, AppendProperties
  <2> QED
    BY <2>3 DEF Chains
<1>2. CASE /\ chain # <<>>
           /\ br \in UNION {{Front(chain) \o <<Other(B)>>, Front(chain) \o <<Other(B), Other({})>>} :
                               B \in Fitting(Tx, Confirmed(Front(chain)))}
  <2>1. PICK B \in Fitting(Tx, Confirmed(Front(chain))) :
           br \in {Front(chain) \o <<Other(B)>>, Front(chain) \o <<Other(B), Other({})>>}
    BY <1>2
  <2> DEFINE b == Other(B)
             c == Other({})
  <2>2. b \in Blocks /\ c \in Blocks
    BY FittingTx, OtherBlock
  <2> HIDE DEF b, c
  <2>3. Front(chain) \in Seq(Blocks)
    BY <1>0, <1>2, FrontBlocks
  <2>4. <<b>> \in Seq(Blocks) /\ <<b, c>> \in Seq(Blocks)
    BY <2>2
  <2>5. Front(chain) \o <<b>> \in Seq(Blocks) /\ Front(chain) \o <<b, c>> \in Seq(Blocks)
    BY <2>3, <2>4, ConcatProperties
  <2>6. br \in {Front(chain) \o <<b>>, Front(chain) \o <<b, c>>}
    BY <2>1 DEF b, c
  <2> QED
    BY <2>5, <2>6 DEF Chains
<1> QED
  BY <1>1, <1>2 DEF Branches

LEMMA GetBlockOwned == ASSUME Owned, NEW t \in {Message, Call}, GetBlock(t) PROVE Owned'
<1>1. /\ UNCHANGED <<chain, nBestHeight, mapTransactions, template, work, freed>>
      /\ t = Message => cs_main = Free /\ cs_main' = Message /\ pc' = pc
      /\ t = Call => /\ pc[Call] = "off" /\ pc' = [pc EXCEPT ![Call] = "process"]
                     /\ cs_main' = cs_main
  BY Names DEF GetBlock
<1>2. PICK br \in Branches : Len(br) <= MaxHeight /\ Connect(t, br)
  BY DEF GetBlock
<1>3. br \in Chains
  BY <1>2, BranchChain DEF Owned
<1>4. /\ txdb' \subseteq Tx /\ committed' \in Chains /\ new' \in [Stager -> Chains]
      /\ stage' = [stage EXCEPT ![t] = "connected"]
      /\ stage' \in [Stager -> {"no", "connected", "best"}]
  BY <1>2, <1>3, ConnectTypes, Names DEF Owned
<1>5. CASE t = Message
  BY <1>1, <1>4, <1>5, Names DEF Owned, Types, WorkKept, Locks, Keyed
<1>6. CASE t = Call
  BY <1>1, <1>4, <1>6, Names DEF Owned, Types, WorkKept, Locks, Keyed
<1> QED
  BY <1>5, <1>6

LEMMA GetTxOwned == ASSUME Owned, NEW t \in Tx, GetTx(t) PROVE Owned'
<1>1. /\ mapTransactions' = mapTransactions \cup {t}
      /\ UNCHANGED <<chain, nBestHeight, txdb, committed, cs_main, new, stage, pc, template, work, freed>>
  BY DEF GetTx, making
<1> QED
  BY <1>1, Names DEF Owned, Types, WorkKept, Locks, Keyed

LEMMA GenerateOwned ==
    ASSUME Owned, NEW on, NEW n, GenerateBitcoins(on, n) PROVE Owned'
<1>1. PICK S \in SUBSET {m \in Thread : pc[m] = "off"} :
         pc' = [m \in Maker |-> IF m \in S THEN "created" ELSE pc[m]]
  BY DEF GenerateBitcoins, Started
<1>2. UNCHANGED <<chain, nBestHeight, txdb, committed, mapTransactions, cs_main, new, stage, template, work, freed>>
  BY DEF GenerateBitcoins, chainVars
<1> QED
  BY <1>1, <1>2, Names DEF Owned, Types, WorkKept, Locks, Keyed

LEMMA RestartOwned == ASSUME Owned, Restart PROVE Owned'
<1>1. /\ chain' = committed /\ nBestHeight' = Len(chain') /\ UNCHANGED <<txdb, committed>>
      /\ mapTransactions' = {} /\ cs_main' = Free
      /\ new' = [t \in Stager |-> <<>>] /\ stage' = [t \in Stager |-> "no"]
      /\ template' = [m \in Maker |-> NoTemplate]
      /\ work' = {} /\ freed' = {}
  BY DEF Restart, Owned, Types
<1>2. PICK S \in SUBSET Thread : pc' = [m \in Maker |-> IF m \in S THEN "created" ELSE "off"]
  BY DEF Restart
<1>3. chain' \in Chains /\ nBestHeight' \in 0 .. MaxHeight
  BY <1>1, MinerAssumption DEF Owned, Types, Chains
<1>4. IsFiniteSet(work') /\ Cardinality(work') <= MaxWork
  BY <1>1, FS_EmptySet, MinerAssumption
<1> QED
  BY <1>1, <1>2, <1>3, <1>4, Names, EmptyChain, NoTemplateIs DEF Owned, Types, WorkKept, Locks, Keyed

LEMMA OwnedStep == Owned /\ [Next]_minerVars => Owned'
<1> SUFFICES ASSUME Owned, [Next]_minerVars PROVE Owned'
  OBVIOUS
<1>1. ASSUME NEW m \in Thread, Mine(m) PROVE Owned'
  BY <1>1, BeginOwned, ReadTipOwned, CollectOwned, MakeOwned, SolveOwned, OfferOwned,
     RebuildOwned, SetBestOwned, SetHeightOwned, Names DEF Mine
<1>2. CASE Node
  BY <1>2, GetBlockOwned, GetTxOwned, SetBestOwned, SetHeightOwned, Names DEF Node
<1>3. CASE Work
  BY <1>3, ReadTipOwned, CollectOwned, KeepWorkOwned, ProcessWorkOwned, SetBestOwned,
     SetHeightOwned, SubmitWorkOwned, GetBlockOwned, Names DEF Work
<1>4. CASE Restart
  BY <1>4, RestartOwned
<1>5. CASE \E on \in BOOLEAN, n \in Limits : GenerateBitcoins(on, n)
  BY <1>5, GenerateOwned
<1>6. CASE UNCHANGED minerVars
  <2>1. UNCHANGED <<chain, nBestHeight, txdb, committed, mapTransactions, cs_main, new, stage, pc, template, work, freed>>
    BY <1>6 DEF minerVars, chainVars, making
  <2> QED
    BY <2>1 DEF Owned, Types, WorkKept, Locks, Keyed
<1> QED
  BY <1>1, <1>2, <1>3, <1>4, <1>5, <1>6 DEF Next

\* In every interleaving: whoever holds cs_main, and who
\* is where in making a block, agree, and what was handed in has its key on disk (main.cpp:3173).
THEOREM OwnedAlways == Spec => []Owned
<1> QED
  BY InitOwned, OwnedStep, PTL DEF Spec

\* The key that a block of the main chain pays to is in wallet.dat, even where a call is in
\* ProcessBlock together with other threads.
THEOREM KeysSaved == Spec => []KeySaved
<1>1. Owned => KeySaved
  <2> SUFFICES ASSUME Owned, NEW i \in DOMAIN chain PROVE chain[i].saved
    BY DEF KeySaved
  <2>1. chain[i] \in Blocks
    BY ElementOfSeq, LenProperties DEF Owned, Types, Chains
  <2> QED
    BY <2>1 DEF Blocks
<1> QED
  BY <1>1, OwnedAlways, PTL
-----------------------------------------------------------------------------
(* Where no other thread came between what a call does in ProcessBlock     *)

\* At most one is in ProcessBlock; the database has its best chain, which is the program's but
\* while a block is being connected, and that makes the chain longer.
Agrees ==
    /\ \A t, u \in Stager : stage[t] # "no" /\ stage[u] # "no" => t = u
    /\ txdb = Confirmed(committed)
    /\ (\A t \in Stager : stage[t] = "no") => committed = chain /\ nBestHeight = Len(chain)
    /\ \A t \in Stager : stage[t] = "connected" =>
          committed = new[t] /\ nBestHeight = Len(chain) /\ Len(chain) < Len(new[t])
    /\ \A t \in Stager : stage[t] = "best" =>
          committed = chain /\ chain = new[t] /\ nBestHeight < Len(chain)

\* What a thread has put together connects if the tip is still the one it is for: a tip that
\* was left does not come back, as chains only become longer.  What it collects while a call
\* is connecting a block is for a tip that is about to be left.
Draft(m) == pc[m] \in {"collected", "made", "keyed"} /\ template[m].prev = chain
Fits(m) ==
    /\ template[m].txs \cap Confirmed(chain) = {}
    /\ \A t \in template[m].txs : Needs[t] \subseteq Confirmed(chain) \cup template[m].txs
Behind(m) == template[m].prev = chain \/ Len(template[m].prev) < Len(chain)
Drafts ==
    \A m \in Thread :
       /\ Behind(m)
       /\ Draft(m) => /\ stage[Call] # "connected" => Fits(m)
                      /\ (stage[Call] # "no" /\ pc[m] = "collected") \/ nBestHeight = Len(chain)
                      /\ pc[m] # "collected" => template[m].value = GetBlockValue

Calm == Owned /\ Agrees /\ Drafts /\ ~refused

MinerIInv == Owned /\ (refused => raced) /\ (raced \/ (Agrees /\ Drafts))

LEMMA ChainLength == ASSUME NEW ch \in Chains PROVE Len(ch) \in Nat
  BY DEF Chains

\* Nobody is in ProcessBlock.
LEMMA AllQuiet ==
    ASSUME Owned, cs_main = Free, stage[Call] = "no"
    PROVE  \A t \in Stager : stage[t] = "no"
  BY Names DEF Owned, Locks

\* At most one is.
LEMMA OnlyOne ==
    ASSUME Agrees, NEW t \in Stager, NEW u \in Stager, stage[t] # "no", stage[u] # "no"
    PROVE  t = u
  BY DEF Agrees

\* Whoever enters it without a race finds nobody there.
LEMMA EnterQuiet ==
    ASSUME Types, Enter, ~raced'
    PROVE  \A t \in Stager : stage[t] = "no"
  BY DEF Enter, Occupied, Types

\* Steps that leave the chain alone, and of which a thread is at most the less for it.
LEMMA FrameStep ==
    ASSUME Calm, UNCHANGED <<chain, nBestHeight, txdb, committed, new, stage>>, refused' => refused,
           \A m \in Thread : \/ pc'[m] = pc[m] /\ template'[m] = template[m]
                             \/ /\ pc'[m] \notin {"collected", "made", "keyed"}
                                /\ template'[m] = template[m] \/ template'[m].prev \in {<<>>, chain}
    PROVE  Agrees' /\ Drafts' /\ ~refused'
<1>1. Agrees'
  <2>1. Confirmed(committed)' = Confirmed(committed)
    BY DEF Confirmed
  <2> QED
    BY <2>1 DEF Calm, Agrees
<1>2. Drafts'
  <2> SUFFICES ASSUME NEW m \in Thread
               PROVE  /\ Behind(m)'
                      /\ Draft(m)' => /\ stage[Call] # "connected" => Fits(m)'
                                      /\ \/ stage[Call] # "no" /\ pc'[m] = "collected"
                                         \/ nBestHeight = Len(chain)
                                      /\ pc'[m] # "collected" => template'[m].value = GetBlockValue
    BY DEF Drafts, GetBlockValue
  <2>1. Len(chain) \in Nat /\ Len(<<>>) = 0
    BY ChainLength, EmptyChain DEF Calm, Owned, Types
  <2>2. CASE pc'[m] = pc[m] /\ template'[m] = template[m]
    BY <2>2 DEF Calm, Drafts, Draft, Fits, Confirmed, Behind
  <2>3. CASE /\ pc'[m] \notin {"collected", "made", "keyed"}
             /\ template'[m] = template[m] \/ template'[m].prev \in {<<>>, chain}
    BY <2>1, <2>3, EmptySeq DEF Calm, Drafts, Draft, Behind, Owned, Types, Chains
  <2> QED
    BY <2>2, <2>3
<1> QED
  BY <1>1, <1>2 DEF Calm

\* A thread at its beginning or its end.
LEMMA IdleStep ==
    ASSUME Calm, NEW m \in Thread,
           Begin(m) \/ Gone(m) \/ ReadTip(m) \/ Rebuild(m) \/ Leave(m)
    PROVE  Agrees' /\ Drafts' /\ ~refused'
<1>1. UNCHANGED <<chain, nBestHeight, txdb, committed, new, stage, refused>>
  BY DEF Begin, Gone, ReadTip, Rebuild, Leave, chainVars
<1>2. /\ \E p \in {"begin", "off", "read", "leave"} : pc' = [pc EXCEPT ![m] = p]
      /\ \/ template' = template
         \/ template' = [template EXCEPT ![m] = NoTemplate]
         \/ template' = [template EXCEPT ![m] = [NoTemplate EXCEPT !.prev = chain]]
  BY DEF Begin, Gone, ReadTip, Rebuild, Leave
<1>3. NoTemplate.prev = <<>> /\ [NoTemplate EXCEPT !.prev = chain].prev = chain
  BY DEF NoTemplate
<1>4. \A k \in Thread : \/ pc'[k] = pc[k] /\ template'[k] = template[k]
                        \/ /\ pc'[k] \notin {"collected", "made", "keyed"}
                           /\ template'[k] = template[k] \/ template'[k].prev \in {<<>>, chain}
  BY <1>2, <1>3, Names DEF Calm, Owned, Types
<1> QED
  BY <1>1, <1>4, FrameStep

\* A thread goes on with what it has put together; its value is read while no call is there.
LEMMA OtherDrafts ==
    ASSUME Calm, UNCHANGED <<chain, nBestHeight, txdb, committed, new, stage, refused>>,
           NEW m \in Thread, NEW p \in {"made", "keyed"},
           pc[m] = "made" \/ (pc[m] = "collected" /\ stage[Call] = "no"),
           \A k \in Thread : /\ template'[k].prev = template[k].prev /\ template'[k].txs = template[k].txs
                             /\ \/ template'[k].value = template[k].value /\ (k = m => pc[m] = "made")
                                \/ k = m /\ template'[k].value = GetBlockValue
                             /\ pc'[k] = IF k = m THEN p ELSE pc[k]
    PROVE  Agrees' /\ Drafts' /\ ~refused'
<1>1. Confirmed(chain)' = Confirmed(chain) /\ GetBlockValue' = GetBlockValue
      /\ Confirmed(committed)' = Confirmed(committed)
  BY DEF Confirmed, GetBlockValue
<1>2. Agrees'
  BY <1>1 DEF Calm, Agrees
<1>3. Drafts'
  <2> SUFFICES ASSUME NEW k \in Thread
               PROVE  /\ Behind(k)'
                      /\ Draft(k)' => /\ stage[Call] # "connected" => Fits(k)'
                                      /\ \/ stage[Call] # "no" /\ pc'[k] = "collected"
                                         \/ nBestHeight = Len(chain)
                                      /\ pc'[k] # "collected" => template'[k].value = GetBlockValue
    BY <1>1 DEF Drafts
  <2>1. Behind(k)' = Behind(k) /\ Fits(k)' = Fits(k)
    BY <1>1 DEF Behind, Fits
  <2>4. Draft(k)' => Draft(k)
    BY DEF Draft
  <2>2. CASE k = m
    BY <2>1, <2>2, <2>4 DEF Calm, Drafts
  <2>3. CASE k # m
    BY <2>1, <2>3, <2>4 DEF Calm, Drafts
  <2> QED
    BY <2>2, <2>3
<1> QED
  BY <1>2, <1>3 DEF Calm

\* A thread collects transactions, with cs_main, ...
LEMMA CollectStep ==
    ASSUME Calm, NEW m \in Thread, Collect(m)
    PROVE  Agrees' /\ Drafts' /\ ~refused'
<1>1. PICK S \in Fitting(mapTransactions, txdb) : template' = [template EXCEPT ![m].txs = S]
  BY DEF Collect, Collectable
<1>2. /\ pc[m] = "read" /\ pc' = [pc EXCEPT ![m] = "collected"] /\ cs_main = Free
      /\ UNCHANGED <<chain, nBestHeight, txdb, committed, cs_main, new, stage, refused>>
  BY DEF Collect, chainVars
<1>3. /\ stage[Call] # "connected" => txdb = Confirmed(chain)
      /\ stage[Call] = "no" => nBestHeight = Len(chain)
  <2>1. CASE stage[Call] = "no"
    <3>1. committed = chain /\ nBestHeight = Len(chain)
      BY <1>2, <2>1, AllQuiet DEF Calm, Agrees
    <3> QED
      BY <3>1 DEF Calm, Agrees
  <2>2. CASE stage[Call] = "best"
    <3>1. committed = chain
      BY <2>2, Names DEF Calm, Agrees
    <3> QED
      BY <2>2, <3>1 DEF Calm, Agrees
  <2> QED
    BY <2>1, <2>2, Names DEF Calm, Owned, Types
<1>4. S \cap txdb = {} /\ \A t \in S : Needs[t] \subseteq txdb \cup S
  BY DEF Fitting
<1>5. \A k \in Thread : /\ template'[k].prev = template[k].prev /\ template'[k].value = template[k].value
                        /\ template'[k].txs = IF k = m THEN S ELSE template[k].txs
                        /\ pc'[k] = IF k = m THEN "collected" ELSE pc[k]
  BY <1>1, <1>2, Names DEF Calm, Owned, Types, Templates
<1>6. Confirmed(chain)' = Confirmed(chain) /\ GetBlockValue' = GetBlockValue
      /\ Confirmed(committed)' = Confirmed(committed)
  BY <1>2 DEF Confirmed, GetBlockValue
<1>7. Agrees'
  BY <1>2, <1>6 DEF Calm, Agrees
<1>8. Drafts'
  <2> SUFFICES ASSUME NEW k \in Thread
               PROVE  /\ Behind(k)'
                      /\ Draft(k)' => /\ stage[Call] # "connected" => Fits(k)'
                                      /\ \/ stage[Call] # "no" /\ pc'[k] = "collected"
                                         \/ nBestHeight = Len(chain)
                                      /\ pc'[k] # "collected" => template'[k].value = GetBlockValue
    BY <1>2, <1>6 DEF Drafts
  <2>1. CASE k = m
    <3>1. stage[Call] # "connected" => Fits(m)'
      BY <1>3, <1>4, <1>5, <1>6 DEF Fits
    <3> QED
      BY <1>2, <1>3, <1>5, <2>1, <3>1 DEF Calm, Drafts, Behind
  <2>2. CASE k # m
    <3>1. Draft(k)' = Draft(k) /\ Fits(k)' = Fits(k)
      BY <1>2, <1>5, <1>6, <2>2 DEF Draft, Fits
    <3> QED
      BY <1>2, <1>5, <2>2, <3>1 DEF Calm, Drafts, Behind
  <2> QED
    BY <2>1, <2>2
<1> QED
  BY <1>2, <1>7, <1>8 DEF Calm

\* ... reads what it may pay itself, without, ...
LEMMA MakeStep ==
    ASSUME Calm, NEW m \in Thread, Make(m), ~raced'
    PROVE  Agrees' /\ Drafts' /\ ~refused'
<1>1. /\ pc[m] = "collected" /\ pc' = [pc EXCEPT ![m] = "made"] /\ stage[Call] = "no"
      /\ template' = [template EXCEPT ![m] = Made(m)]
      /\ UNCHANGED <<chain, nBestHeight, txdb, committed, cs_main, new, stage, refused>>
  BY DEF Make, chainVars
<1>2. \A k \in Thread : /\ template'[k].prev = template[k].prev /\ template'[k].txs = template[k].txs
                        /\ template'[k].value = IF k = m THEN GetBlockValue ELSE template[k].value
                        /\ pc'[k] = IF k = m THEN "made" ELSE pc[k]
  BY <1>1, Names DEF Calm, Owned, Types, Templates, Made
<1> QED
  BY <1>1, <1>2, OtherDrafts

\* ... solves the block, ...
LEMMA SolveStep ==
    ASSUME Calm, NEW m \in Thread, Solve(m)
    PROVE  Agrees' /\ Drafts' /\ ~refused'
<1>1. /\ pc[m] = "made"
      /\ UNCHANGED <<chain, nBestHeight, txdb, committed, new, stage, refused>>
  BY DEF Solve, chainVars
<1>2. CASE OnTip(template[m])
  <2>1. /\ template' = [template EXCEPT ![m] = AddKey(template[m])]
        /\ pc' = [pc EXCEPT ![m] = "keyed"]
    BY <1>2 DEF Solve
  <2>2. \A k \in Thread : /\ template'[k].prev = template[k].prev /\ template'[k].txs = template[k].txs
                          /\ template'[k].value = template[k].value
                          /\ pc'[k] = IF k = m THEN "keyed" ELSE pc[k]
    BY <2>1, Names DEF Calm, Owned, Types, Templates, AddKey
  <2>3. \A k \in Thread : /\ template'[k].prev = template[k].prev /\ template'[k].txs = template[k].txs
                          /\ \/ template'[k].value = template[k].value /\ (k = m => pc[m] = "made")
                             \/ k = m /\ template'[k].value = GetBlockValue
                          /\ pc'[k] = IF k = m THEN "keyed" ELSE pc[k]
    BY <1>1, <2>2
  <2>4. pc[m] = "made" \/ (pc[m] = "collected" /\ stage[Call] = "no")
    BY <1>1
  <2>5. "keyed" \in {"made", "keyed"}
    OBVIOUS
  <2> QED
    BY <1>1, <2>3, <2>4, <2>5, OtherDrafts
<1>3. CASE ~OnTip(template[m])
  <2>1. /\ template' = [template EXCEPT ![m] = NoTemplate]
        /\ pc' = [pc EXCEPT ![m] = "begin"]
    BY <1>3 DEF Solve
  <2>2. NoTemplate.prev = <<>>
    BY DEF NoTemplate
  <2>3. \A k \in Thread : \/ pc'[k] = pc[k] /\ template'[k] = template[k]
                          \/ /\ pc'[k] \notin {"collected", "made", "keyed"}
                             /\ template'[k] = template[k] \/ template'[k].prev \in {<<>>, chain}
    BY <2>1, <2>2, Names DEF Calm, Owned, Types
  <2> QED
    BY <1>1, <2>3, FrameStep
<1> QED
  BY <1>2, <1>3

\* Steps of which the threads notice nothing but a call that connects a block.
LEMMA SameDrafts ==
    ASSUME Calm, UNCHANGED <<chain, nBestHeight>>,
           stage'[Call] = stage[Call] \/ (stage[Call] = "no" /\ stage'[Call] = "connected"),
           \A m \in Thread : \/ pc'[m] = pc[m] /\ template'[m] = template[m]
                             \/ pc'[m] = "process" /\ template'[m] = template[m]
    PROVE  Drafts'
<1>1. Confirmed(chain)' = Confirmed(chain) /\ GetBlockValue' = GetBlockValue
  BY DEF Confirmed, GetBlockValue
<1> SUFFICES ASSUME NEW m \in Thread
             PROVE  /\ Behind(m)'
                    /\ Draft(m)' => /\ stage'[Call] # "connected" => Fits(m)'
                                    /\ \/ stage'[Call] # "no" /\ pc'[m] = "collected"
                                       \/ nBestHeight = Len(chain)
                                    /\ pc'[m] # "collected" => template'[m].value = GetBlockValue
  BY <1>1 DEF Drafts
<1>2. CASE pc'[m] = pc[m] /\ template'[m] = template[m]
  <2>1. Draft(m)' = Draft(m) /\ Fits(m)' = Fits(m)
    BY <1>1, <1>2 DEF Draft, Fits
  <2> QED
    BY <1>2, <2>1 DEF Calm, Drafts, Behind
<1>3. CASE pc'[m] = "process" /\ template'[m] = template[m]
  BY <1>3 DEF Calm, Drafts, Draft, Behind
<1> QED
  BY <1>2, <1>3

\* Whoever begins to connect a longer chain.
LEMMA ConnectAgrees ==
    ASSUME Calm, \A u \in Stager : stage[u] = "no",
           NEW t \in Stager, NEW ch \in Chains, nBestHeight < Len(ch), Connect(t, ch),
           UNCHANGED <<chain, nBestHeight>>
    PROVE  Agrees'
<1>1. /\ txdb' = (txdb \ Confirmed(chain)) \cup Confirmed(ch) /\ committed' = ch
      /\ new' = [new EXCEPT ![t] = ch] /\ stage' = [stage EXCEPT ![t] = "connected"]
  BY DEF Connect
<1>2. txdb = Confirmed(chain) /\ nBestHeight = Len(chain)
  <2>1. committed = chain /\ nBestHeight = Len(chain)
    BY DEF Calm, Agrees
  <2> QED
    BY <2>1 DEF Calm, Agrees
<1>3. txdb' = Confirmed(ch) /\ Confirmed(committed)' = Confirmed(ch)
  BY <1>1, <1>2 DEF Confirmed
<1>4. \A u \in Stager : /\ new'[u] = IF u = t THEN ch ELSE new[u]
                        /\ stage'[u] = IF u = t THEN "connected" ELSE "no"
  BY <1>1 DEF Calm, Owned, Types
<1> QED
  BY <1>1, <1>2, <1>3, <1>4 DEF Agrees

\* ... and offers it: it connects.
LEMMA OfferStep ==
    ASSUME Calm, NEW m \in Thread, Offer(m), ~raced'
    PROVE  Agrees' /\ Drafts' /\ ~refused'
<1> DEFINE b == template[m]
<1>1. /\ pc[m] = "keyed" /\ UNCHANGED <<chain, nBestHeight>> /\ m \in Maker /\ m \in Stager
      /\ m # Call /\ Enter
  BY Names DEF Offer
<1>2. \A t \in Stager : stage[t] = "no"
  BY <1>1, EnterQuiet DEF Calm, Owned
<1>3. txdb = Confirmed(chain) /\ nBestHeight = Len(chain)
  <2>1. committed = chain /\ nBestHeight = Len(chain)
    BY <1>2 DEF Calm, Agrees
  <2> QED
    BY <2>1 DEF Calm, Agrees
<1>4. b.prev # chain => ~Higher(b)
  <2> SUFFICES ASSUME b.prev # chain, Higher(b) PROVE FALSE
    OBVIOUS
  <2>1. b.prev \in Chains /\ Len(b.prev) < Len(chain)
    BY <1>1 DEF Calm, Owned, Types, Templates, Drafts, Behind
  <2>2. Len(b.prev) \in Nat /\ Len(chain) \in Nat
    BY <2>1, ChainLength DEF Calm, Owned, Types
  <2> QED
    BY <1>3, <2>1, <2>2 DEF Higher
<1>5. b.prev = chain => Connects(b)
  <2> SUFFICES ASSUME b.prev = chain PROVE Connects(b)
    OBVIOUS
  <2>1. Fits(m) /\ b.value = GetBlockValue
    BY <1>1, <1>2, Names DEF Calm, Drafts, Draft
  <2>2. GetBlockValue \in Int
    BY ValueInt DEF Calm, Owned, Types
  <2>3. Confirmed(b.prev) = Confirmed(chain)
    OBVIOUS
  <2>4. /\ b.txs \cap Confirmed(chain) = {}
        /\ \A t \in b.txs : Needs[t] \subseteq Confirmed(chain) \cup b.txs
    BY <2>1 DEF Fits
  <2> HIDE DEF b
  <2>5. (txdb \ Confirmed(chain)) \cup Confirmed(b.prev) = Confirmed(chain)
    BY <1>3, <2>3
  <2> QED
    BY <2>1, <2>2, <2>4, <2>5 DEF Connects
<1>6. CASE Higher(b) /\ Connects(b)
  <2>1. /\ Connect(m, Append(b.prev, Block(b))) /\ UNCHANGED <<template, refused>>
        /\ pc' = [pc EXCEPT ![m] = "process"]
    BY <1>6 DEF Offer
  <2>2. /\ Append(b.prev, Block(b)) \in Chains
        /\ Len(Append(b.prev, Block(b))) = Len(b.prev) + 1
    BY <1>1, KeyedChain DEF Calm, Owned
  <2>3. nBestHeight < Len(Append(b.prev, Block(b)))
    <3>1. nBestHeight \in Int /\ Len(b.prev) \in Int
      BY <1>1, ChainLength, MinerAssumption DEF Calm, Owned, Types, Templates
    <3> QED
      BY <1>6, <2>2, <3>1 DEF Higher
  <2>4. Agrees'
    BY <1>1, <1>2, <2>1, <2>2, <2>3, ConnectAgrees
  <2>5. stage'[Call] = stage[Call]
    BY <1>1, <2>1, Names DEF Connect, Calm, Owned, Types
  <2>6. \A k \in Thread : \/ pc'[k] = pc[k] /\ template'[k] = template[k]
                          \/ pc'[k] = "process" /\ template'[k] = template[k]
    BY <2>1, Names DEF Calm, Owned, Types
  <2>7. Drafts'
    BY <1>1, <2>5, <2>6, SameDrafts
  <2> QED
    BY <2>1, <2>4, <2>7 DEF Calm
<1>7. CASE ~(Higher(b) /\ Connects(b))
  <2>1. /\ pc' = [pc EXCEPT ![m] = "begin"] /\ template' = [template EXCEPT ![m] = NoTemplate]
        /\ refused' = (refused \/ Higher(b)) /\ UNCHANGED <<txdb, committed, new, stage>>
    BY <1>7 DEF Offer
  <2>2. NoTemplate.prev = <<>>
    BY DEF NoTemplate
  <2>3. \A k \in Thread : \/ pc'[k] = pc[k] /\ template'[k] = template[k]
                          \/ /\ pc'[k] \notin {"collected", "made", "keyed"}
                             /\ template'[k] = template[k] \/ template'[k].prev \in {<<>>, chain}
    BY <2>1, <2>2, Names DEF Calm, Owned, Types
  <2>4. refused' => refused
    BY <1>4, <1>5, <1>7, <2>1
  <2> QED
    BY <1>1, <2>1, <2>3, <2>4, FrameStep
<1> QED
  BY <1>6, <1>7

\* A block becomes the tip: what was put together for the one before is for no tip any more.
LEMMA SetBestStep ==
    ASSUME Calm, NEW t \in Stager, SetBest(t)
    PROVE  Agrees' /\ Drafts' /\ ~refused'
<1>1. /\ stage[t] = "connected" /\ chain' = new[t] /\ stage' = [stage EXCEPT ![t] = "best"]
      /\ UNCHANGED <<nBestHeight, txdb, committed, cs_main, new, pc, template, refused>>
  BY DEF SetBest, making
<1>2. /\ committed = new[t] /\ nBestHeight = Len(chain) /\ Len(chain) < Len(new[t])
      /\ Len(chain) \in Nat /\ Len(new[t]) \in Nat
  BY <1>1, ChainLength DEF Calm, Agrees, Owned, Types
<1>3. \A u \in Stager : /\ stage'[u] = IF u = t THEN "best" ELSE stage[u]
                        /\ u # t => stage[u] = "no"
  BY <1>1, OnlyOne DEF Calm, Owned, Types
<1>4. Agrees'
  <2>1. txdb' = Confirmed(committed)'
    BY <1>1 DEF Confirmed, Calm, Agrees
  <2> QED
    BY <1>1, <1>2, <1>3, <2>1 DEF Agrees
<1>5. Drafts'
  <2> SUFFICES ASSUME NEW m \in Thread PROVE Behind(m)' /\ ~Draft(m)'
    BY DEF Drafts
  <2>1. Len(template[m].prev) \in Nat /\ Len(template[m].prev) <= Len(chain)
    <3>1. template[m].prev \in Chains /\ Behind(m)
      BY Names DEF Calm, Owned, Types, Templates, Drafts
    <3> QED
      BY <1>2, <3>1, ChainLength DEF Behind
  <2>2. Len(template[m].prev) < Len(chain')
    BY <1>1, <1>2, <2>1
  <2> QED
    BY <1>1, <1>2, <2>1, <2>2 DEF Draft, Behind
<1> QED
  BY <1>1, <1>4, <1>5 DEF Calm

\* The height becomes that of the chain, and nobody is in ProcessBlock.
LEMMA SetHeightStep ==
    ASSUME Calm, NEW t \in Stager, SetHeight(t)
    PROVE  Agrees' /\ Drafts' /\ ~refused'
<1>1. /\ stage[t] = "best" /\ nBestHeight' \in {Len(new[t]), Len(chain)}
      /\ stage' = [stage EXCEPT ![t] = "no"]
      /\ UNCHANGED <<chain, txdb, committed, refused>>
  BY DEF SetHeight
<1>2. /\ committed = chain /\ chain = new[t] /\ nBestHeight < Len(chain)
      /\ Len(chain) \in Nat /\ nBestHeight \in Nat
  BY <1>1, ChainLength, MinerAssumption DEF Calm, Agrees, Owned, Types
<1>3. \A u \in Stager : stage'[u] = "no"
  BY <1>1, OnlyOne DEF Calm, Owned, Types
<1>4. nBestHeight' = Len(chain)
  BY <1>1, <1>2
<1>5. Agrees'
  <2>1. txdb' = Confirmed(committed)'
    BY <1>1 DEF Confirmed, Calm, Agrees
  <2> QED
    BY <1>1, <1>2, <1>3, <1>4, <2>1 DEF Agrees
<1>6. \A m \in Thread : \/ pc'[m] = pc[m] /\ template'[m] = template[m]
                        \/ pc'[m] = "begin" /\ template'[m].prev = <<>>
  <2>1. CASE t = Message
    BY <2>1 DEF SetHeight, making
  <2>2. CASE t \in Maker
    <3>1. /\ pc' = [pc EXCEPT ![t] = IF t = Call THEN "off" ELSE "begin"]
          /\ template' = [template EXCEPT ![t] = NoTemplate]
      BY <2>2, Names DEF SetHeight
    <3>2. NoTemplate.prev = <<>>
      BY DEF NoTemplate
    <3> QED
      BY <3>1, <3>2, Names DEF Calm, Owned, Types
  <2> QED
    BY <2>1, <2>2 DEF Stager
<1>7. stage[Call] # "connected"
  BY <1>1, OnlyOne, Names DEF Calm
<1>8. Confirmed(chain)' = Confirmed(chain)
  BY <1>1 DEF Confirmed
<1>9. Drafts'
  <2> SUFFICES ASSUME NEW m \in Thread
               PROVE  Behind(m)' /\ (Draft(m)' => Fits(m)' /\ pc'[m] = "collected")
    BY <1>1, <1>4 DEF Drafts
  <2>1. CASE pc'[m] = pc[m] /\ template'[m] = template[m]
    <3>1. Behind(m)' = Behind(m) /\ Draft(m)' = Draft(m) /\ Fits(m)' = Fits(m)
      BY <1>1, <1>8, <2>1 DEF Behind, Draft, Fits
    <3>2. Draft(m) => pc[m] = "collected"
      BY <1>2 DEF Calm, Drafts
    <3> QED
      BY <1>7, <2>1, <3>1, <3>2 DEF Calm, Drafts
  <2>2. CASE pc'[m] = "begin" /\ template'[m].prev = <<>>
    <3>1. Len(<<>>) = 0
      BY EmptyChain
    <3> QED
      BY <1>1, <1>2, <2>2, <3>1 DEF Draft, Behind
  <2> QED
    BY <1>6, <2>1, <2>2
<1> QED
  BY <1>1, <1>5, <1>9 DEF Calm

\* A call puts a block together or hands it in.
LEMMA CallStep ==
    ASSUME Calm, ReadTip(Call) \/ Collect(Call) \/ KeepWork \/ \E w \in work : SubmitWork(w)
    PROVE  Agrees' /\ Drafts' /\ ~refused'
<1>1. UNCHANGED <<chain, nBestHeight, txdb, committed, new, stage, refused>>
  BY DEF ReadTip, Collect, KeepWork, SubmitWork, chainVars
<1>2. \A m \in Thread : pc'[m] = pc[m] /\ template'[m] = template[m]
  BY Names DEF ReadTip, Collect, KeepWork, SubmitWork, Calm, Owned, Types
<1> QED
  BY <1>1, <1>2, FrameStep

\* Work that comes back, or a block that is handed in, connects or changes nothing.
LEMMA ProcessWorkStep ==
    ASSUME Calm, ProcessWork, ~raced'
    PROVE  Agrees' /\ Drafts' /\ ~refused'
<1>1. /\ pc[Call] = "keyed" /\ Enter /\ UNCHANGED <<chain, nBestHeight, refused>>
  BY DEF ProcessWork
<1>2. \A m \in Thread : pc'[m] = pc[m] /\ template'[m] = template[m]
  BY Names DEF ProcessWork, Calm, Owned, Types
<1>3. \A t \in Stager : stage[t] = "no"
  BY <1>1, EnterQuiet DEF Calm, Owned
<1>4. CASE UNCHANGED <<txdb, committed, new, stage>>
  BY <1>1, <1>2, <1>4, FrameStep
<1>5. CASE /\ Higher(template[Call])
           /\ Connect(Call, Append(template[Call].prev, Block(template[Call])))
  <2> DEFINE ch == Append(template[Call].prev, Block(template[Call]))
  <2>1. ch \in Chains /\ Len(ch) = Len(template[Call].prev) + 1
    BY <1>1, KeyedChain, Names DEF Calm, Owned
  <2>2. nBestHeight < Len(ch)
    <3>1. nBestHeight \in Int /\ Len(template[Call].prev) \in Int
      BY ChainLength, MinerAssumption, Names DEF Calm, Owned, Types, Templates
    <3> QED
      BY <1>5, <2>1, <3>1 DEF Higher
  <2>3. Agrees'
    BY <1>1, <1>3, <1>5, <2>1, <2>2, ConnectAgrees, Names
  <2>4. stage[Call] = "no" /\ stage'[Call] = "connected"
    BY <1>3, <1>5, Names DEF Connect, Calm, Owned, Types
  <2>5. Drafts'
    BY <1>1, <1>2, <2>4, SameDrafts
  <2> QED
    BY <1>1, <2>3, <2>5 DEF Calm
<1> QED
  BY <1>4, <1>5 DEF ProcessWork

LEMMA GetBlockStep ==
    ASSUME Calm, NEW t \in {Message, Call}, GetBlock(t), ~raced'
    PROVE  Agrees' /\ Drafts' /\ ~refused'
<1>1. Enter /\ UNCHANGED <<chain, nBestHeight, template, refused>>
  BY DEF GetBlock
<1>2. PICK br \in Branches : nBestHeight < Len(br) /\ Len(br) <= MaxHeight /\ Connect(t, br)
  BY DEF GetBlock
<1>3. \A u \in Stager : stage[u] = "no"
  BY <1>1, EnterQuiet DEF Calm, Owned
<1>4. br \in Chains
  BY <1>2, BranchChain DEF Calm, Owned
<1>5. Agrees'
  BY <1>1, <1>2, <1>3, <1>4, ConnectAgrees, Names
<1>6. stage[Call] = "no" /\ stage'[Call] \in {"no", "connected"}
  BY <1>2, <1>3, Names DEF Connect, Calm, Owned, Types
<1>7. \A m \in Thread : pc'[m] = pc[m] /\ template'[m] = template[m]
  BY <1>1, Names DEF GetBlock, Calm, Owned, Types
<1>8. Drafts'
  BY <1>1, <1>6, <1>7, SameDrafts
<1> QED
  BY <1>1, <1>5, <1>8 DEF Calm

LEMMA OutsideStep ==
    ASSUME Calm, \/ \E t \in Tx : GetTx(t)
                 \/ \E on \in BOOLEAN, n \in Limits : GenerateBitcoins(on, n)
    PROVE  Agrees' /\ Drafts' /\ ~refused'
<1>1. UNCHANGED <<chain, nBestHeight, txdb, committed, new, stage, refused, template>>
  BY DEF GetTx, GenerateBitcoins, chainVars, making
<1>2. \A m \in Thread : pc'[m] = pc[m] \/ pc'[m] = "created"
  <2>1. CASE \E t \in Tx : GetTx(t)
    BY <2>1 DEF GetTx, making
  <2>2. CASE \E on \in BOOLEAN, n \in Limits : GenerateBitcoins(on, n)
    <3>1. PICK S : pc' = [m \in Maker |-> IF m \in S THEN "created" ELSE pc[m]]
      BY <2>2 DEF GenerateBitcoins
    <3> QED
      BY <3>1, Names
  <2> QED
    BY <2>1, <2>2
<1>3. \A m \in Thread : \/ pc'[m] = pc[m] /\ template'[m] = template[m]
                        \/ /\ pc'[m] \notin {"collected", "made", "keyed"}
                           /\ template'[m] = template[m] \/ template'[m].prev \in {<<>>, chain}
  BY <1>1, <1>2
<1> QED
  BY <1>1, <1>3, FrameStep

LEMMA RestartStep == ASSUME Calm, Restart PROVE Agrees' /\ Drafts' /\ ~refused'
<1>1. /\ chain' = committed /\ nBestHeight' = Len(chain') /\ UNCHANGED <<txdb, committed, refused>>
      /\ stage' = [t \in Stager |-> "no"] /\ template' = [m \in Maker |-> NoTemplate]
      /\ chain' \in Chains
  BY DEF Restart, Calm, Owned, Types
<1>2. PICK S : pc' = [m \in Maker |-> IF m \in S THEN "created" ELSE "off"]
  BY DEF Restart
<1>3. Agrees'
  <2>1. \A t \in Stager : stage'[t] = "no"
    BY <1>1
  <2>2. txdb' = Confirmed(committed)'
    BY <1>1 DEF Confirmed, Calm, Agrees
  <2> QED
    BY <1>1, <2>1, <2>2 DEF Agrees
<1>4. Drafts'
  <2>1. NoTemplate.prev = <<>> /\ Len(<<>>) = 0 /\ Len(chain') \in Nat
    BY <1>1, ChainLength, EmptyChain DEF NoTemplate
  <2>2. \A m \in Thread : template'[m].prev = <<>> /\ pc'[m] \in {"created", "off"}
    BY <1>1, <1>2, <2>1, Names
  <2>3. chain' = <<>> \/ 0 < Len(chain')
    BY <1>1, <2>1, EmptySeq DEF Chains
  <2> QED
    BY <2>1, <2>2, <2>3 DEF Drafts, Draft, Behind
<1> QED
  BY <1>1, <1>3, <1>4 DEF Calm

LEMMA InitMiner == Init => MinerIInv
<1> SUFFICES ASSUME Init PROVE MinerIInv
  OBVIOUS
<1>1. Confirmed(<<>>) = {}
  BY DEF Confirmed
<1>2. Agrees
  <2>1. \A t \in Stager : stage[t] = "no"
    BY DEF Init, Stager
  <2>2. txdb = Confirmed(committed)
    BY <1>1 DEF Init
  <2>3. committed = chain /\ nBestHeight = Len(chain)
    BY EmptyChain DEF Init
  <2> QED
    BY <2>1, <2>2, <2>3 DEF Agrees
<1>3. Drafts
  BY EmptyChain, Names DEF Init, Drafts, Draft, Behind, NoTemplate
<1> QED
  BY <1>2, <1>3, InitOwned DEF Init, MinerIInv

\* A race is not forgotten.
LEMMA RacedStays == ASSUME [Next]_minerVars, raced PROVE raced'
  BY DEF Next, Mine, Node, Work, Begin, ReadTip, Collect, Make, Solve, Offer, Rebuild, SetBest,
         SetHeight, Leave, Gone, KeepWork, ProcessWork, GetBlock, SubmitWork, GetTx, Restart,
         GenerateBitcoins, Enter, minerVars

LEMMA MinerStep == MinerIInv /\ [Next]_minerVars => MinerIInv'
<1> SUFFICES ASSUME MinerIInv, [Next]_minerVars PROVE MinerIInv'
  OBVIOUS
<1>7. Owned'
  BY OwnedStep DEF MinerIInv
<1> SUFFICES ASSUME ~raced' PROVE Agrees' /\ Drafts' /\ ~refused'
  <2>1. CASE raced'
    BY <1>7, <2>1 DEF MinerIInv
  <2>2. CASE ~raced'
    BY <1>7, <2>2 DEF MinerIInv
  <2> QED
    BY <2>1, <2>2
<1>0. Calm
  BY RacedStays DEF MinerIInv, Calm
<1>1. ASSUME NEW m \in Thread, Mine(m) PROVE Agrees' /\ Drafts' /\ ~refused'
  BY <1>0, <1>1, IdleStep, CollectStep, MakeStep, SolveStep, OfferStep, SetBestStep, SetHeightStep, Names
  DEF Mine
<1>2. CASE Node
  BY <1>0, <1>2, GetBlockStep, OutsideStep, SetBestStep, SetHeightStep, Names DEF Node
<1>3. CASE Work
  BY <1>0, <1>3, CallStep, ProcessWorkStep, GetBlockStep, SetBestStep, SetHeightStep, Names DEF Work
<1>4. CASE Restart
  BY <1>0, <1>4, RestartStep
<1>5. CASE \E on \in BOOLEAN, n \in Limits : GenerateBitcoins(on, n)
  BY <1>0, <1>5, OutsideStep
<1>6. CASE UNCHANGED minerVars
  BY <1>0, <1>6, FrameStep DEF minerVars, chainVars, making
<1> QED
  BY <1>1, <1>2, <1>3, <1>4, <1>5, <1>6 DEF Next

\* Unless another thread came between what a call does in ProcessBlock: database, height and
\* chain agree but while a block is being connected, and what a thread has put together for
\* the tip connects to it.
THEOREM MinerInvariant == Spec => []MinerIInv
<1> QED
  BY InitMiner, MinerStep, PTL DEF Spec

\* A block that a thread solved for the tip is not accepted ("ProcessBlock, block not
\* accepted", main.cpp:3183) only where another thread came between what a call does in
\* ProcessBlock, though tip, pool and height were read at three times.
THEOREM SolvedIsAccepted == Spec => []MinedAccepted
<1>1. MinerIInv => MinedAccepted
  BY DEF MinerIInv, MinedAccepted
<1> QED
  BY <1>1, MinerInvariant, PTL

\* The types; that the database has what its best chain has, which is the program's when nobody
\* is in ProcessBlock, unless another thread came between; and the keys.
THEOREM MinerSound == Spec => []MinerInv
<1>1. MinerIInv => MinerTypeOK
  <2> SUFFICES ASSUME MinerIInv PROVE MinerTypeOK
    OBVIOUS
  <2>1. Owned /\ (raced \/ Agrees)
    BY DEF MinerIInv
  <2>2. nBestHeight <= MaxHeight /\ Len(chain) <= MaxHeight
    BY <2>1, MinerAssumption DEF Owned, Types, Chains
  <2>3. raced \/ /\ nBestHeight <= Len(chain) /\ txdb = Confirmed(committed)
                 /\ (\A t \in DOMAIN stage : stage[t] = "no") => committed = chain
    <3> SUFFICES ASSUME Agrees
                 PROVE  /\ nBestHeight <= Len(chain) /\ txdb = Confirmed(committed)
                        /\ (\A t \in DOMAIN stage : stage[t] = "no") => committed = chain
      BY <2>1
    <3>1. (\A t \in Stager : stage[t] = "no") \/ \E t \in Stager : stage[t] \in {"connected", "best"}
      BY <2>1 DEF Owned, Types
    <3>2. Len(chain) \in Nat /\ nBestHeight \in Nat /\ DOMAIN stage = Stager
      BY <2>1, ChainLength, MinerAssumption DEF Owned, Types, Chains
    <3> QED
      BY <3>1, <3>2 DEF Agrees
  <2>4. \A t \in Thread \cup {Message} : stage[t] # "no" => cs_main = t
    BY <2>1 DEF Owned, Locks
  <2> QED
    BY <2>1, <2>2, <2>3, <2>4, Names DEF MinerTypeOK, Owned, Types, WorkKept, Stager
<1> QED
  BY <1>1, KeysSaved, MinerInvariant, PTL DEF MinerInv
=============================================================================
