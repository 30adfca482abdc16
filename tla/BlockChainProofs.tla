--------------------------- MODULE BlockChainProofs ---------------------------
(***************************************************************************)
(* Facts about the tree of blocks, each an induction on the height put as  *)
(* a choice of the lowest counterexample; then ConnectBlock and            *)
(* DisconnectBlock as functions of the transaction database: one takes the *)
(* database of a branch to that of the branch longer by a block, the other *)
(* takes it back; then that IInv is inductive, one lemma per action of     *)
(* BlockChain, and the theorems that follow from it.                       *)
(*                                                                         *)
(* Then the memory pool in step with the chain: its index has no pointer   *)
(* to an erased transaction, it holds nothing that is confirmed, a         *)
(* reorganization forgets no transaction, and a tx message retries all     *)
(* that was held for what it brought.                                      *)
(*                                                                         *)
(* Last the times and targets of a branch: the median of the last times    *)
(* never falls, and an interval that was too fast never makes mining       *)
(* easier, for every choice of the parameters.                             *)
(***************************************************************************)
EXTENDS NodePool, BlockChainInv, Difficulty, FiniteSetTheorems, WellFoundedInduction, TLAPS

-----------------------------------------------------------------------------
(* The tree                                                                *)

\* A nonempty set of blocks has a lowest one.
LEMMA LowestBlock ==
    ASSUME NEW S \in SUBSET Block, S # {}
    PROVE  \E b \in S : \A c \in S : Height[b] <= Height[c]
<1> DEFINE T == {Height[b] : b \in S}
<1>1. T \subseteq Nat /\ T # {}
  BY TreeAssumption
<1>2. PICK n \in T : \A m \in T : <<m, n>> \notin OpToRel(<, Nat)
  BY <1>1, NatLessThanWellFounded, WFMin
<1> HIDE DEF T
<1>3. \A m \in T : ~(m < n)
  BY <1>1, <1>2 DEF OpToRel
<1>4. \A m \in T : n <= m
  BY <1>1, <1>3
<1> QED
  BY <1>4 DEF T

\* A block is its own ancestor; the ancestors of any other are its parent's.
LEMMA AncStep ==
    ASSUME NEW b \in Block
    PROVE  /\ b \in Anc[b]
           /\ Anc[b] \subseteq Block
           /\ Height[b] \in Nat
           /\ b # Genesis => /\ Prev[b] \in Block
                             /\ Anc[b] = Anc[Prev[b]] \cup {b}
                             /\ Height[b] = Height[Prev[b]] + 1
  BY TreeAssumption

\* Genesis is an ancestor of every block.
LEMMA GenesisAnc ==
    ASSUME NEW b \in Block
    PROVE  Genesis \in Anc[b]
<1> DEFINE Bad == {c \in Block : Genesis \notin Anc[c]}
<1> SUFFICES ASSUME Bad # {} PROVE FALSE
  OBVIOUS
<1>1. PICK c \in Bad : \A d \in Bad : Height[c] <= Height[d]
  BY LowestBlock
<1>2. c # Genesis
  BY TreeAssumption
<1>3. Prev[c] \notin Bad
  BY <1>1, <1>2, AncStep
<1> QED
  BY <1>2, <1>3, AncStep

\* Ancestors are lower than the block.
LEMMA AncHeight ==
    ASSUME NEW b \in Block, NEW a \in Anc[b]
    PROVE  a \in Block /\ Height[a] <= Height[b] /\ (Height[a] = Height[b] => a = b)
<1> DEFINE Low(c) == \A d \in Anc[c] : Height[d] <= Height[c] /\ (Height[d] = Height[c] => d = c)
           Bad == {c \in Block : ~Low(c)}
<1>1. SUFFICES ASSUME Bad # {} PROVE FALSE
  BY AncStep
<1>2. PICK c \in Bad : \A d \in Bad : Height[c] <= Height[d]
  BY <1>1, LowestBlock
<1>3. c # Genesis
  BY TreeAssumption
<1>4. Prev[c] \in Block /\ Low(Prev[c])
  BY <1>2, <1>3, AncStep
<1>5. \A d \in Anc[Prev[c]] : Height[d] \in Nat /\ Height[d] < Height[c]
  BY <1>3, <1>4, AncStep
<1>6. Low(c)
  BY <1>3, <1>5, AncStep
<1> QED
  BY <1>6

\* The ancestors of an ancestor are ancestors.
LEMMA AncTrans ==
    ASSUME NEW b \in Block, NEW a \in Anc[b]
    PROVE  Anc[a] \subseteq Anc[b]
<1> DEFINE Closed(c) == \A d \in Anc[c] : Anc[d] \subseteq Anc[c]
           Bad == {c \in Block : ~Closed(c)}
<1>1. SUFFICES ASSUME Bad # {} PROVE FALSE
  OBVIOUS
<1>2. PICK c \in Bad : \A d \in Bad : Height[c] <= Height[d]
  BY <1>1, LowestBlock
<1>3. c # Genesis
  BY TreeAssumption
<1>4. Prev[c] \in Block /\ Closed(Prev[c])
  BY <1>2, <1>3, AncStep
<1> QED
  BY <1>3, <1>4, AncStep

\* The parent of an ancestor is an ancestor.
LEMMA AncPrev ==
    ASSUME NEW b \in Block, NEW a \in Anc[b], a # Genesis
    PROVE  Prev[a] \in Anc[b]
  BY AncStep, AncTrans

\* A proper ancestor has a child on the way to the block.
LEMMA PathChild ==
    ASSUME NEW b \in Block, NEW a \in Anc[b], a # b
    PROVE  \E c \in Anc[b] : c # Genesis /\ Prev[c] = a
<1> DEFINE Path(c) == \A d \in Anc[c] : d # c => \E e \in Anc[c] : e # Genesis /\ Prev[e] = d
           Bad == {c \in Block : ~Path(c)}
<1>1. SUFFICES ASSUME Bad # {} PROVE FALSE
  OBVIOUS
<1>2. PICK c \in Bad : \A d \in Bad : Height[c] <= Height[d]
  BY <1>1, LowestBlock
<1>3. c # Genesis
  BY TreeAssumption
<1>4. Prev[c] \in Block /\ Path(Prev[c])
  BY <1>2, <1>3, AncStep
<1> QED
  BY <1>3, <1>4, AncStep

\* Two ancestors of one block at the same height are the same block.
LEMMA AncUnique ==
    ASSUME NEW b \in Block, NEW a \in Anc[b], NEW c \in Anc[b], Height[a] = Height[c]
    PROVE  a = c
<1> DEFINE Single(x) == \A d, e \in Anc[x] : Height[d] = Height[e] => d = e
           Bad == {x \in Block : ~Single(x)}
<1>1. SUFFICES ASSUME Bad # {} PROVE FALSE
  OBVIOUS
<1>2. PICK x \in Bad : \A d \in Bad : Height[x] <= Height[d]
  BY <1>1, LowestBlock
<1>3. x # Genesis
  BY TreeAssumption
<1>4. Prev[x] \in Block /\ Single(Prev[x])
  BY <1>2, <1>3, AncStep
<1>5. \A d \in Anc[Prev[x]] : Height[d] < Height[x]
  BY <1>3, <1>4, AncStep, AncHeight
<1> QED
  BY <1>3, <1>4, <1>5, AncStep

\* So is the child of an ancestor on the way to the block.
LEMMA PathUnique ==
    ASSUME NEW b \in Block, NEW c \in Anc[b], NEW d \in Anc[b],
           Prev[c] = Prev[d], Prev[c] \in Block
    PROVE  c = d
<1>1. c \in Block \ {Genesis} /\ d \in Block \ {Genesis}
  BY AncStep, TreeAssumption
<1>2. Height[c] = Height[d]
  BY <1>1, AncStep
<1> QED
  BY <1>2, AncUnique

\* The ancestors of a block are a chain.
LEMMA AncChain ==
    ASSUME NEW b \in Block, NEW a \in Anc[b], NEW c \in Anc[b], Height[a] <= Height[c]
    PROVE  a \in Anc[c]
<1> DEFINE Chain(x) == \A d, e \in Anc[x] : Height[d] <= Height[e] => d \in Anc[e]
           Bad == {x \in Block : ~Chain(x)}
<1>1. SUFFICES ASSUME Bad # {} PROVE FALSE
  OBVIOUS
<1>2. PICK x \in Bad : \A d \in Bad : Height[x] <= Height[d]
  BY <1>1, LowestBlock
<1>3. x # Genesis
  BY TreeAssumption
<1>4. Prev[x] \in Block /\ Chain(Prev[x])
  BY <1>2, <1>3, AncStep
<1>5. \A d \in Anc[Prev[x]] : Height[d] \in Nat /\ Height[d] < Height[x]
  BY <1>3, <1>4, AncStep, AncHeight
<1> QED
  BY <1>3, <1>4, <1>5, AncStep

\* A set of blocks that contains a block, and the parent of each ancestor of it
\* that it contains, contains them all.
LEMMA AncClosed ==
    ASSUME NEW S, NEW b \in Block \cap S,
           \A a \in (Anc[b] \cap S) \ {Genesis} : Prev[a] \in S
    PROVE  Anc[b] \subseteq S
<1> DEFINE Leads(x) == \A a \in (Anc[x] \cap S) \ {Genesis} : Prev[a] \in S
           Bad == {x \in Block \cap S : Leads(x) /\ ~(Anc[x] \subseteq S)}
<1>1. SUFFICES ASSUME Bad # {} PROVE FALSE
  OBVIOUS
<1>2. PICK x \in Bad : \A d \in Bad : Height[x] <= Height[d]
  BY <1>1, LowestBlock
<1>3. x # Genesis
  BY TreeAssumption
<1>4. Prev[x] \in Block \cap S /\ Leads(Prev[x]) /\ Prev[x] \notin Bad
  BY <1>2, <1>3, AncStep
<1> QED
  BY <1>3, <1>4, AncStep

\* A child is not among the ancestors of its parent.
LEMMA ChildNotAnc ==
    ASSUME NEW b \in Block \ {Genesis}
    PROVE  b \notin Anc[Prev[b]]
  BY AncStep, AncHeight

-----------------------------------------------------------------------------
(* The database                                                            *)

\* A transaction's inputs are outpoints, a block's transactions are transactions.
LEMMA Elements ==
    ASSUME NEW b \in Block
    PROVE  /\ TxsOf(b) \subseteq Tx
           /\ Spends(b) \subseteq OutPoint
           /\ \A i \in DOMAIN Vtx[b] : /\ i \in Nat
                                       /\ Vtx[b][i] \in TxsOf(b)
                                       /\ Inputs(Vtx[b][i]) \subseteq Spends(b)
                                       /\ DOMAIN Vin[Vtx[b][i]] \subseteq Nat
<1>1. \A i \in DOMAIN Vtx[b] : i \in Nat /\ Vtx[b][i] \in Tx
  BY TxAssumption
<1>2. \A t \in Tx : DOMAIN Vin[t] \subseteq Nat /\ \A k \in DOMAIN Vin[t] : Vin[t][k] \in OutPoint
  BY TxAssumption
<1> QED
  BY <1>1, <1>2 DEF TxsOf, Spends, Inputs

\* The branch of a block is its parent's and the block.
LEMMA BranchStep ==
    ASSUME NEW c \in Block \ {Genesis}
    PROVE  /\ Prev[c] \in Block
           /\ Branch(c) = Branch(Prev[c]) \cup {c}
           /\ c \notin Branch(Prev[c])
           /\ Branch(c) \subseteq Block \ {Genesis}
  BY AncStep, ChildNotAnc DEF Branch

\* The branch of a member of a branch is part of it.
LEMMA BranchTrans ==
    ASSUME NEW b \in Block, NEW a \in Branch(b)
    PROVE  a \in Block /\ Branch(a) \subseteq Branch(b)
  BY AncStep, AncTrans DEF Branch

\* The part of a valid branch up to any of its blocks is valid.
LEMMA ValidPrefix ==
    ASSUME NEW c \in Block \ {Genesis}, ValidBranch(c)
    PROVE  ValidBranch(Prev[c])
<1>1. InputsExist(Prev[c])
  BY BranchStep DEF ValidBranch, InputsExist
<1>2. NoDoubleSpend(Prev[c])
  BY BranchStep DEF ValidBranch, NoDoubleSpend
<1> QED
  BY <1>1, <1>2 DEF ValidBranch

\* On a valid branch what is spent was created.
LEMMA SpentWasCreated ==
    ASSUME NEW b \in Block, ValidBranch(b), NEW a \in Branch(b), NEW o \in Spends(a)
    PROVE  \E c \in Branch(b) : o[1] \in TxsOf(c)
<1>1. PICK i \in DOMAIN Vtx[a] : o \in Inputs(Vtx[a][i])
  BY DEF Spends, TxsOf
<1>2. PICK c \in Branch(a) : \E j \in DOMAIN Vtx[c] : Vtx[c][j] = o[1]
  BY <1>1 DEF ValidBranch, InputsExist
<1> QED
  BY <1>2, BranchTrans DEF TxsOf

-----------------------------------------------------------------------------
\* If a block connects, its transactions are new to the branch below it.
LEMMA ConnectsFresh ==
    ASSUME NEW db \in TxDB, NEW c \in Block \ {Genesis}, Replays(db, Prev[c]), Connects(db, c),
           NEW b \in Branch(Prev[c])
    PROVE  TxsOf(b) \cap TxsOf(c) = {} /\ Spends(b) \cap Spends(c) = {}
<1>1. b \in Block /\ b # c /\ b \in Anc[c]
  BY BranchStep DEF Branch
<1>2. \A o \in Spends(c) : db.vSpent[o] = NoBlock
  BY DEF Connects, InputConnects, Spends, Inputs, TxsOf
<1>3. \A o \in Spends(b) : db.vSpent[o] = b /\ b # NoBlock
  BY <1>1, Elements, TreeAssumption DEF Replays
<1>4. Spends(b) \cap Spends(c) = {}
  BY <1>2, <1>3
<1>5. ASSUME NEW t \in TxsOf(b) \cap TxsOf(c) PROVE FALSE
  <2>1. t \in Tx \ CoinBase
    BY <1>1, Elements, CoinbaseAssumption
  <2>2. Inputs(t) # {}
    <3>1. Vin[t] \in Seq(OutPoint) /\ Vin[t] # <<>>
      BY <2>1, TxAssumption
    <3>2. 1 \in DOMAIN Vin[t]
      BY <3>1
    <3> QED
      BY <3>2 DEF Inputs
  <2>3. Inputs(t) \subseteq Spends(b) \cap Spends(c)
    BY DEF Spends
  <2> QED
    BY <2>2, <2>3, <1>4
<1> QED
  BY <1>4, <1>5

\* ConnectBlock keeps the database a function of the branch.
LEMMA ConnectedReplays ==
    ASSUME NEW db \in TxDB, NEW c \in Block \ {Genesis},
           Replays(db, Prev[c]), ValidBranch(Prev[c]), Connects(db, c)
    PROVE  Connected(db, c) \in TxDB /\ Replays(Connected(db, c), c)
<1> DEFINE new == Connected(db, c)
<1>1. Prev[c] \in Block /\ c \in Block
  BY BranchStep
<1>2. new \in TxDB
  BY <1>1 DEF TxDB, Connected
<1>3. \A t \in Tx, b \in Block : new.pos[t] = b <=> b \in Branch(c) /\ t \in TxsOf(b)
  <2> SUFFICES ASSUME NEW t \in Tx, NEW b \in Block
               PROVE  new.pos[t] = b <=> b \in Branch(c) /\ t \in TxsOf(b)
    OBVIOUS
  <2>1. new.pos[t] = IF t \in TxsOf(c) THEN c ELSE db.pos[t]
    BY DEF Connected, TxDB
  <2>2. db.pos[t] = b <=> b \in Branch(Prev[c]) /\ t \in TxsOf(b)
    BY DEF Replays
  <2> QED
    BY <2>1, <2>2, BranchStep, ConnectsFresh
<1>4. \A o \in OutPoint, b \in Block : new.vSpent[o] = b <=> b \in Branch(c) /\ o \in Spends(b)
  <2> SUFFICES ASSUME NEW o \in OutPoint, NEW b \in Block
               PROVE  new.vSpent[o] = b <=> b \in Branch(c) /\ o \in Spends(b)
    OBVIOUS
  <2>1. new.vSpent[o] = IF o \in Spends(c) THEN c
                        ELSE IF o[1] \in TxsOf(c) THEN NoBlock ELSE db.vSpent[o]
    BY DEF Connected, TxDB
  <2>2. db.vSpent[o] = b <=> b \in Branch(Prev[c]) /\ o \in Spends(b)
    BY DEF Replays
  <2>3. CASE o \in Spends(c)
    BY <2>1, <2>3, BranchStep, ConnectsFresh
  <2>4. CASE o \notin Spends(c) /\ o[1] \in TxsOf(c)
    <3>1. b \in Branch(Prev[c]) => o \notin Spends(b)
      BY <1>1, <2>4, SpentWasCreated, ConnectsFresh
    <3> QED
      BY <2>1, <2>4, <3>1, BranchStep, TreeAssumption
  <2>5. CASE o \notin Spends(c) /\ o[1] \notin TxsOf(c)
    BY <2>1, <2>2, <2>5, BranchStep
  <2> QED
    BY <2>3, <2>4, <2>5
<1>5. \A p, b \in Block : new.hashNext[p] = b <=> b \in Branch(c) /\ Prev[b] = p
  <2> SUFFICES ASSUME NEW p \in Block, NEW b \in Block
               PROVE  new.hashNext[p] = b <=> b \in Branch(c) /\ Prev[b] = p
    OBVIOUS
  <2>1. new.hashNext[p] = IF p = Prev[c] THEN c ELSE db.hashNext[p]
    BY DEF Connected, TxDB
  <2>2. db.hashNext[p] = b <=> b \in Branch(Prev[c]) /\ Prev[b] = p
    BY DEF Replays
  <2>3. b \in Branch(c) /\ Prev[b] = Prev[c] => b = c
    BY <1>1, AncStep, PathUnique DEF Branch
  <2> QED
    BY <2>1, <2>2, <2>3, BranchStep
<1> QED
  BY <1>2, <1>3, <1>4, <1>5 DEF Replays

\* A block that connects to a valid branch makes a valid branch.
LEMMA ConnectedValid ==
    ASSUME NEW db \in TxDB, NEW c \in Block \ {Genesis},
           Replays(db, Prev[c]), ValidBranch(Prev[c]), Connects(db, c)
    PROVE  ValidBranch(c)
<1>1. Prev[c] \in Block /\ c \in Block /\ c \in Branch(c)
  BY BranchStep
<1>2. InputsExist(c)
  <2>1. ASSUME NEW i \in DOMAIN Vtx[c], NEW k \in DOMAIN Vin[Vtx[c][i]], NEW o, o = Vin[Vtx[c][i]][k]
        PROVE  /\ o[2] \in Vout[o[1]]
               /\ \E d \in Branch(c) : \E j \in DOMAIN Vtx[d] :
                     Vtx[d][j] = o[1] /\ (d # c \/ j < i)
    <3>1. InputConnects(db, c, i, k)
      BY DEF Connects
    <3>2. o[1] \in Tx
      <4>1. o \in Inputs(Vtx[c][i])
        BY <2>1 DEF Inputs
      <4>2. o \in OutPoint
        BY <4>1, Elements
      <4> QED
        BY <4>2 DEF OutPoint
    <3>3. CASE \E j \in DOMAIN Vtx[c] : j < i /\ Vtx[c][j] = o[1]
      BY <1>1, <2>1, <3>1, <3>3 DEF InputConnects
    <3>4. CASE ~ \E j \in DOMAIN Vtx[c] : j < i /\ Vtx[c][j] = o[1]
      <4>1. o[2] \in Vout[o[1]] /\ db.pos[o[1]] # NoBlock
        BY <2>1, <3>1, <3>4 DEF InputConnects
      <4>2. db.pos[o[1]] \in Block
        BY <3>2, <4>1 DEF TxDB
      <4>3. PICK d \in Branch(Prev[c]) : o[1] \in TxsOf(d)
        BY <3>2, <4>2 DEF Replays
      <4> QED
        BY <4>1, <4>3, BranchStep DEF TxsOf
    <3> QED
      BY <3>3, <3>4
  <2>2. \A a \in Branch(Prev[c]) : \A i \in DOMAIN Vtx[a] : \A o \in Inputs(Vtx[a][i]) :
           /\ o[2] \in Vout[o[1]]
           /\ \E d \in Branch(a) : \E j \in DOMAIN Vtx[d] :
                 Vtx[d][j] = o[1] /\ (d # a \/ j < i)
    BY DEF ValidBranch, InputsExist
  <2>3. \A i \in DOMAIN Vtx[c] : \A o \in Inputs(Vtx[c][i]) :
           \E k \in DOMAIN Vin[Vtx[c][i]] : o = Vin[Vtx[c][i]][k]
    BY DEF Inputs
  <2> QED
    BY <2>1, <2>2, <2>3, BranchStep DEF InputsExist
<1>3. NoDoubleSpend(c)
  <2> SUFFICES ASSUME NEW a \in Branch(c), NEW d \in Branch(c),
                      NEW i \in DOMAIN Vtx[a], NEW j \in DOMAIN Vtx[d],
                      NEW k \in DOMAIN Vin[Vtx[a][i]], NEW l \in DOMAIN Vin[Vtx[d][j]],
                      Vin[Vtx[a][i]][k] = Vin[Vtx[d][j]][l]
               PROVE  a = d /\ i = j /\ k = l
    BY DEF NoDoubleSpend
  <2>1. Vin[Vtx[a][i]][k] \in Spends(a) \cap Spends(d)
    BY DEF Spends, TxsOf, Inputs
  <2>2. CASE a \in Branch(Prev[c]) /\ d \in Branch(Prev[c])
    BY <2>2, SMTT(30) DEF ValidBranch, NoDoubleSpend
  <2>3. CASE a = c /\ d = c
    <3>1. i \in Nat /\ j \in Nat /\ k \in Nat /\ l \in Nat
      BY <2>3, Elements
    <3>2. InputConnects(db, c, i, k) /\ InputConnects(db, c, j, l)
      BY <2>3 DEF Connects
    <3>3. /\ j < i \/ (j = i /\ l < k) => Vin[Vtx[c][j]][l] # Vin[Vtx[c][i]][k]
          /\ i < j \/ (i = j /\ k < l) => Vin[Vtx[c][i]][k] # Vin[Vtx[c][j]][l]
      BY <2>3, <3>2 DEF InputConnects
    <3> QED
      BY <2>3, <3>1, <3>3
  <2> QED
    BY <2>1, <2>2, <2>3, BranchStep, ConnectsFresh
<1> QED
  BY <1>2, <1>3 DEF ValidBranch

-----------------------------------------------------------------------------
\* DisconnectBlock takes the database back to that of the branch below.
LEMMA DisconnectedReplays ==
    ASSUME NEW db \in TxDB, NEW c \in Block \ {Genesis}, Replays(db, c), ValidBranch(c)
    PROVE  Disconnected(db, c) \in TxDB /\ Replays(Disconnected(db, c), Prev[c])
<1> DEFINE old == Disconnected(db, c)
<1>1. Prev[c] \in Block /\ c \in Block /\ c # NoBlock
  BY BranchStep, TreeAssumption
<1>2. old \in TxDB
  BY <1>1 DEF TxDB, Disconnected
<1>3. \A t \in Tx, b \in Block : old.pos[t] = b <=> b \in Branch(Prev[c]) /\ t \in TxsOf(b)
  <2> SUFFICES ASSUME NEW t \in Tx, NEW b \in Block
               PROVE  old.pos[t] = b <=> b \in Branch(Prev[c]) /\ t \in TxsOf(b)
    OBVIOUS
  <2>1. old.pos[t] = IF t \in TxsOf(c) THEN NoBlock ELSE db.pos[t]
    BY DEF Disconnected, TxDB
  <2>2. \A d \in Block : db.pos[t] = d <=> d \in Branch(c) /\ t \in TxsOf(d)
    BY DEF Replays
  <2> QED
    BY <2>1, <2>2, BranchStep, TreeAssumption
<1>4. \A o \in OutPoint, b \in Block : old.vSpent[o] = b <=> b \in Branch(Prev[c]) /\ o \in Spends(b)
  <2> SUFFICES ASSUME NEW o \in OutPoint, NEW b \in Block
               PROVE  old.vSpent[o] = b <=> b \in Branch(Prev[c]) /\ o \in Spends(b)
    OBVIOUS
  <2>1. old.vSpent[o] = IF o \in Spends(c) \/ o[1] \in TxsOf(c) THEN NoBlock ELSE db.vSpent[o]
    BY DEF Disconnected, TxDB
  <2>2. \A d \in Block : db.vSpent[o] = d <=> d \in Branch(c) /\ o \in Spends(d)
    BY DEF Replays
  <2>3. CASE o \in Spends(c)
    BY <2>1, <2>2, <2>3, BranchStep, TreeAssumption
  <2>4. CASE o \notin Spends(c) /\ o[1] \in TxsOf(c)
    <3>1. o[1] \in Tx
      BY DEF OutPoint
    <3>2. b \in Branch(Prev[c]) => o \notin Spends(b)
      <4> SUFFICES ASSUME b \in Branch(Prev[c]), o \in Spends(b) PROVE FALSE
        OBVIOUS
      <4>1. PICK d \in Branch(Prev[c]) : o[1] \in TxsOf(d)
        BY <1>1, ValidPrefix, SpentWasCreated
      <4>2. db.pos[o[1]] = d /\ db.pos[o[1]] = c
        BY <2>4, <3>1, <4>1, BranchStep DEF Replays
      <4> QED
        BY <4>1, <4>2, BranchStep
    <3> QED
      BY <2>1, <2>4, <3>2, TreeAssumption
  <2>5. CASE o \notin Spends(c) /\ o[1] \notin TxsOf(c)
    BY <2>1, <2>2, <2>5, BranchStep
  <2> QED
    BY <2>3, <2>4, <2>5
<1>5. \A p, b \in Block : old.hashNext[p] = b <=> b \in Branch(Prev[c]) /\ Prev[b] = p
  <2> SUFFICES ASSUME NEW p \in Block, NEW b \in Block
               PROVE  old.hashNext[p] = b <=> b \in Branch(Prev[c]) /\ Prev[b] = p
    OBVIOUS
  <2>1. old.hashNext[p] = IF p = Prev[c] THEN NoBlock ELSE db.hashNext[p]
    BY DEF Disconnected, TxDB
  <2>2. db.hashNext[p] = b <=> b \in Branch(c) /\ Prev[b] = p
    BY DEF Replays
  <2>3. b \in Branch(c) /\ Prev[b] = Prev[c] => b = c
    BY <1>1, AncStep, PathUnique DEF Branch
  <2> QED
    BY <2>1, <2>2, <2>3, BranchStep, TreeAssumption
<1> QED
  BY <1>2, <1>3, <1>4, <1>5 DEF Replays

\* To record a block that nothing of the branch is built on changes no link.
LEMMA RecordedReplays ==
    ASSUME NEW db \in TxDB, NEW tip \in Block, NEW b \in Block, Replays(db, tip), b \notin Anc[tip]
    PROVE  Recorded(db, b) \in TxDB /\ Replays(Recorded(db, b), tip)
<1> DEFINE new == Recorded(db, b)
<1>1. new \in TxDB /\ new.pos = db.pos /\ new.vSpent = db.vSpent
  BY DEF TxDB, Recorded
<1>2. \A p \in Block : new.hashNext[p] = IF p = b THEN NoBlock ELSE db.hashNext[p]
  BY DEF TxDB, Recorded
<1>3. \A c \in Branch(tip) : Prev[c] # b
  BY AncPrev DEF Branch
<1>4. \A p, c \in Block : new.hashNext[p] = c <=> c \in Branch(tip) /\ Prev[c] = p
  BY <1>2, <1>3, TreeAssumption DEF Replays
<1> QED
  BY <1>1, <1>4 DEF Replays

-----------------------------------------------------------------------------
(* The actions                                                              *)


\* The parts of the state that no lemma of a message-handling action needs to
\* look into: what the tip implies.
LEMMA Tip ==
    ASSUME IInv
    PROVE  /\ pindexBest \in Block
           /\ Anc[pindexBest] \subseteq mapBlockIndex
           /\ \A b \in Block : b \notin mapBlockIndex => b \notin Anc[pindexBest]
  BY DEF IInv, TypeOK, BestBranchStored

LEMMA InitInvariant == Init => IInv
<1> SUFFICES ASSUME Init PROVE IInv
  OBVIOUS
<1>1. Branch(Genesis) = {}
  BY TreeAssumption DEF Branch
<1>2. TypeOK
  BY TreeAssumption DEF Init, TypeOK, TxDB, GenesisDB, Phase
<1>3. Replays(txdb, Genesis)
  BY <1>1, TreeAssumption DEF Init, Replays, GenesisDB
<1>4. ValidBranch(Genesis)
  BY <1>1 DEF ValidBranch, InputsExist, NoDoubleSpend
<1>5. Settled
  BY <1>1, <1>3, <1>4, TreeAssumption DEF Init, Settled, GenesisDB
<1>6. BestBranchStored
  BY TreeAssumption DEF Init, BestBranchStored, GenesisDB
<1>7. LinksLead /\ DeletedErased /\ txdb.blockindex \subseteq mapBlockIndex
  BY DEF Init, LinksLead, DeletedErased, GenesisDB
<1> QED
  BY <1>2, <1>5, <1>6, <1>7 DEF Init, IInv

\* Steps that change nothing but the queues.
LEMMA QueueInvariant ==
    ASSUME IInv, orphans' \in SUBSET Block, workQueue' \in Seq(Block),
           UNCHANGED <<mapBlockIndex, stubs, dangling, pnext, pindexBest, txdb, view, blkFile,
                       phase, pindexNew, cursor>>
    PROVE  IInv'
<1>1. TypeOK'
  BY DEF IInv, TypeOK
<1>2. LinksLead' /\ DeletedErased' /\ BestBranchStored'
  BY DEF IInv, LinksLead, DeletedErased, BestBranchStored
<1>3. Settled'
  BY DEF IInv, Settled
<1>4. phase' = "reorg" => Reorganizing'
  BY DEF IInv, Reorganizing, CursorStored, Deleted
<1>5. phase' \in {"erase", "unindex"} => Deleting'
  BY DEF IInv, Deleting, NextToConnect
<1> QED
  BY <1>1, <1>2, <1>3, <1>4, <1>5 DEF IInv

\* A block that enters the index leaves the links and the best branch as they are.
LEMMA EnterKeeps ==
    ASSUME IInv, NEW b \in Block \ {Genesis}, Enter(b), UNCHANGED <<stubs, dangling>>
    PROVE  /\ LinksLead'
           /\ DeletedErased'
           /\ b \notin Anc[pindexBest] \cup stubs \cup dangling
           /\ mapBlockIndex' \in SUBSET Block /\ blkFile' \in SUBSET Block
           /\ orphans' \in SUBSET Block
           /\ mapBlockIndex' = mapBlockIndex \cup {b} /\ blkFile' = blkFile \cup {b}
           /\ phase = "idle"
           /\ Prev[b] \in mapBlockIndex
<1>1. /\ b \notin mapBlockIndex /\ Prev[b] \in mapBlockIndex
      /\ mapBlockIndex' = mapBlockIndex \cup {b} /\ blkFile' = blkFile \cup {b}
      /\ orphans' = orphans \ {b} /\ phase = "idle"
  BY DEF Enter, Acceptable, Taken, Idle
<1>2. b \notin Anc[pindexBest]
  BY <1>1, Tip
<1>3. b \notin stubs \cup dangling
  BY <1>1 DEF IInv, LinksLead
<1>4. LinksLead'
  BY <1>1 DEF IInv, LinksLead
<1>5. DeletedErased'
  BY <1>1 DEF IInv, DeletedErased
<1>6. mapBlockIndex' \in SUBSET Block /\ blkFile' \in SUBSET Block /\ orphans' \in SUBSET Block
  BY <1>1 DEF IInv, TypeOK
<1> QED
  BY <1>1, <1>2, <1>3, <1>4, <1>5, <1>6

LEMMA AddRejectedInvariant ==
    ASSUME IInv, NEW b \in Block \ {Genesis}, AddRejected(b)
    PROVE  IInv'
<1>1. Enter(b) /\ UNCHANGED <<stubs, dangling, pnext, pindexBest, txdb, view, workQueue, phase,
                              pindexNew, cursor>>
  BY DEF AddRejected
<1>2. TypeOK'
  BY <1>1, EnterKeeps DEF IInv, TypeOK
<1>3. Settled'
  BY <1>1 DEF IInv, Settled
<1>4. BestBranchStored'
  BY <1>1, EnterKeeps DEF IInv, BestBranchStored
<1> QED
  BY <1>1, <1>2, <1>3, <1>4, EnterKeeps DEF IInv

LEMMA AddSideBlockInvariant ==
    ASSUME IInv, NEW b \in Block \ {Genesis}, AddSideBlock(b)
    PROVE  IInv'
<1>1. /\ Enter(b)
      /\ txdb' = Recorded(txdb, b) /\ view' = txdb'
      /\ workQueue' = Append(workQueue, b)
      /\ UNCHANGED <<stubs, dangling, pnext, pindexBest, phase, pindexNew, cursor>>
  BY DEF AddSideBlock
<1>2. txdb' \in TxDB /\ Replays(txdb', pindexBest)
  BY <1>1, EnterKeeps, RecordedReplays, Tip DEF IInv, Settled, TypeOK
<1>3. txdb'.hashBestChain = pindexBest /\ txdb'.blockindex = txdb.blockindex \cup {b}
  BY <1>1 DEF IInv, Settled, Recorded, TypeOK, TxDB
<1>4. TypeOK'
  BY <1>1, <1>2, EnterKeeps DEF IInv, TypeOK
<1>5. Settled'
  BY <1>1, <1>2, <1>3 DEF IInv, Settled
<1>6. BestBranchStored'
  BY <1>1, <1>3, EnterKeeps DEF IInv, BestBranchStored
<1> QED
  BY <1>1, <1>3, <1>4, <1>5, <1>6, EnterKeeps DEF IInv

LEMMA ExtendBestChainInvariant ==
    ASSUME IInv, NEW b \in Block \ {Genesis}, ExtendBestChain(b)
    PROVE  IInv'
<1>1. /\ Enter(b)
      /\ Prev[b] = pindexBest
      /\ Connects(txdb, b)
      /\ txdb' = Best(Connected(Recorded(txdb, b), b), b) /\ view' = txdb'
      /\ pnext' = [pnext EXCEPT ![pindexBest] = b]
      /\ pindexBest' = b
      /\ workQueue' = Append(workQueue, b)
      /\ UNCHANGED <<stubs, dangling, phase, pindexNew, cursor>>
  BY DEF ExtendBestChain
<1> DEFINE rec == Recorded(txdb, b)
           new == Connected(rec, b)
<1>2. /\ rec \in TxDB /\ Replays(rec, Prev[b])
      /\ ValidBranch(Prev[b])
      /\ txdb \in TxDB
  BY <1>1, EnterKeeps, RecordedReplays, Tip DEF IInv, Settled, TypeOK
<1>3. Connects(rec, b)
  <2>1. rec.pos = txdb.pos /\ rec.vSpent = txdb.vSpent
    BY <1>2 DEF Recorded, TxDB
  <2>2. Connects(txdb, b)
    BY <1>1
  <2> HIDE DEF rec
  <2> QED
    BY <2>1, <2>2, ZenonT(40) DEF Connects, InputConnects
<1>4. new \in TxDB /\ Replays(new, b) /\ ValidBranch(b)
  BY <1>2, <1>3, ConnectedReplays, ConnectedValid
<1>5. /\ txdb' \in TxDB
      /\ txdb'.hashBestChain = b
      /\ txdb'.blockindex = txdb.blockindex \cup {b, pindexBest}
  BY <1>1, <1>2, <1>4, ZenonT(40) DEF Best, TxDB, Connected, Recorded
<1>6. Replays(txdb', b)
  <2>1. txdb'.pos = new.pos /\ txdb'.vSpent = new.vSpent /\ txdb'.hashNext = new.hashNext
    BY <1>1, <1>4 DEF Best, TxDB
  <2> QED
    BY <1>4, <2>1 DEF Replays
<1>7. TypeOK'
  BY <1>1, <1>5, EnterKeeps, Tip DEF IInv, TypeOK
<1>8. \A p, c \in Block : pnext'[p] = c <=> c \in Branch(b) /\ Prev[c] = p
  <2> SUFFICES ASSUME NEW p \in Block, NEW c \in Block
               PROVE  pnext'[p] = c <=> c \in Branch(b) /\ Prev[c] = p
    OBVIOUS
  <2>1. pnext'[p] = IF p = pindexBest THEN b ELSE pnext[p]
    BY <1>1 DEF IInv, TypeOK
  <2>2. pnext[p] = c <=> c \in Branch(Prev[b]) /\ Prev[c] = p
    BY <1>1 DEF IInv, Settled
  <2>3. c \in Branch(b) /\ Prev[c] = Prev[b] => c = b
    BY <1>1, AncStep, PathUnique DEF Branch
  <2> QED
    BY <1>1, <2>1, <2>2, <2>3, BranchStep
<1>9. Settled'
  BY <1>1, <1>4, <1>5, <1>6, <1>8 DEF Settled
<1>10. BestBranchStored'
  <2>1. Anc[b] = Anc[pindexBest] \cup {b}
    BY <1>1, AncStep
  <2> QED
    BY <1>1, <1>5, <2>1, EnterKeeps DEF IInv, BestBranchStored
<1>11. txdb'.blockindex \subseteq mapBlockIndex'
  BY <1>1, <1>5, EnterKeeps DEF IInv
<1> QED
  BY <1>1, <1>7, <1>9, <1>10, <1>11, EnterKeeps DEF IInv

LEMMA ExtendFailsInvariant ==
    ASSUME IInv, NEW b \in Block \ {Genesis}, ExtendFails(b)
    PROVE  IInv'
<1>1. /\ phase = "idle" /\ b \notin mapBlockIndex
      /\ orphans' = orphans \ {b}
      /\ blkFile' = blkFile \ {b}
      /\ UNCHANGED <<mapBlockIndex, stubs, dangling, pnext, pindexBest, txdb, view, workQueue,
                     phase, pindexNew, cursor>>
  BY DEF ExtendFails, Acceptable, Idle, Taken
<1>2. TypeOK'
  BY <1>1 DEF IInv, TypeOK
<1>3. LinksLead' /\ DeletedErased'
  BY <1>1 DEF IInv, LinksLead, DeletedErased
<1>4. Settled'
  BY <1>1 DEF IInv, Settled
<1>5. BestBranchStored'
  BY <1>1, Tip DEF IInv, BestBranchStored
<1> QED
  BY <1>1, <1>2, <1>3, <1>4, <1>5 DEF IInv

LEMMA StartReorganizeInvariant ==
    ASSUME IInv, NEW b \in Block \ {Genesis}, StartReorganize(b)
    PROVE  IInv'
<1>1. /\ Enter(b)
      /\ Height[b] > Height[pindexBest]
      /\ ~ReorganizeRefused(b)
      /\ phase' = "reorg" /\ pindexNew' = b /\ cursor' = pindexBest
      /\ view' = Recorded(txdb, b)
      /\ UNCHANGED <<stubs, dangling, pnext, pindexBest, txdb, workQueue>>
  BY DEF StartReorganize
<1>2. view' \in TxDB /\ Replays(view', pindexBest)
  BY <1>1, EnterKeeps, RecordedReplays, Tip DEF IInv, Settled, TypeOK
<1>3. view'.blockindex = txdb.blockindex \cup {b}
  BY <1>1 DEF Recorded, IInv, TypeOK, TxDB
<1>4. TypeOK'
  BY <1>1, <1>2, EnterKeeps, Tip DEF IInv, TypeOK, Phase
<1>5. Settled'
  BY <1>1 DEF IInv, Settled
<1>6. BestBranchStored'
  BY <1>1, EnterKeeps DEF IInv, BestBranchStored
<1>7. CursorStored'
  BY <1>1, <1>3, <1>6 DEF CursorStored, BestBranchStored
<1>8. Reorganizing'
  BY <1>1, <1>2, <1>3, <1>7, EnterKeeps DEF IInv, Settled, Reorganizing, ReorganizeRefused
<1> QED
  BY <1>1, <1>4, <1>5, <1>6, <1>8, EnterKeeps DEF IInv

-----------------------------------------------------------------------------
\* Steps of Reorganize that change nothing but the view and the cursor.
LEMMA StepInvariant ==
    ASSUME IInv, phase = "reorg", view' \in TxDB, cursor' \in Block, Reorganizing',
           UNCHANGED <<mapBlockIndex, stubs, dangling, pnext, pindexBest, txdb, blkFile,
                       orphans, workQueue, phase, pindexNew>>
    PROVE  IInv'
<1>1. TypeOK'
  BY DEF IInv, TypeOK
<1>2. Settled'
  BY DEF IInv, Settled
<1>3. LinksLead' /\ DeletedErased' /\ BestBranchStored'
  BY DEF IInv, LinksLead, DeletedErased, BestBranchStored
<1> QED
  BY <1>1, <1>2, <1>3 DEF IInv

LEMMA DisconnectStepInvariant ==
    ASSUME IInv, DisconnectStep
    PROVE  IInv'
<1>1. /\ phase = "reorg" /\ ~OnNewBranch(cursor)
      /\ view' = Disconnected(view, cursor)
      /\ cursor' = Prev[cursor]
      /\ UNCHANGED <<mapBlockIndex, stubs, dangling, pnext, pindexBest, txdb, blkFile,
                     orphans, workQueue, phase, pindexNew>>
  BY DEF DisconnectStep
<1>2. /\ Reorganizing /\ view \in TxDB
      /\ pindexNew \in Block /\ pindexBest \in Block /\ cursor \in Block
  BY <1>1 DEF IInv, TypeOK
<1>3. cursor # Genesis
  BY <1>1, <1>2, GenesisAnc DEF OnNewBranch, Deleted, IInv, LinksLead
<1>4. view' \in TxDB /\ Replays(view', Prev[cursor]) /\ ValidBranch(Prev[cursor])
  BY <1>1, <1>2, <1>3, DisconnectedReplays, ValidPrefix DEF Reorganizing
<1>5. view'.blockindex = view.blockindex \cup {Prev[cursor]}
  BY <1>1, <1>2 DEF Disconnected, TxDB
<1>6. Prev[cursor] \in Block /\ Anc[cursor] = Anc[Prev[cursor]] \cup {cursor}
      /\ Prev[cursor] \in Anc[Prev[cursor]] /\ cursor \notin Anc[Prev[cursor]]
  BY <1>2, <1>3, AncStep, ChildNotAnc
<1>7. CursorStored'
  BY <1>1, <1>2, <1>5, <1>6 DEF Reorganizing, CursorStored
<1>8. ASSUME NEW a \in Anc[pindexNew] \cap Anc[pindexBest]
      PROVE  a \in Anc[Prev[cursor]] \/ Deleted(a, pindexNew)
  BY <1>1, <1>2, <1>6 DEF Reorganizing, OnNewBranch
<1>9. Reorganizing'
  BY <1>1, <1>2, <1>4, <1>5, <1>6, <1>7, <1>8 DEF Reorganizing, CursorStored, Deleted
<1> QED
  BY <1>1, <1>4, <1>6, <1>9, StepInvariant

LEMMA ConnectStepInvariant ==
    ASSUME IInv, ConnectStep
    PROVE  IInv'
<1>1. PICK c \in Block : /\ c \in Anc[pindexNew] /\ Prev[c] = cursor
                         /\ Readable(c)
                         /\ Connects(view, c)
                         /\ view' = Connected(view, c)
                         /\ cursor' = c
  BY DEF ConnectStep, NextToConnect
<1>2. /\ phase = "reorg" /\ OnNewBranch(cursor)
      /\ UNCHANGED <<mapBlockIndex, stubs, dangling, pnext, pindexBest, txdb, blkFile,
                     orphans, workQueue, phase, pindexNew>>
  BY DEF ConnectStep
<1>3. /\ Reorganizing /\ view \in TxDB
      /\ pindexNew \in Block /\ pindexBest \in Block /\ cursor \in Block
  BY <1>2 DEF IInv, TypeOK
<1>4. c # Genesis /\ Anc[c] = Anc[cursor] \cup {c} /\ c \notin Anc[cursor]
  BY <1>1, <1>3, AncStep, ChildNotAnc, TreeAssumption
<1>5. view' \in TxDB /\ Replays(view', c) /\ ValidBranch(c)
  BY <1>1, <1>3, <1>4, ConnectedReplays, ConnectedValid DEF Reorganizing
<1>6. view'.blockindex = view.blockindex \cup {cursor}
  BY <1>1, <1>3 DEF Connected, TxDB
<1>7. c \notin dangling
  BY <1>1, <1>2 DEF OnNewBranch, Deleted
<1>8. c \in blkFile /\ ~Deleted(c, pindexNew)
  BY <1>1 DEF Readable
<1>9. c \in mapBlockIndex
  <2>1. CASE Anc[pindexNew] \cap dangling = {}
    <3>1. \A a \in (Anc[pindexNew] \cap mapBlockIndex) \ {Genesis} : Prev[a] \in mapBlockIndex
      BY <1>3, <2>1 DEF IInv, LinksLead, Reorganizing
    <3>2. pindexNew \in mapBlockIndex
      BY <1>3 DEF Reorganizing
    <3> QED
      BY <1>1, <1>3, <3>1, <3>2, AncClosed
  <2>2. CASE Anc[pindexNew] \cap dangling # {}
    <3>1. PICK d \in Anc[pindexNew] \cap dangling : TRUE
      BY <2>2
    <3>2. d \notin Anc[cursor]
      BY <1>3, <3>1 DEF Reorganizing, CursorStored
    <3>3. c \in Anc[d]
      <4>1. d \in Block /\ cursor \in Anc[pindexNew]
        BY <1>2, <1>3, <3>1, AncStep DEF OnNewBranch
      <4>2. ~(Height[d] <= Height[cursor])
        BY <1>3, <3>1, <3>2, <4>1, AncChain
      <4>3. Height[c] <= Height[d]
        BY <1>1, <1>3, <1>4, <4>1, <4>2, AncStep
      <4> QED
        BY <1>1, <1>3, <3>1, <4>3, AncChain
    <3> QED
      BY <1>8, <3>1, <3>3 DEF IInv, DeletedErased
  <2> QED
    BY <2>1, <2>2
<1>10. CursorStored'
  BY <1>1, <1>2, <1>3, <1>4, <1>6, <1>7, <1>8, <1>9 DEF Reorganizing, CursorStored
<1>11. cursor \in mapBlockIndex
  BY <1>3, AncStep DEF Reorganizing, CursorStored
<1>12. Reorganizing'
  BY <1>1, <1>2, <1>3, <1>4, <1>5, <1>6, <1>10, <1>11 DEF Reorganizing, Deleted
<1> QED
  BY <1>1, <1>2, <1>5, <1>12, StepInvariant

\* Reorganize gives up: the view is that of the committed database again.
LEMMA AbortInvariant ==
    ASSUME IInv, phase = "reorg", view' = txdb,
           \/ phase' = "idle"
           \/ phase' = "erase" /\ Deleting',
           UNCHANGED <<mapBlockIndex, stubs, dangling, pnext, pindexBest, txdb, blkFile,
                       orphans, workQueue, pindexNew, cursor>>
    PROVE  IInv'
<1>1. TypeOK'
  BY DEF IInv, TypeOK, Phase
<1>2. Settled'
  BY DEF IInv, Settled
<1>3. LinksLead' /\ DeletedErased' /\ BestBranchStored'
  BY DEF IInv, LinksLead, DeletedErased, BestBranchStored
<1> QED
  BY <1>1, <1>2, <1>3 DEF IInv

LEMMA ReadFailsInvariant ==
    ASSUME IInv, ReadFails
    PROVE  IInv'
  BY AbortInvariant DEF ReadFails

\* The block that fails to connect is not in the main chain: if it were, the new
\* branch would reach it as a deleted entry, and such a block cannot be read.
LEMMA ConnectFailsInvariant ==
    ASSUME IInv, ConnectFails
    PROVE  IInv'
<1>1. PICK c \in Block : c \in Anc[pindexNew] /\ Prev[c] = cursor /\ Readable(c)
  BY DEF ConnectFails, NextToConnect
<1>2. /\ phase = "reorg" /\ OnNewBranch(cursor)
      /\ phase' = "erase" /\ view' = txdb
      /\ UNCHANGED <<mapBlockIndex, stubs, dangling, pnext, pindexBest, txdb, blkFile,
                     orphans, workQueue, pindexNew, cursor>>
  BY DEF ConnectFails
<1>3. /\ Reorganizing
      /\ pindexNew \in Block /\ pindexBest \in Block /\ cursor \in Block
  BY <1>2 DEF IInv, TypeOK
<1>4. c # Genesis /\ c \notin Anc[cursor] /\ Height[c] = Height[cursor] + 1
      /\ Height[cursor] \in Nat
  BY <1>1, <1>3, AncStep, ChildNotAnc, TreeAssumption
<1>5. cursor \in Anc[pindexNew] \ {pindexNew}
  BY <1>1, <1>2, <1>3, <1>4 DEF OnNewBranch
<1>6. ASSUME NEW a \in Anc[pindexNew] \cap Anc[pindexBest], a \notin Anc[cursor]
      PROVE  FALSE
  <2>1. a \in Block /\ Height[a] \in Nat
    BY <1>3, AncStep
  <2>2. ~(Height[a] <= Height[cursor])
    BY <1>3, <1>5, <1>6, AncChain
  <2>3. c \in Anc[a]
    BY <1>1, <1>3, <1>4, <2>1, <2>2, AncChain
  <2>4. c \in Anc[pindexBest]
    BY <1>3, <2>3, AncTrans
  <2> QED
    BY <1>1, <1>3, <1>4, <2>4 DEF Reorganizing, Readable
<1>7. Deleting'
  BY <1>2, <1>3, <1>5, <1>6 DEF Reorganizing, CursorStored, Deleting
<1> QED
  BY <1>2, <1>7, AbortInvariant

\* The block to be deleted next: not in the main chain, and not a stub.
LEMMA Doomed ==
    ASSUME IInv, phase \in {"erase", "unindex"}, NEW c \in Block, NextToConnect(c)
    PROVE  /\ c # Genesis /\ c \in Anc[pindexNew] /\ Prev[c] = cursor
           /\ Anc[c] = Anc[cursor] \cup {c}
           /\ c \notin Anc[pindexBest] /\ c \notin stubs
           /\ cursor \in Block /\ pindexNew \in Block /\ pindexBest \in Block
<1>1. /\ Deleting
      /\ cursor \in Block /\ pindexNew \in Block /\ pindexBest \in Block
  BY DEF IInv, TypeOK
<1>2. c \in Anc[pindexNew] /\ Prev[c] = cursor
  BY DEF NextToConnect
<1>3. c # Genesis /\ c \notin Anc[cursor] /\ Anc[c] = Anc[cursor] \cup {c}
  BY <1>1, <1>2, AncStep, ChildNotAnc, TreeAssumption
<1> QED
  BY <1>1, <1>2, <1>3 DEF Deleting

LEMMA EraseStepInvariant ==
    ASSUME IInv, EraseStep
    PROVE  IInv'
<1>1. PICK c \in Block : NextToConnect(c) /\ blkFile' = blkFile \ {c}
  BY DEF EraseStep
<1>2. /\ phase = "erase" /\ phase' = "unindex"
      /\ UNCHANGED <<mapBlockIndex, stubs, dangling, pnext, pindexBest, txdb, view,
                     orphans, workQueue, pindexNew, cursor>>
  BY DEF EraseStep
<1>3. TypeOK'
  BY <1>1, <1>2 DEF IInv, TypeOK, Phase
<1>4. LinksLead' /\ DeletedErased'
  BY <1>1, <1>2 DEF IInv, LinksLead, DeletedErased
<1>5. Settled'
  BY <1>2 DEF IInv, Settled
<1>6. BestBranchStored'
  BY <1>1, <1>2, Doomed DEF IInv, BestBranchStored
<1>7. \A d \in Block : NextToConnect(d) => d = c
  BY <1>1, <1>2, Doomed, PathUnique
<1>8. Deleting'
  BY <1>1, <1>2, <1>7 DEF IInv, Deleting, NextToConnect
<1> QED
  BY <1>2, <1>3, <1>4, <1>5, <1>6, <1>8 DEF IInv

LEMMA UnindexStepInvariant ==
    ASSUME IInv, UnindexStep
    PROVE  IInv'
<1>1. PICK c \in Block :
          /\ NextToConnect(c)
          /\ txdb' = [txdb EXCEPT !.blockindex = @ \ {c}]
          /\ view' = txdb'
          /\ mapBlockIndex' = mapBlockIndex \ {c}
          /\ dangling' = (dangling \cup {d \in mapBlockIndex : Prev[d] = c}) \ {c}
          /\ cursor' = c
          /\ phase' = IF c = pindexNew THEN "idle" ELSE "erase"
  BY DEF UnindexStep
<1>2. /\ phase = "unindex"
      /\ UNCHANGED <<stubs, pnext, pindexBest, blkFile, orphans, workQueue, pindexNew>>
  BY DEF UnindexStep
<1>3. /\ Deleting /\ txdb \in TxDB /\ c \notin blkFile
  BY <1>1, <1>2 DEF IInv, TypeOK, Deleting
<1>4. /\ txdb' \in TxDB
      /\ txdb'.blockindex = txdb.blockindex \ {c}
      /\ txdb'.hashBestChain = txdb.hashBestChain
      /\ txdb'.pos = txdb.pos /\ txdb'.vSpent = txdb.vSpent /\ txdb'.hashNext = txdb.hashNext
  BY <1>1, <1>3 DEF TxDB
<1>5. TypeOK'
  BY <1>1, <1>2, <1>4 DEF IInv, TypeOK, Phase
<1>6. LinksLead'
  <2>1. stubs' \cup dangling' \subseteq mapBlockIndex'
    BY <1>1, <1>2, Doomed DEF IInv, LinksLead
  <2>2. \A b \in mapBlockIndex' \ (stubs' \cup dangling' \cup {Genesis}) : Prev[b] \in mapBlockIndex'
    BY <1>1, <1>2 DEF IInv, LinksLead
  <2>3. \A d \in dangling' : Prev[d] \notin {NoBlock, Genesis}
    BY <1>1, <1>2, Doomed, TreeAssumption DEF IInv, LinksLead
  <2> QED
    BY <2>1, <2>2, <2>3 DEF LinksLead
<1>7. Anc[c] \cap blkFile' \subseteq mapBlockIndex'
  BY <1>1, <1>2, <1>3, Doomed DEF Deleting
<1>8. DeletedErased'
  <2> SUFFICES ASSUME NEW d \in dangling' PROVE Anc[d] \cap blkFile' \subseteq mapBlockIndex'
    BY DEF DeletedErased
  <2>1. CASE d \in dangling
    BY <1>1, <1>2, <1>3, <2>1 DEF IInv, DeletedErased
  <2>2. CASE d \in mapBlockIndex \ {c} /\ Prev[d] = c
    <3>1. d \in Block \ {Genesis}
      BY <1>1, <2>2, TreeAssumption DEF IInv, TypeOK
    <3>2. Anc[d] = Anc[c] \cup {d}
      BY <2>2, <3>1, AncStep
    <3> QED
      BY <1>1, <1>7, <2>2, <3>2
  <2> QED
    BY <1>1, <2>1, <2>2
<1>9. Settled'
  BY <1>1, <1>2, <1>4 DEF IInv, Settled, Replays
<1>10. BestBranchStored'
  <2>1. \A d \in Anc[pindexBest] : Prev[d] # c
    BY <1>1, <1>2, Doomed, AncPrev, TreeAssumption
  <2> QED
    BY <1>1, <1>2, <1>4, <2>1, Doomed DEF IInv, BestBranchStored
<1>11. phase' \in {"erase", "unindex"} => Deleting'
  BY <1>1, <1>2, <1>3, <1>7, Doomed DEF Deleting
<1> QED
  BY <1>1, <1>4, <1>5, <1>6, <1>8, <1>9, <1>10, <1>11 DEF IInv

LEMMA CommitReorganizeInvariant ==
    ASSUME IInv, CommitReorganize
    PROVE  IInv'
<1>1. /\ phase = "reorg" /\ cursor = pindexNew
      /\ txdb' = Best(view, pindexNew) /\ view' = txdb'
      /\ pnext' = [p \in Block |-> Relinked(p)]
      /\ pindexBest' = pindexNew
      /\ phase' = "idle"
      /\ workQueue' = Append(workQueue, pindexNew)
      /\ UNCHANGED <<mapBlockIndex, stubs, dangling, blkFile, orphans, pindexNew, cursor>>
  BY DEF CommitReorganize
<1>2. /\ Reorganizing /\ view \in TxDB
      /\ pindexNew \in Block /\ pindexBest \in Block
      /\ pnext \in [Block -> Block \cup {NoBlock}]
  BY <1>1 DEF IInv, TypeOK
<1>3. /\ txdb' \in TxDB /\ txdb'.hashBestChain = pindexNew
      /\ txdb'.blockindex = view.blockindex
      /\ txdb'.pos = view.pos /\ txdb'.vSpent = view.vSpent /\ txdb'.hashNext = view.hashNext
  BY <1>1, <1>2 DEF Best, TxDB
<1>4. Replays(txdb', pindexNew) /\ ValidBranch(pindexNew)
  BY <1>1, <1>2, <1>3 DEF Reorganizing, Replays
<1>5. ASSUME NEW p \in Block
      PROVE  /\ Relinked(p) \in Block \cup {NoBlock}
             /\ \A b \in Block : Relinked(p) = b <=> b \in Branch(pindexNew) /\ Prev[b] = p
  <2> DEFINE old == {c \in Anc[pindexBest] \ Anc[pindexNew] : Prev[c] = p}
             new == {c \in Anc[pindexNew] \ Anc[pindexBest] : Prev[c] = p}
  <2>1. Relinked(p) = IF new # {} THEN CHOOSE c \in new : TRUE
                      ELSE IF old # {} THEN NoBlock ELSE pnext[p]
    BY DEF Relinked
  <2>2. \A c, d \in Anc[pindexNew] : Prev[c] = p /\ Prev[d] = p => c = d
    BY <1>2, PathUnique
  <2>3. \A c, d \in Anc[pindexBest] : Prev[c] = p /\ Prev[d] = p => c = d
    BY <1>2, PathUnique
  <2>4. \A c \in Block : pnext[p] = c <=> c \in Branch(pindexBest) /\ Prev[c] = p
    BY DEF IInv, Settled
  <2>5. \A c \in Anc[pindexNew] \cup Anc[pindexBest] : Prev[c] = p => c \in Block \ {Genesis}
    BY <1>2, AncStep, TreeAssumption
  <2> HIDE DEF old, new
  <2>6. CASE new # {}
    <3>1. Relinked(p) \in new
      BY <2>1, <2>6
    <3> QED
      BY <2>2, <2>5, <3>1 DEF new, Branch
  <2>7. CASE new = {} /\ old # {}
    <3>1. PICK c \in old : TRUE
      BY <2>7
    <3>2. \A b \in Anc[pindexNew] : Prev[b] # p
      BY <2>3, <2>7, <3>1 DEF new, old
    <3> QED
      BY <2>1, <2>7, <3>2, TreeAssumption DEF Branch
  <2>8. CASE new = {} /\ old = {}
    <3>1. \A b \in Block : b \in Anc[pindexNew] /\ Prev[b] = p <=> b \in Anc[pindexBest] /\ Prev[b] = p
      BY <2>8 DEF new, old
    <3> QED
      BY <1>2, <2>1, <2>4, <2>8, <3>1 DEF Branch
  <2> QED
    BY <2>6, <2>7, <2>8
<1>6. TypeOK'
  BY <1>1, <1>2, <1>3, <1>5 DEF IInv, TypeOK, Phase
<1>7. LinksLead' /\ DeletedErased'
  BY <1>1 DEF IInv, LinksLead, DeletedErased
<1>8. Settled'
  BY <1>1, <1>3, <1>4, <1>5 DEF Settled
<1>9. BestBranchStored'
  BY <1>1, <1>2, <1>3 DEF BestBranchStored, Reorganizing, CursorStored
<1>10. txdb'.blockindex \subseteq mapBlockIndex'
  BY <1>1, <1>2, <1>3 DEF Reorganizing
<1> QED
  BY <1>1, <1>6, <1>7, <1>8, <1>9, <1>10 DEF IInv

LEMMA RestartInvariant ==
    ASSUME IInv, Restart
    PROVE  IInv'
<1> DEFINE records == txdb.blockindex
           named   == {Prev[b] : b \in records} \cup {txdb.hashNext[b] : b \in records}
<1>1. /\ mapBlockIndex' = (records \cup named) \ {NoBlock}
      /\ stubs' = (named \ records) \ {NoBlock}
      /\ dangling' = {}
      /\ pnext' = [b \in Block |-> IF b \in records THEN txdb.hashNext[b] ELSE NoBlock]
      /\ pindexBest' = txdb.hashBestChain
      /\ view' = txdb
      /\ orphans' = {} /\ workQueue' = <<>> /\ phase' = "idle"
      /\ UNCHANGED <<txdb, blkFile, pindexNew, cursor>>
  BY DEF Restart
<1>2. /\ txdb \in TxDB /\ records \subseteq Block
      /\ txdb.hashNext \in [Block -> Block \cup {NoBlock}]
      /\ txdb.hashBestChain = pindexBest /\ pindexBest \in Block
      /\ Anc[pindexBest] \subseteq records \cap blkFile
  BY DEF IInv, TypeOK, TxDB, Settled, BestBranchStored
<1>3. named \subseteq Block \cup {NoBlock}
  BY <1>2, TreeAssumption
<1>4. TypeOK'
  BY <1>1, <1>2, <1>3 DEF IInv, TypeOK, Phase
<1>5. LinksLead'
  BY <1>1, <1>2, TreeAssumption DEF LinksLead
<1>6. \A p, b \in Block : pnext'[p] = b <=> b \in Branch(pindexBest) /\ Prev[b] = p
  <2>1. \A p, b \in Block : txdb.hashNext[p] = b <=> b \in Branch(pindexBest) /\ Prev[b] = p
    BY DEF IInv, Settled, Replays
  <2>2. \A b \in Branch(pindexBest) : Prev[b] \in records
    BY <1>2, AncPrev DEF Branch
  <2> QED
    BY <1>1, <2>1, <2>2, TreeAssumption
<1>7. Settled'
  BY <1>1, <1>2, <1>6 DEF IInv, Settled
<1>8. BestBranchStored'
  BY <1>1, <1>2, TreeAssumption, AncStep DEF BestBranchStored
<1>9. txdb'.blockindex \subseteq mapBlockIndex' /\ DeletedErased'
  BY <1>1, <1>2, TreeAssumption DEF DeletedErased
<1> QED
  BY <1>1, <1>4, <1>5, <1>7, <1>8, <1>9 DEF IInv

-----------------------------------------------------------------------------
LEMMA StepPreserves == IInv /\ [Next]_vars => IInv'
<1> SUFFICES ASSUME IInv, [Next]_vars PROVE IInv'
  OBVIOUS
<1>1. ASSUME NEW b \in Block \ {Genesis}, ProcessBlock(b) PROVE IInv'
  <2>1. CASE KeepOrphan(b) \/ RefuseOrphan(b)
    BY <2>1, QueueInvariant DEF KeepOrphan, RefuseOrphan, Taken, IInv, TypeOK
  <2> QED
    BY <1>1, <2>1, AddRejectedInvariant, AddSideBlockInvariant, ExtendBestChainInvariant,
       ExtendFailsInvariant, StartReorganizeInvariant DEF ProcessBlock
<1>2. CASE NextInQueue
  BY <1>2, QueueInvariant DEF NextInQueue, IInv, TypeOK
<1>3. CASE Reorganize
  BY <1>3, DisconnectStepInvariant, ConnectStepInvariant, ReadFailsInvariant, ConnectFailsInvariant,
     EraseStepInvariant, UnindexStepInvariant, CommitReorganizeInvariant DEF Reorganize
<1>4. CASE Restart
  BY <1>4, RestartInvariant
<1>5. CASE UNCHANGED vars
  BY <1>5, QueueInvariant DEF vars, IInv, TypeOK
<1> QED
  BY <1>1, <1>2, <1>3, <1>4, <1>5 DEF Next

\* IInv holds in every reachable state, for every tree of blocks and every choice
\* of the parameters.
THEOREM Invariant == Spec => []IInv
<1>1. Init => IInv
  BY InitInvariant
<1>2. IInv /\ [Next]_vars => IInv'
  BY StepPreserves
<1> QED
  BY <1>1, <1>2, PTL DEF Spec

\* The variables keep their types.
THEOREM TypeCorrect == Spec => []TypeOK
<1>1. IInv => TypeOK
  BY DEF IInv
<1> QED
  BY <1>1, Invariant, PTL

\* blkindex.dat is a function of the best chain, in every state between and within
\* reorganizations, deletions of branches and restarts.
THEOREM IndexReplays == Spec => []IndexReplaysChain
<1>1. IInv => IndexReplaysChain
  BY DEF IInv, Settled, Reorganizing, IndexReplaysChain
<1> QED
  BY <1>1, Invariant, PTL

\* pnext links the main chain and nothing else.
THEOREM MainChainLinks == Spec => []MainChainLinked
<1>1. IInv => MainChainLinked
  <2> SUFFICES ASSUME IInv, NEW b \in Block
               PROVE  /\ IsInMainChain(b) <=> b \in Anc[pindexBest]
                      /\ pnext[b] # NoBlock => Prev[pnext[b]] = b
    BY DEF MainChainLinked
  <2>1. /\ pindexBest \in Block /\ pnext[b] \in Block \cup {NoBlock}
        /\ \A c \in Block : pnext[b] = c <=> c \in Branch(pindexBest) /\ Prev[c] = b
    BY DEF IInv, TypeOK, Settled
  <2>2. CASE pnext[b] # NoBlock
    <3>1. pnext[b] \in Branch(pindexBest) /\ Prev[pnext[b]] = b
      BY <2>1, <2>2
    <3> QED
      BY <2>1, <2>2, <3>1, AncPrev DEF Branch, IsInMainChain
  <2>3. CASE pnext[b] = NoBlock
    <3>1. b \in Anc[pindexBest] => b = pindexBest
      BY <2>1, <2>3, PathChild, AncStep, TreeAssumption DEF Branch
    <3> QED
      BY <2>1, <2>3, <3>1, AncStep DEF IsInMainChain
  <2> QED
    BY <2>2, <2>3
<1> QED
  BY <1>1, Invariant, PTL

\* The deletion of an invalid branch and the loading of an index with holes never
\* touch the best chain.
THEOREM BestBranchStays == Spec => []BestBranchStored
<1>1. IInv => BestBranchStored
  BY DEF IInv
<1> QED
  BY <1>1, Invariant, PTL

\* A restart, wherever it interrupts the node, gives back the tip and the links.
THEOREM RestartKeepsChain == Spec => RestartRestores
<1>1. IInv /\ [Next]_vars => [Restart => pindexBest' = pindexBest /\ pnext' = pnext]_vars
  <2> SUFFICES ASSUME IInv, Restart PROVE pindexBest' = pindexBest /\ pnext' = pnext
    OBVIOUS
  <2>1. pindexBest' = pindexBest
    BY DEF Restart, IInv, Settled
  <2>2. pnext' \in [Block -> Block \cup {NoBlock}] /\ pnext \in [Block -> Block \cup {NoBlock}]
    BY RestartInvariant DEF IInv, TypeOK
  <2>3. ASSUME NEW p \in Block PROVE pnext'[p] = pnext[p]
    <3>1. \A b \in Block : pnext[p] = b <=> pnext'[p] = b
      BY <2>1, RestartInvariant DEF IInv, Settled
    <3> QED
      BY <2>2, <3>1
  <2> QED
    BY <2>1, <2>2, <2>3
<1> QED
  BY <1>1, Invariant, PTL DEF Spec, RestartRestores

-----------------------------------------------------------------------------
\* A database that replays a branch holds the transactions and the spent outputs
\* of that branch.
LEMMA ReplayedLedger ==
    ASSUME NEW db \in TxDB, NEW tip \in Block, Replays(db, tip)
    PROVE  /\ {t \in Tx : db.pos[t] # NoBlock} = UNION {TxsOf(a) : a \in Branch(tip)}
           /\ {o \in OutPoint : db.vSpent[o] # NoBlock} = UNION {Spends(a) : a \in Branch(tip)}
<1>1. \A a \in Branch(tip) : a \in Block /\ a # NoBlock
  BY AncStep, TreeAssumption DEF Branch
<1>2. \A t \in Tx : db.pos[t] # NoBlock <=> \E a \in Branch(tip) : t \in TxsOf(a)
  BY <1>1 DEF Replays, TxDB
<1>3. \A o \in OutPoint : db.vSpent[o] # NoBlock <=> \E a \in Branch(tip) : o \in Spends(a)
  BY <1>1 DEF Replays, TxDB
<1>4. \A a \in Branch(tip) : TxsOf(a) \subseteq Tx /\ Spends(a) \subseteq OutPoint
  BY <1>1, Elements
<1>5. {t \in Tx : db.pos[t] # NoBlock} = UNION {TxsOf(a) : a \in Branch(tip)}
  BY <1>2, <1>4
<1>6. {o \in OutPoint : db.vSpent[o] # NoBlock} = UNION {Spends(a) : a \in Branch(tip)}
  BY <1>3, <1>4
<1> QED
  BY <1>5, <1>6

\* Ledger and BlockChain mean the same by a branch.
LEMMA LedgerOperators ==
    ASSUME NEW b \in Block
    PROVE  /\ L!Branch(b) = Branch(b)
           /\ L!TxsOf(b) = TxsOf(b)
           /\ L!Spends(b) = Spends(b)
           /\ L!ValidBranch(b) <=> ValidBranch(b)
  BY DEF L!Branch, Branch, L!TxsOf, TxsOf, L!Spends, Spends, L!Inputs, Inputs, L!ValidBranch,
         ValidBranch, L!InputsExist, InputsExist, L!NoDoubleSpend, NoDoubleSpend

\* The steps that commit a new best chain adopt a higher valid branch, whole.
LEMMA CommitsAdopt ==
    ASSUME IInv, IInv', txdb'.hashBestChain # txdb.hashBestChain,
           Height[txdb'.hashBestChain] > Height[txdb.hashBestChain]
    PROVE  L!Next
<1>1. /\ txdb'.hashBestChain = pindexBest' /\ pindexBest' \in Block /\ txdb' \in TxDB
      /\ Replays(txdb', pindexBest') /\ ValidBranch(pindexBest')
  BY DEF IInv, Settled, TypeOK
<1>2. PICK b \in Block : b = pindexBest'
  BY <1>1
<1>3. /\ {t \in Tx : txdb'.pos[t] # NoBlock} = UNION {TxsOf(a) : a \in Branch(b)}
      /\ {o \in OutPoint : txdb'.vSpent[o] # NoBlock} = UNION {Spends(a) : a \in Branch(b)}
  BY <1>1, <1>2, ReplayedLedger
<1>4. \A a \in Branch(b) : L!TxsOf(a) = TxsOf(a) /\ L!Spends(a) = Spends(a)
  BY AncStep, LedgerOperators DEF Branch
<1>5. /\ UNION {L!TxsOf(a) : a \in L!Branch(b)} = UNION {TxsOf(a) : a \in Branch(b)}
      /\ UNION {L!Spends(a) : a \in L!Branch(b)} = UNION {Spends(a) : a \in Branch(b)}
  BY <1>4, LedgerOperators
<1>6. L!Adopt(b)
  BY <1>1, <1>2, <1>3, <1>5, LedgerOperators DEF L!Adopt
<1> QED
  BY <1>6 DEF L!Next

\* The transaction database, changed block by block, implements the ledger that
\* moves from one valid branch to a higher one in a single step.
THEOREM Refinement == Spec => ImplementsLedger
<1>1. Init => L!Init
  BY DEF Init, GenesisDB, L!Init
<1>2. IInv /\ IInv' /\ [Next]_vars => [L!Next]_(L!ledgerVars)
  <2> SUFFICES ASSUME IInv, IInv', [Next]_vars PROVE L!Next \/ UNCHANGED L!ledgerVars
    OBVIOUS
  <2>1. txdb \in TxDB /\ txdb.hashBestChain = pindexBest
    BY DEF IInv, TypeOK, Settled
  <2> DEFINE Same == txdb'.hashBestChain = txdb.hashBestChain /\ txdb'.pos = txdb.pos
                     /\ txdb'.vSpent = txdb.vSpent
  <2>2. Same => UNCHANGED L!ledgerVars
    BY DEF L!ledgerVars
  <2>3. ASSUME NEW b \in Block \ {Genesis}, ProcessBlock(b) PROVE L!Next \/ Same
    <3>1. CASE ExtendBestChain(b)
      <4>1. pindexBest' = b /\ Height[b] > Height[pindexBest]
        BY <3>1, AncStep DEF ExtendBestChain
      <4>2. txdb'.hashBestChain = b
        BY <4>1 DEF IInv, Settled
      <4> QED
        BY <2>1, <4>1, <4>2, AncStep, CommitsAdopt DEF IInv, TypeOK
    <3>2. CASE AddSideBlock(b)
      BY <2>1, <3>2 DEF AddSideBlock, Recorded, TxDB
    <3>3. CASE KeepOrphan(b) \/ RefuseOrphan(b) \/ AddRejected(b) \/ ExtendFails(b) \/ StartReorganize(b)
      BY <3>3 DEF KeepOrphan, RefuseOrphan, AddRejected, ExtendFails, StartReorganize
    <3> QED
      BY <2>3, <3>1, <3>2, <3>3 DEF ProcessBlock
  <2>4. CASE CommitReorganize
    <3>1. pindexBest' = pindexNew /\ Height[pindexNew] > Height[pindexBest]
      BY <2>4 DEF CommitReorganize, IInv, Reorganizing
    <3>2. txdb'.hashBestChain = pindexNew
      BY <3>1 DEF IInv, Settled
    <3> QED
      BY <2>1, <3>1, <3>2, AncStep, CommitsAdopt DEF IInv, TypeOK
  <2>5. CASE UnindexStep
    BY <2>1, <2>2, <2>5 DEF UnindexStep, TxDB
  <2>6. CASE NextInQueue \/ Restart \/ DisconnectStep \/ ConnectStep \/ ReadFails \/ ConnectFails
             \/ EraseStep \/ UNCHANGED vars
    BY <2>2, <2>6 DEF NextInQueue, Restart, DisconnectStep, ConnectStep, ReadFails, ConnectFails,
                      EraseStep, vars
  <2> QED
    BY <2>2, <2>3, <2>4, <2>5, <2>6 DEF Next, Reorganize
<1> QED
  BY <1>1, <1>2, Invariant, PTL DEF Spec, ImplementsLedger, L!Spec

-----------------------------------------------------------------------------
(* The memory pool beside it: what its operations do to its index.         *)

\* A transaction that is replaced spends what its replacement spends.
LEMMA Replaced ==
    ASSUME NEW t \in Tx, NoConflict(t), NEW u \in Conflicts(t)
    PROVE  Inputs(u) = Inputs(t)
<1>1. PICK w \in Tx : <<t, w>> \in Newer /\ \A o \in Inputs(t) : mapNextTx[o] = w
  BY DEF NoConflict
<1>2. u = w
  BY <1>1 DEF Conflicts
<1>3. Vin[t] = Vin[w]
  BY <1>1, PoolAssumption
<1> QED
  BY <1>2, <1>3 DEF Inputs

\* NextTxValid of a pool and an index.
IndexValid(pool, next) ==
    \A o \in OutPoint : next[o] # NoTx => next[o] \in pool /\ o \in Inputs(next[o])

\* Acceptance of transactions that fit keeps the index valid.
LEMMA AddedValid ==
    ASSUME NextTxValid, NEW S \in SUBSET Tx, \A t \in S : Fits(t)
    PROVE  IndexValid(Added(S), NextAdded(S))
<1> SUFFICES ASSUME NEW o \in OutPoint, NextAdded(S)[o] # NoTx
             PROVE  NextAdded(S)[o] \in Added(S) /\ o \in Inputs(NextAdded(S)[o])
  BY DEF IndexValid
<1>1. CASE \E t \in S : o \in Inputs(t)
  <2>1. NextAdded(S)[o] \in S /\ o \in Inputs(NextAdded(S)[o])
    BY <1>1 DEF NextAdded
  <2> QED
    BY <2>1 DEF Added
<1>2. CASE \A t \in S : o \notin Inputs(t)
  <2>1. NextAdded(S)[o] = mapNextTx[o]
    BY <1>2 DEF NextAdded
  <2>2. mapNextTx[o] \in mapTransactions /\ o \in Inputs(mapNextTx[o])
    BY <2>1 DEF NextTxValid
  <2>3. \A t \in S : mapNextTx[o] \notin Conflicts(t)
    BY <1>2, <2>2, Replaced DEF Fits
  <2> QED
    BY <2>1, <2>2, <2>3 DEF Added
<1> QED
  BY <1>1, <1>2

\* So does removal, whichever entries it takes along.
LEMMA RemovedValid ==
    ASSUME NEW pool, NEW next, NEW S, IndexValid(pool, next)
    PROVE  IndexValid(Removed(pool, S), NextRemoved(next, S))
<1> SUFFICES ASSUME NEW o \in OutPoint, NextRemoved(next, S)[o] # NoTx
             PROVE  /\ NextRemoved(next, S)[o] \in Removed(pool, S)
                    /\ o \in Inputs(NextRemoved(next, S)[o])
  BY DEF IndexValid
<1>1. (\A t \in S : o \notin Inputs(t)) /\ NextRemoved(next, S)[o] = next[o]
  BY DEF NextRemoved
<1>2. next[o] \in pool /\ o \in Inputs(next[o])
  BY <1>1 DEF IndexValid
<1> QED
  BY <1>1, <1>2 DEF Removed

-----------------------------------------------------------------------------
(* The chain's part of a step is a step of BlockChain.                      *)

\* Composed with the pool the block chain behaves as it does alone.
THEOREM ChainPart == NodeSpec => Spec
<1>1. NodeInit => Init
  BY DEF NodeInit
<1>2. [NodeNext]_nodeVars => [Next]_vars
  <2> SUFFICES ASSUME [NodeNext]_nodeVars PROVE [Next]_vars
    OBVIOUS
  <2>1. ASSUME NEW b \in Block \ {Genesis}, BlockMessage(b) PROVE ProcessBlock(b)
    BY <2>1 DEF BlockMessage, ConfirmBlock, ProcessBlock
  <2>2. CASE ChainStep
    BY <2>2 DEF ChainStep, SwitchBranch, Next, Reorganize
  <2>3. CASE RestartNode
    BY <2>3 DEF RestartNode, Next
  <2>4. CASE TxMessage
    BY <2>4 DEF TxMessage
  <2>5. CASE UNCHANGED nodeVars
    BY <2>5 DEF nodeVars
  <2> QED
    BY <2>1, <2>2, <2>3, <2>4, <2>5 DEF NodeNext, Next
<1> QED
  BY <1>1, <1>2, PTL DEF NodeSpec, Spec

-----------------------------------------------------------------------------
(* The parts of NodeNext, by what they do to the pool.                      *)

\* A tx message leaves the chain alone, and accepts one transaction or none.
LEMMA TxMessageSteps ==
    ASSUME PoolTypeOK, TxMessage
    PROVE  /\ UNCHANGED vars
           /\ \/ UNCHANGED <<mapTransactions, mapNextTx>>
              \/ \E t \in Tx : Fits(t) /\ ~Confirmed(t) /\ Acceptance(t)
<1>1. UNCHANGED vars
  BY DEF TxMessage
<1>2. ASSUME NEW t \in Heard, TxAccepted(t, Confirmed(t), ConnectsLoose(t))
      PROVE  t \in Tx /\ Fits(t) /\ ~Confirmed(t) /\ Acceptance(t)
  BY <1>2, PoolAssumption DEF TxAccepted
<1>3. ASSUME NEW t \in Heard, TxHeld(t, Confirmed(t), ConnectsLoose(t))
      PROVE  UNCHANGED <<mapTransactions, mapNextTx>>
  BY <1>3 DEF TxHeld
<1>4. ASSUME NEW t \in mapOrphanTransactions, TryOrphan(t, Confirmed(t), ConnectsLoose(t))
      PROVE  \/ UNCHANGED <<mapTransactions, mapNextTx>>
             \/ t \in Tx /\ Fits(t) /\ ~Confirmed(t) /\ Acceptance(t)
  BY <1>4 DEF TryOrphan, PoolTypeOK
<1>5. NextTx \/ FinishTx => UNCHANGED <<mapTransactions, mapNextTx>>
  BY DEF NextTx, FinishTx
<1> QED
  BY <1>1, <1>2, <1>3, <1>4, <1>5 DEF TxMessage

\* The steps that change the pool.
LEMMA PoolSteps ==
    ASSUME PoolTypeOK, [NodeNext]_nodeVars
    PROVE  \/ UNCHANGED <<mapTransactions, mapNextTx>>
           \/ \E b \in Block \ {Genesis} : ConfirmBlock(b)
           \/ \E t \in Tx : Fits(t) /\ ~Confirmed(t) /\ Acceptance(t) /\ UNCHANGED vars
           \/ SwitchBranch
           \/ RestartNode
<1>1. ASSUME NEW b \in Block \ {Genesis}, BlockMessage(b)
      PROVE  ConfirmBlock(b) \/ UNCHANGED <<mapTransactions, mapNextTx>>
  BY <1>1 DEF BlockMessage, poolVars
<1>2. ChainStep => SwitchBranch \/ UNCHANGED <<mapTransactions, mapNextTx>>
  BY DEF ChainStep, poolVars
<1>3. UNCHANGED nodeVars => UNCHANGED <<mapTransactions, mapNextTx>>
  BY DEF nodeVars, poolVars
<1> QED
  BY <1>1, <1>2, <1>3, TxMessageSteps DEF NodeNext

\* What is resurrected fits, and is a transaction.
LEMMA ResurrectedFit == Resurrected \in SUBSET Tx /\ \A t \in Resurrected : Fits(t)
  BY PoolAssumption DEF Resurrected, Fits

-----------------------------------------------------------------------------
(* Type correctness.                                                        *)

LEMMA AddedTypes ==
    ASSUME PoolTypeOK, NEW S \in SUBSET Tx, \A t \in S : Fits(t)
    PROVE  /\ Added(S) \in SUBSET (Standard \ CoinBase)
           /\ NextAdded(S) \in [OutPoint -> Tx \cup {NoTx}]
<1>1. Added(S) \in SUBSET (Standard \ CoinBase)
  BY DEF Added, Fits, PoolTypeOK
<1>2. ASSUME NEW o \in OutPoint PROVE NextAdded(S)[o] \in Tx \cup {NoTx}
  BY DEF NextAdded, PoolTypeOK
<1> QED
  BY <1>1, <1>2 DEF NextAdded

\* The variables of the pool keep their types: in particular no coinbase and no
\* nonstandard transaction enters the pool.
THEOREM PoolTypes == NodeSpec => []PoolTypeOK
<1>1. NodeInit => PoolTypeOK
  BY DEF NodeInit, PoolInit, PoolTypeOK
<1>2. PoolTypeOK /\ [NodeNext]_nodeVars => PoolTypeOK'
  <2> SUFFICES ASSUME PoolTypeOK, [NodeNext]_nodeVars PROVE PoolTypeOK'
    OBVIOUS
  <2> DEFINE PoolPart == /\ mapTransactions' \in SUBSET (Standard \ CoinBase)
                         /\ mapNextTx' \in [OutPoint -> Tx \cup {NoTx}]
             QueuePart == /\ mapOrphanTransactions' \in SUBSET Tx
                          /\ txQueue' \in Seq(Tx)
                          /\ txAccepted' \in SUBSET Tx
                          /\ txTried' \in SUBSET Tx
  <2>1. PoolPart
    <3>1. CASE UNCHANGED <<mapTransactions, mapNextTx>>
      BY <3>1 DEF PoolTypeOK
    <3>2. ASSUME NEW b \in Block, ConfirmBlock(b)
          PROVE  PoolPart
      BY <3>2 DEF ConfirmBlock, Removed, NextRemoved, PoolTypeOK
    <3>3. ASSUME NEW t \in Tx, Fits(t), Acceptance(t) PROVE PoolPart
      BY <3>3, AddedTypes DEF Acceptance
    <3>4. CASE SwitchBranch
      <4>1. /\ Added(Resurrected) \in SUBSET (Standard \ CoinBase)
            /\ NextAdded(Resurrected) \in [OutPoint -> Tx \cup {NoTx}]
        BY AddedTypes, ResurrectedFit
      <4> QED
        BY <3>4, <4>1 DEF SwitchBranch, PoolReorganized, Removed, NextRemoved
    <3>5. CASE RestartNode
      <4>1. PICK S \in SUBSET ((WalletTx \cap Standard) \ CoinBase) :
              /\ mapTransactions' = S
              /\ mapNextTx' = [o \in OutPoint |-> IF \E t \in S : o \in Inputs(t)
                                                  THEN CHOOSE t \in S : o \in Inputs(t) ELSE NoTx]
        BY <3>5 DEF RestartNode
      <4>2. S \subseteq Tx
        BY PoolAssumption
      <4>3. ASSUME NEW o \in OutPoint, \E t \in S : o \in Inputs(t)
            PROVE  (CHOOSE t \in S : o \in Inputs(t)) \in Tx
        BY <4>2, <4>3
      <4> QED
        BY <4>1, <4>3
    <3> QED
      BY <3>1, <3>2, <3>3, <3>4, <3>5, PoolSteps
  <2>2. QueuePart
    <3> DEFINE Kept == UNCHANGED <<mapOrphanTransactions, txQueue, txAccepted, txTried>>
    <3>1. Kept => QueuePart
      BY DEF PoolTypeOK
    <3>2. ASSUME NEW b \in Block, BlockMessage(b) PROVE Kept
      BY <3>2 DEF BlockMessage, ConfirmBlock, poolVars
    <3>3. CASE ChainStep
      BY <3>1, <3>3 DEF ChainStep, SwitchBranch, poolVars
    <3>4. CASE RestartNode
      BY <3>4 DEF RestartNode
    <3>5. CASE TxMessage
      <4>1. ASSUME NEW t \in Heard, TxAccepted(t, Confirmed(t), ConnectsLoose(t)) PROVE QueuePart
        BY <4>1, PoolAssumption DEF TxAccepted, Acceptance, PoolTypeOK
      <4>2. ASSUME NEW t \in Heard, TxHeld(t, Confirmed(t), ConnectsLoose(t)) PROVE QueuePart
        BY <4>2, PoolAssumption DEF TxHeld, PoolTypeOK
      <4>3. ASSUME NEW t \in mapOrphanTransactions, TryOrphan(t, Confirmed(t), ConnectsLoose(t))
            PROVE  QueuePart
        <5>1. t \in Tx /\ mapOrphanTransactions' \in SUBSET Tx /\ txTried' \in SUBSET Tx
          BY <4>3 DEF TryOrphan, PoolTypeOK
        <5> QED
          BY <4>3, <5>1 DEF TryOrphan, Acceptance, PoolTypeOK
      <4>4. CASE NextTx
        BY <4>4 DEF NextTx, PoolTypeOK
      <4>5. CASE FinishTx
        BY <4>5 DEF FinishTx, PoolTypeOK
      <4> QED
        BY <3>5, <4>1, <4>2, <4>3, <4>4, <4>5 DEF TxMessage
    <3>6. CASE UNCHANGED nodeVars
      BY <3>1, <3>6 DEF nodeVars, poolVars
    <3> QED
      BY <3>1, <3>2, <3>3, <3>4, <3>5, <3>6 DEF NodeNext
  <2> QED
    BY <2>1, <2>2 DEF PoolTypeOK
<1> QED
  BY <1>1, <1>2, PTL DEF NodeSpec

-----------------------------------------------------------------------------
(* The index of the pool.                                                   *)

\* mapNextTx never points to a transaction that has been erased.
THEOREM NextTxSound == NodeSpec => []NextTxValid
<1>1. NodeInit => NextTxValid
  BY DEF NodeInit, PoolInit, NextTxValid
<1>2. PoolTypeOK /\ NextTxValid /\ [NodeNext]_nodeVars => NextTxValid'
  <2> SUFFICES ASSUME PoolTypeOK, NextTxValid, [NodeNext]_nodeVars PROVE NextTxValid'
    OBVIOUS
  <2>1. CASE UNCHANGED <<mapTransactions, mapNextTx>>
    BY <2>1 DEF NextTxValid
  <2>2. ASSUME NEW b \in Block, ConfirmBlock(b) PROVE NextTxValid'
    <3>1. IndexValid(mapTransactions, mapNextTx)
      BY DEF IndexValid, NextTxValid
    <3>2. IndexValid(mapTransactions', mapNextTx')
      BY <2>2, <3>1, RemovedValid DEF ConfirmBlock
    <3> QED
      BY <3>2 DEF IndexValid, NextTxValid
  <2>3. ASSUME NEW t \in Tx, Fits(t), Acceptance(t) PROVE NextTxValid'
    <3>1. IndexValid(mapTransactions', mapNextTx')
      BY <2>3, AddedValid DEF Acceptance
    <3> QED
      BY <3>1 DEF IndexValid, NextTxValid
  <2>4. CASE SwitchBranch
    <3>1. IndexValid(Added(Resurrected), NextAdded(Resurrected))
      BY AddedValid, ResurrectedFit
    <3>2. IndexValid(mapTransactions', mapNextTx')
      BY <2>4, <3>1, RemovedValid DEF SwitchBranch, PoolReorganized
    <3> QED
      BY <3>2 DEF IndexValid, NextTxValid
  <2>5. CASE RestartNode
    <3>1. PICK S :
            /\ mapTransactions' = S
            /\ mapNextTx' = [o \in OutPoint |-> IF \E t \in S : o \in Inputs(t)
                                                THEN CHOOSE t \in S : o \in Inputs(t) ELSE NoTx]
      BY <2>5 DEF RestartNode
    <3>2. ASSUME NEW o \in OutPoint, mapNextTx'[o] # NoTx
          PROVE  mapNextTx'[o] \in S /\ o \in Inputs(mapNextTx'[o])
      BY <3>1, <3>2
    <3> QED
      BY <3>1, <3>2 DEF NextTxValid
  <2> QED
    BY <2>1, <2>2, <2>3, <2>4, <2>5, PoolSteps
<1> QED
  BY <1>1, <1>2, PoolTypes, PTL DEF NodeSpec

-----------------------------------------------------------------------------
(* The pool and the chain.                                                  *)

\* What the invariant of the chain says of a reorganization that is about to be
\* committed: positions before and after are those of the two branches.
LEMMA Switched ==
    ASSUME IInv, CommitReorganize
    PROVE  /\ pindexBest \in Block /\ pindexNew \in Block
           /\ \A t \in Tx, b \in Block : txdb.pos[t] = b <=> b \in Branch(pindexBest) /\ t \in TxsOf(b)
           /\ \A t \in Tx, b \in Block : txdb'.pos[t] = b <=> b \in Branch(pindexNew) /\ t \in TxsOf(b)
           /\ \A t \in Tx : /\ txdb.pos[t] \in Block \cup {NoBlock}
                            /\ txdb'.pos[t] \in Block \cup {NoBlock}
<1>1. TypeOK /\ Replays(txdb, pindexBest) /\ Replays(view, pindexNew)
  BY DEF IInv, Settled, Reorganizing, CommitReorganize
<1>2. txdb'.pos = view.pos
  BY <1>1 DEF CommitReorganize, Best, TypeOK, TxDB
<1> QED
  BY <1>1, <1>2 DEF TypeOK, TxDB, Replays

\* Steps of the chain other than the two that connect blocks leave positions alone.
LEMMA PositionsKept ==
    ASSUME IInv, [NodeNext]_nodeVars, ~SwitchBranch,
           \A b \in Block \ {Genesis} : ~ConfirmBlock(b)
    PROVE  txdb'.pos = txdb.pos
<1>1. txdb \in TxDB
  BY DEF IInv, TypeOK
<1>2. ASSUME NEW b \in Block \ {Genesis}, BlockMessage(b) PROVE txdb'.pos = txdb.pos
  <2>1. AddSideBlock(b) => txdb'.pos = txdb.pos
    BY <1>1 DEF AddSideBlock, Recorded, TxDB
  <2>2. KeepOrphan(b) \/ RefuseOrphan(b) \/ AddRejected(b) \/ ExtendFails(b) \/ StartReorganize(b)
          => txdb' = txdb
    BY DEF KeepOrphan, RefuseOrphan, AddRejected, ExtendFails, StartReorganize
  <2> QED
    BY <1>2, <2>1, <2>2 DEF BlockMessage
<1>3. ChainStep => txdb'.pos = txdb.pos
  <2>1. UnindexStep => txdb'.pos = txdb.pos
    BY <1>1 DEF UnindexStep, TxDB
  <2>2. NextInQueue \/ DisconnectStep \/ ConnectStep \/ ReadFails \/ ConnectFails \/ EraseStep
          => txdb' = txdb
    BY DEF NextInQueue, DisconnectStep, ConnectStep, ReadFails, ConnectFails, EraseStep
  <2> QED
    BY <2>1, <2>2 DEF ChainStep
<1>4. RestartNode \/ TxMessage \/ UNCHANGED nodeVars => txdb' = txdb
  BY DEF RestartNode, Restart, TxMessage, nodeVars, vars
<1> QED
  BY <1>2, <1>3, <1>4 DEF NodeNext

\* A block that extends the chain gives positions to its transactions alone.
LEMMA PositionsExtended ==
    ASSUME IInv, NEW b \in Block, ConfirmBlock(b)
    PROVE  \A t \in Tx : txdb'.pos[t] = IF t \in TxsOf(b) THEN b ELSE txdb.pos[t]
<1>1. txdb \in TxDB
  BY DEF IInv, TypeOK
<1> QED
  BY <1>1 DEF ConfirmBlock, ExtendBestChain, Best, Connected, Recorded, TxDB

\* Nothing that is confirmed is in the pool.
THEOREM PoolNotConfirmed == NodeSpec => []PoolUnconfirmed
<1>1. NodeInit => PoolUnconfirmed
  BY DEF NodeInit, PoolInit, PoolUnconfirmed
<1>2. IInv /\ PoolTypeOK /\ PoolUnconfirmed /\ [NodeNext]_nodeVars => PoolUnconfirmed'
  <2> SUFFICES ASSUME IInv, PoolTypeOK, PoolUnconfirmed, [NodeNext]_nodeVars,
                      NEW t \in mapTransactions'
               PROVE  txdb'.pos[t] = NoBlock
    BY DEF PoolUnconfirmed, Confirmed
  <2>1. mapTransactions \subseteq Tx /\ \A u \in mapTransactions : txdb.pos[u] = NoBlock
    BY PoolAssumption DEF PoolTypeOK, PoolUnconfirmed, Confirmed
  <2>2. ASSUME NEW b \in Block, ConfirmBlock(b) PROVE txdb'.pos[t] = NoBlock
    <3>1. t \in mapTransactions /\ t \notin TxsOf(b)
      BY <2>2 DEF ConfirmBlock, Removed
    <3> QED
      BY <2>1, <2>2, <3>1, PositionsExtended
  <2>3. CASE SwitchBranch
    <3>1. CommitReorganize /\ PoolReorganized
      BY <2>3 DEF SwitchBranch
    <3>2. t \in Added(Resurrected) /\ t \notin vDelete
      BY <3>1 DEF PoolReorganized, Removed
    <3>3. t \in Tx /\ (t \in mapTransactions \/ t \in Resurrected)
      BY <2>1, <3>2, ResurrectedFit DEF Added
    <3> SUFFICES ASSUME NEW b \in Block, txdb'.pos[t] = b PROVE FALSE
      BY <3>1, <3>3, Switched
    <3>4. b \in Branch(pindexNew) /\ t \in TxsOf(b)
      BY <3>1, <3>3, Switched
    <3>5. b \in Anc[pindexNew] \cap Anc[pindexBest] /\ b \in Branch(pindexBest)
      BY <3>2, <3>4 DEF vDelete, Branch
    <3>6. txdb.pos[t] = b
      BY <3>1, <3>3, <3>4, <3>5, Switched
    <3>7. CASE t \in mapTransactions
      BY <2>1, <3>6, <3>7, TreeAssumption
    <3>8. CASE t \in Resurrected
      <4>1. PICK a \in Anc[pindexBest] \ Anc[pindexNew] : t \in TxsOf(a)
        BY <3>8 DEF Resurrected, vResurrect
      <4>2. a \in Block /\ a \in Branch(pindexBest)
        BY <3>1, <4>1, Switched, GenesisAnc, AncStep DEF Branch
      <4>3. txdb.pos[t] = a
        BY <3>1, <3>3, <4>1, <4>2, Switched
      <4> QED
        BY <3>5, <3>6, <4>1, <4>3
    <3> QED
      BY <3>3, <3>7, <3>8
  <2>4. ASSUME ~SwitchBranch, \A b \in Block \ {Genesis} : ~ConfirmBlock(b)
        PROVE  txdb'.pos[t] = NoBlock
    <3>1. txdb'.pos = txdb.pos
      BY <2>4, PositionsKept
    <3>2. CASE UNCHANGED <<mapTransactions, mapNextTx>>
      BY <2>1, <3>1, <3>2
    <3>3. ASSUME NEW u \in Tx, Fits(u), ~Confirmed(u), Acceptance(u) PROVE txdb'.pos[t] = NoBlock
      BY <2>1, <3>1, <3>3 DEF Acceptance, Added, Confirmed
    <3>4. CASE RestartNode
      BY <3>1, <3>4 DEF RestartNode, Confirmed
    <3> QED
      BY <2>4, <3>2, <3>3, <3>4, PoolSteps
  <2> QED
    BY <2>2, <2>3, <2>4
<1> QED
  BY <1>1, <1>2, ChainPart, Invariant, PoolTypes, PTL DEF NodeSpec

\* A reorganization forgets no transaction that the pool could hold.
THEOREM NothingForgotten == NodeSpec => UnconfirmedKept
<1>1. IInv /\ PoolUnconfirmed /\ [NodeNext]_nodeVars =>
        [\A t \in Standard \ CoinBase :
          txdb.pos[t] # NoBlock /\ txdb'.pos[t] = NoBlock =>
              \/ t \in mapTransactions'
              \/ \E o \in Inputs(t) : mapNextTx[o] # NoTx]_nodeVars
  <2> SUFFICES ASSUME IInv, PoolUnconfirmed, [NodeNext]_nodeVars, NEW t \in Standard \ CoinBase,
                      txdb.pos[t] # NoBlock, txdb'.pos[t] = NoBlock
               PROVE  \/ t \in mapTransactions'
                      \/ \E o \in Inputs(t) : mapNextTx[o] # NoTx
    OBVIOUS
  <2>1. t \in Tx
    BY PoolAssumption
  <2>2. ASSUME NEW b \in Block, ConfirmBlock(b) PROVE FALSE
    BY <2>1, <2>2, PositionsExtended, TreeAssumption
  <2>3. SwitchBranch
    BY <2>2, PositionsKept
  <2>4. CommitReorganize /\ PoolReorganized
    BY <2>3 DEF SwitchBranch
  <2>5. PICK a \in Block : txdb.pos[t] = a
    BY <2>1, <2>4, Switched
  <2>6. a \in Branch(pindexBest) /\ t \in TxsOf(a)
    BY <2>1, <2>4, <2>5, Switched
  <2>7. a \notin Anc[pindexNew]
    BY <2>1, <2>4, <2>6, Switched, TreeAssumption DEF Branch
  <2>8. t \in vResurrect
    BY <2>6, <2>7 DEF vResurrect, Branch
  <2>9. t \notin vDelete
    <3> SUFFICES ASSUME NEW c \in Anc[pindexNew] \ Anc[pindexBest], t \in TxsOf(c) PROVE FALSE
      BY DEF vDelete
    <3>1. c \in Block /\ c \in Branch(pindexNew)
      BY <2>4, Switched, GenesisAnc, AncStep DEF Branch
    <3> QED
      BY <2>1, <2>4, <3>1, Switched, TreeAssumption
  <2>10. CASE NoConflict(t)
    <3>1. t \notin mapTransactions
      BY DEF PoolUnconfirmed, Confirmed
    <3>2. t \in Resurrected
      BY <2>8, <2>10, <3>1 DEF Resurrected, Fits
    <3> QED
      BY <2>4, <2>9, <3>2 DEF PoolReorganized, Removed, Added
  <2>11. CASE ~NoConflict(t)
    BY <2>11 DEF NoConflict, Conflicts
  <2> QED
    BY <2>10, <2>11
<1> QED
  BY <1>1, ChainPart, Invariant, PoolNotConfirmed, PTL DEF NodeSpec, UnconfirmedKept

-----------------------------------------------------------------------------
(* The walk over the transactions that were held.                           *)

\* The walk is idle or under way, and nothing but the walk happens meanwhile.
Walk ==
    /\ txAccepted = {} => txQueue = <<>>
    /\ txQueue = <<>> => txTried = {}
    /\ txAccepted # {} => Idle /\ workQueue = <<>>

\* AcceptTransaction would take t.
WouldAccept(t) == Fits(t) /\ ~Confirmed(t) /\ ConnectsLoose(t)

\* The walk will come to t: a transaction it depends on is further down the queue,
\* or at its head and t has not been tried for that.
Pending(t) ==
    \/ \E i \in 2..Len(txQueue) : txQueue[i] \in Parents(t)
    \/ txQueue # <<>> /\ Head(txQueue) \in Parents(t) /\ t \notin txTried

\* What was held for an accepted transaction, and would be accepted, is still to
\* be tried.
WalkInv ==
    \A t \in mapOrphanTransactions :
        Parents(t) \cap txAccepted # {} /\ WouldAccept(t) => Pending(t)

\* To accept u makes only what spends an output of u acceptable: any rival of u is
\* refused afterwards, and what was replaced by u is older than u.
LEMMA AcceptanceHelpsNoOther ==
    ASSUME PoolTypeOK, NEW u \in Tx, Fits(u), Acceptance(u), UNCHANGED vars,
           NEW t \in Tx, WouldAccept(t)', u \notin Parents(t)
    PROVE  WouldAccept(t)
<1>1. /\ mapTransactions' = (mapTransactions \ Conflicts(u)) \cup {u}
      /\ \A o \in OutPoint : mapNextTx'[o] = IF o \in Inputs(u) THEN u ELSE mapNextTx[o]
  BY DEF Acceptance, Added, NextAdded
<1>2. u # NoTx /\ Inputs(u) \subseteq OutPoint /\ Inputs(t) \subseteq OutPoint
  BY PoolAssumption, TxAssumption DEF Inputs
<1>3. /\ t \in Standard \ CoinBase /\ t \notin mapTransactions'
      /\ \/ \A o \in Inputs(t) : mapNextTx'[o] = NoTx
         \/ \E w \in Tx : <<t, w>> \in Newer /\ \A o \in Inputs(t) : mapNextTx'[o] = w
  BY DEF WouldAccept, Fits, NoConflict, Conflicts
<1>4. \/ \A o \in Inputs(u) : mapNextTx[o] = NoTx
      \/ \E v \in Tx : <<u, v>> \in Newer /\ \A o \in Inputs(u) : mapNextTx[o] = v
  BY DEF Fits, NoConflict, Conflicts
<1>5. ASSUME NEW p, NEW q, <<p, q>> \in Newer PROVE Inputs(p) = Inputs(q) /\ p # q
  BY <1>5, PoolAssumption DEF Inputs
<1>6. ASSUME NEW p, NEW q, NEW r, <<p, q>> \in Newer, <<q, r>> \in Newer
      PROVE  <<p, r>> \in Newer
  <2>1. \A x, y \in Newer : x[2] = y[1] => <<x[1], y[2]>> \in Newer
    BY PoolAssumption
  <2> QED
    BY <1>6, <2>1
<1>7. NoConflict(t)
  <2>1. CASE Inputs(t) \cap Inputs(u) = {}
    <3>1. \A o \in Inputs(t) : mapNextTx'[o] = mapNextTx[o]
      BY <1>1, <1>2, <2>1
    <3> QED
      BY <1>3, <3>1 DEF NoConflict, Conflicts
  <2>2. CASE Inputs(t) \cap Inputs(u) # {}
    <3>1. <<t, u>> \in Newer
      BY <1>1, <1>2, <1>3, <2>2
    <3>2. Inputs(t) = Inputs(u)
      BY <1>5, <3>1
    <3>3. ASSUME NEW v \in Tx, <<u, v>> \in Newer, \A o \in Inputs(u) : mapNextTx[o] = v
          PROVE  NoConflict(t)
      <4>1. <<t, v>> \in Newer
        BY <1>6, <3>1, <3>3
      <4> QED
        BY <3>2, <3>3, <4>1 DEF NoConflict
    <3> QED
      BY <1>4, <3>2, <3>3 DEF NoConflict, Conflicts
  <2> QED
    BY <2>1, <2>2
<1>8. t \notin mapTransactions
  <2> SUFFICES ASSUME t \in Conflicts(u) PROVE FALSE
    BY <1>1, <1>3
  <2>1. PICK o \in Inputs(u) : mapNextTx[o] = t /\ t # NoTx
    BY DEF Conflicts
  <2>2. <<u, t>> \in Newer
    BY <1>4, <2>1
  <2>3. o \in Inputs(t) /\ mapNextTx'[o] = u
    BY <1>1, <1>2, <1>5, <2>1, <2>2
  <2>4. <<t, u>> \in Newer
    BY <1>2, <1>3, <2>3
  <2>5. <<t, t>> \in Newer
    BY <1>6, <2>2, <2>4
  <2> QED
    BY <1>5, <2>5
<1>9. ConnectsLoose(t)
  <2>1. ConnectsLoose(t)' /\ txdb' = txdb /\ pindexBest' = pindexBest
    BY DEF WouldAccept, vars
  <2>2. \A o \in Inputs(t) : o[1] \in mapTransactions' => o[1] \in mapTransactions
    BY <1>1 DEF Parents
  <2> QED
    BY <2>1, <2>2 DEF ConnectsLoose, Confirmed, Mature
<1>10. ~Confirmed(t)
  BY DEF WouldAccept, Confirmed, vars
<1> QED
  BY <1>3, <1>7, <1>8, <1>9, <1>10 DEF WouldAccept, Fits

\* The steps of a node, by what they do to the walk.
LEMMA WalkSteps ==
    ASSUME Walk, [NodeNext]_nodeVars
    PROVE  \/ txAccepted = {} /\ UNCHANGED <<txQueue, txAccepted, txTried>>
           \/ txQueue' = <<>> /\ txAccepted' = {} /\ txTried' = {}
           \/ TxMessage
           \/ UNCHANGED nodeVars
<1>1. ASSUME NEW b \in Block, BlockMessage(b)
      PROVE  txAccepted = {} /\ UNCHANGED <<txQueue, txAccepted, txTried>>
  BY <1>1 DEF BlockMessage, NoTxMessage, ConfirmBlock, poolVars
<1>2. ASSUME ChainStep
      PROVE  txAccepted = {} /\ UNCHANGED <<txQueue, txAccepted, txTried>>
  <2>1. UNCHANGED <<txQueue, txAccepted, txTried>>
    BY <1>2 DEF ChainStep, SwitchBranch, poolVars
  <2>2. ~Idle \/ workQueue # <<>>
    BY <1>2 DEF ChainStep, SwitchBranch, CommitReorganize, NextInQueue, DisconnectStep, ConnectStep,
                ReadFails, ConnectFails, EraseStep, UnindexStep, Idle
  <2> QED
    BY <2>1, <2>2 DEF Walk
<1>3. RestartNode => txQueue' = <<>> /\ txAccepted' = {} /\ txTried' = {}
  BY DEF RestartNode
<1> QED
  BY <1>1, <1>2, <1>3 DEF NodeNext

\* A tx message begins its walk with the transaction it brings, at the head of the
\* queue.
LEMMA WalkBegins ==
    ASSUME PoolTypeOK, Walk, NEW u \in Heard, Idle, workQueue = <<>>, UNCHANGED vars,
           TxAccepted(u, Confirmed(u), ConnectsLoose(u))
    PROVE  Walk' /\ WalkInv'
<1>1. txQueue = <<>> /\ txTried = {} /\ txTried' = {}
  BY DEF TxAccepted, NoTxMessage, Walk
<1>2. txQueue' = <<u>> /\ txAccepted' = {u}
  BY <1>1 DEF TxAccepted, NoTxMessage, Acceptance
<1>3. txQueue' # <<>> /\ Head(txQueue') = u
  BY <1>2
<1>4. Walk'
  BY <1>2, <1>3 DEF Walk, Idle, vars
<1>5. \A t : Parents(t) \cap {u} # {} => Pending(t)'
  BY <1>1, <1>3 DEF Pending, Parents
<1> QED
  BY <1>2, <1>4, <1>5 DEF WalkInv, Parents

\* A try leaves what is pending pending, and what is accepted is queued for those
\* that spend its outputs.
LEMMA WalkTries ==
    ASSUME PoolTypeOK, Walk, WalkInv, NEW u \in mapOrphanTransactions, Idle, workQueue = <<>>,
           UNCHANGED vars, TryOrphan(u, Confirmed(u), ConnectsLoose(u))
    PROVE  Walk' /\ WalkInv'
<1>1. /\ txQueue \in Seq(Tx) /\ txQueue # <<>> /\ txAccepted # {}
      /\ txTried' = txTried \cup {u} /\ u \in Tx
      /\ mapOrphanTransactions' = mapOrphanTransactions
      /\ mapOrphanTransactions \subseteq Tx
  BY DEF TryOrphan, Waits, Walk, PoolTypeOK
<1>2. CASE WouldAccept(u)
  <2>1. Fits(u) /\ Acceptance(u)
    BY <1>2 DEF WouldAccept, TryOrphan
  <2>2. /\ txQueue' = Append(txQueue, u) /\ txAccepted' = txAccepted \cup {u}
        /\ u \in mapTransactions'
    BY <2>1 DEF Acceptance, Added
  <2>3. /\ txQueue' # <<>> /\ Head(txQueue') = Head(txQueue)
        /\ Len(txQueue') = Len(txQueue) + 1 /\ Len(txQueue) \in Nat /\ Len(txQueue) >= 1
        /\ txQueue'[Len(txQueue) + 1] = u
        /\ \A i \in 1..Len(txQueue) : txQueue'[i] = txQueue[i]
    BY <1>1, <2>2
  <2>4. Walk'
    BY <1>1, <2>2, <2>3 DEF Walk, Idle, vars
  <2> SUFFICES ASSUME NEW t \in mapOrphanTransactions,
                      Parents(t) \cap txAccepted' # {}, WouldAccept(t)'
               PROVE  Pending(t)'
    BY <1>1, <2>4 DEF WalkInv, Parents
  <2>5. t # u
    BY <2>2 DEF WouldAccept, Fits
  <2>6. CASE u \in Parents(t)
    <3>1. Len(txQueue) + 1 \in 2..Len(txQueue')
      BY <2>3
    <3>2. txQueue'[Len(txQueue) + 1] \in Parents(t)
      BY <2>3, <2>6
    <3> QED
      BY <3>1, <3>2 DEF Pending, Parents
  <2>7. CASE u \notin Parents(t)
    <3>1. WouldAccept(t)
      BY <1>1, <2>1, <2>7, AcceptanceHelpsNoOther
    <3>2. Pending(t)
      BY <2>2, <2>7, <3>1 DEF WalkInv
    <3>3. CASE \E i \in 2..Len(txQueue) : txQueue[i] \in Parents(t)
      <4>1. PICK i \in 2..Len(txQueue) : txQueue[i] \in Parents(t)
        BY <3>3
      <4>2. i \in 2..Len(txQueue') /\ txQueue'[i] \in Parents(t)
        BY <2>3, <4>1
      <4> QED
        BY <4>2 DEF Pending, Parents
    <3>4. CASE Head(txQueue) \in Parents(t) /\ t \notin txTried
      BY <1>1, <2>3, <2>5, <3>4 DEF Pending, Parents
    <3> QED
      BY <3>2, <3>3, <3>4 DEF Pending
  <2> QED
    BY <2>6, <2>7
<1>3. CASE ~WouldAccept(u)
  <2>1. UNCHANGED <<mapTransactions, mapNextTx, txQueue, txAccepted>>
    BY <1>3 DEF WouldAccept, TryOrphan
  <2>2. Walk'
    BY <1>1, <2>1 DEF Walk, Idle, vars
  <2>3. ASSUME NEW t PROVE WouldAccept(t)' <=> WouldAccept(t)
    BY <2>1 DEF WouldAccept, Fits, NoConflict, Conflicts, Confirmed, ConnectsLoose, Mature, vars
  <2>4. ASSUME NEW t, t # u, Pending(t) PROVE Pending(t)'
    BY <1>1, <2>1, <2>4 DEF Pending, Parents
  <2> QED
    BY <1>1, <1>3, <2>1, <2>2, <2>3, <2>4 DEF WalkInv, Parents
<1> QED
  BY <1>2, <1>3

\* The head of the queue is left when nothing waits for it.
LEMMA WalkMovesOn ==
    ASSUME PoolTypeOK, Walk, WalkInv, Idle, workQueue = <<>>, UNCHANGED vars, NextTx
    PROVE  Walk' /\ WalkInv'
<1>1. /\ txQueue \in Seq(Tx) /\ txQueue # <<>> /\ txQueue' = Tail(txQueue)
      /\ txTried' = {} /\ txAccepted # {}
      /\ UNCHANGED <<mapTransactions, mapNextTx, mapOrphanTransactions, txAccepted>>
  BY DEF NextTx, Walk, PoolTypeOK
<1>2. Walk'
  BY <1>1 DEF Walk, Idle, vars
<1>3. ASSUME NEW t PROVE WouldAccept(t)' <=> WouldAccept(t)
  BY <1>1 DEF WouldAccept, Fits, NoConflict, Conflicts, Confirmed, ConnectsLoose, Mature, vars
<1>4. ASSUME NEW t \in mapOrphanTransactions, Pending(t) PROVE Pending(t)'
  <2>1. PICK i \in 2..Len(txQueue) : txQueue[i] \in Parents(t)
    BY <1>4 DEF NextTx, Waits, Pending
  <2>2. /\ Len(txQueue) \in Nat /\ Len(txQueue') = Len(txQueue) - 1
        /\ \A j \in 1..Len(txQueue') : txQueue'[j] = txQueue[j + 1]
    BY <1>1
  <2>3. i - 1 \in 1..Len(txQueue') /\ txQueue'[i - 1] = txQueue[i]
    BY <2>1, <2>2
  <2>4. CASE i = 2
    <3>1. txQueue' # <<>> /\ Head(txQueue') = txQueue'[1]
      <4>1. txQueue' \in Seq(Tx)
        BY <1>1
      <4>2. Len(txQueue') # 0
        BY <2>2, <2>3
      <4> QED
        BY <4>1, <4>2
    <3> QED
      BY <1>1, <2>1, <2>3, <2>4, <3>1 DEF Pending, Parents
  <2>5. CASE i # 2
    <3>1. i - 1 \in 2..Len(txQueue')
      BY <2>1, <2>2, <2>5
    <3> QED
      BY <2>1, <2>3, <3>1 DEF Pending, Parents
  <2> QED
    BY <2>4, <2>5
<1> QED
  BY <1>1, <1>2, <1>3, <1>4 DEF WalkInv, Parents

\* The walk over the held transactions is complete, whatever they depend on and
\* replace.
THEOREM WalkInvariant == NodeSpec => [](Walk /\ WalkInv)
<1>1. NodeInit => Walk /\ WalkInv
  BY DEF NodeInit, PoolInit, Walk, WalkInv
<1>2. PoolTypeOK /\ Walk /\ WalkInv /\ [NodeNext]_nodeVars => Walk' /\ WalkInv'
  <2> SUFFICES ASSUME PoolTypeOK, Walk, WalkInv, [NodeNext]_nodeVars PROVE Walk' /\ WalkInv'
    OBVIOUS
  <2>1. CASE txAccepted = {} /\ UNCHANGED <<txQueue, txAccepted, txTried>>
    BY <2>1 DEF Walk, WalkInv
  <2>2. CASE txQueue' = <<>> /\ txAccepted' = {} /\ txTried' = {}
    BY <2>2 DEF Walk, WalkInv
  <2>3. CASE TxMessage
    <3>1. Idle /\ workQueue = <<>> /\ UNCHANGED vars
      BY <2>3 DEF TxMessage
    <3>2. ASSUME NEW t \in Heard, TxHeld(t, Confirmed(t), ConnectsLoose(t)) PROVE Walk' /\ WalkInv'
      BY <3>2 DEF TxHeld, NoTxMessage, Walk, WalkInv
    <3>3. CASE FinishTx
      BY <3>3 DEF FinishTx, Walk, WalkInv
    <3> QED
      BY <2>3, <3>1, <3>2, <3>3, WalkBegins, WalkTries, WalkMovesOn DEF TxMessage
  <2>4. CASE UNCHANGED nodeVars
    <3>1. UNCHANGED <<vars, mapTransactions, mapNextTx, mapOrphanTransactions, txQueue, txAccepted, txTried>>
      BY <2>4 DEF nodeVars, poolVars
    <3>2. Walk'
      BY <3>1 DEF Walk, Idle, vars
    <3>3. ASSUME NEW t PROVE WouldAccept(t)' <=> WouldAccept(t)
      BY <3>1 DEF WouldAccept, Fits, NoConflict, Conflicts, Confirmed, ConnectsLoose, Mature, vars
    <3>4. ASSUME NEW t, Pending(t) PROVE Pending(t)'
      BY <3>1, <3>4 DEF Pending, Parents
    <3> QED
      BY <3>1, <3>2, <3>3, <3>4 DEF WalkInv, Parents
  <2> QED
    BY <2>1, <2>2, <2>3, <2>4, WalkSteps
<1> QED
  BY <1>1, <1>2, PoolTypes, PTL DEF NodeSpec

\* When a tx message is done nothing that was held for an accepted transaction, and
\* is still held, could be accepted.
THEOREM WalkComplete == NodeSpec => OrphansProcessed
<1>1. WalkInv /\ FinishTx =>
        \A t \in mapOrphanTransactions' :
            Parents(t) \cap txAccepted # {} => ~(Fits(t) /\ ~Confirmed(t) /\ ConnectsLoose(t))
  <2> SUFFICES ASSUME WalkInv, FinishTx, NEW t \in mapOrphanTransactions',
                      Parents(t) \cap txAccepted # {}, WouldAccept(t)
               PROVE  FALSE
    BY DEF WouldAccept
  <2>1. t \in mapOrphanTransactions /\ txQueue = <<>>
    BY DEF FinishTx
  <2>2. ~Pending(t)
    BY <2>1 DEF Pending
  <2> QED
    BY <2>1, <2>2 DEF WalkInv
<1> QED
  BY <1>1, WalkInvariant, PTL DEF OrphansProcessed

-----------------------------------------------------------------------------
(* Times and targets: naturals first.                                      *)

\* A set of naturals has a least element.
LEMMA Least ==
    ASSUME NEW S, S \subseteq Nat, S # {}
    PROVE  \E m \in S : \A l \in S : m <= l
<1>1. PICK m \in S : \A l \in S : <<l, m>> \notin OpToRel(<, Nat)
  BY NatLessThanWellFounded, WFMin
<1>2. \A l \in S : ~(l < m)
  BY <1>1 DEF OpToRel
<1> QED
  BY <1>2

\* A set of naturals that has a bound has a greatest element.
LEMMA Greatest ==
    ASSUME NEW n \in Nat, NEW S, S \subseteq 0..n, S # {}
    PROVE  \E m \in S : \A l \in S : l <= m
<1> DEFINE Gap == {n - m : m \in S}
<1>1. Gap \subseteq Nat /\ Gap # {}
  <2>1. \A m \in S : m \in 0..n /\ n - m \in Nat
    OBVIOUS
  <2>2. \E m \in S : n - m \in Gap
    OBVIOUS
  <2> QED
    BY <2>1, <2>2
<1>2. PICK g \in Gap : \A h \in Gap : g <= h
  BY <1>1, Least
<1>3. PICK m \in S : g = n - m
  OBVIOUS
<1>4. ASSUME NEW l \in S PROVE l <= m
  <2>1. n - m <= n - l
    BY <1>2, <1>3
  <2> QED
    BY <2>1
<1> QED
  BY <1>4

\* Rounding to a compact number gives a natural that is no larger.
LEMMA CompactBelow ==
    ASSUME NEW n \in Nat
    PROVE  Compact(n) \in 0..n
<1> DEFINE Small == {m \in 0..n : Representable(m)}
<1>1. 0 \in Small
  <2>1. 0 \in 0..(Mantissa - 1) /\ 1 \in Units /\ 0 = 0 * 1
    BY DifficultyAssumption
  <2> QED
    BY <2>1 DEF Representable
<1>2. PICK m \in Small : \A l \in Small : l <= m
  <2>1. Small \subseteq 0..n
    OBVIOUS
  <2> HIDE DEF Small
  <2> QED
    BY <1>1, <2>1, Greatest
<1>3. \E x \in 0..n : Representable(x) /\ \A l \in 0..n : Representable(l) => l <= x
  BY <1>2
<1> QED
  BY <1>3 DEF Compact

\* To scale a target by a fraction that is at most one does not raise it.
LEMMA ScaledDown ==
    ASSUME NEW a \in Nat, NEW c \in Nat, NEW d \in Nat \ {0}, c <= d
    PROVE  (a * c) \div d \in Nat /\ (a * c) \div d <= a
<1> DEFINE q == (a * c) \div d
<1>1. q \in Nat /\ q * d <= a * c
  OBVIOUS
<1>2. a * c <= a * d
  OBVIOUS
<1>3. q * d <= a * d
  BY <1>1, <1>2
<1> QED
  BY <1>1, <1>3

-----------------------------------------------------------------------------
(* The median.                                                             *)

Times == 0..(MaxTime + MaxFuture)
Branches == {h \in Seq([nTime : Times, nBits : 0..ProofOfWorkLimit]) : Len(h) >= 1}

\* The blocks of h whose times count, those of them below t, and those up to t.
Recent(h)   == {i \in DOMAIN h : i + MedianTimeSpan > Len(h)}
Below(h, t) == {i \in Recent(h) : h[i].nTime < t}
UpTo(h, t)  == {i \in Recent(h) : h[i].nTime <= t}

\* Branches carry times, and of some of these one is the last.
LEMMA TimesOfBranches ==
    ASSUME NEW h \in Branches
    PROVE  /\ Times \subseteq Nat
           /\ Len(h) \in Nat /\ Len(h) >= 1 /\ DOMAIN h = 1..Len(h)
           /\ \A i \in DOMAIN h : h[i].nTime \in Times /\ h[i].nBits \in 0..ProofOfWorkLimit
<1>1. Times \subseteq Nat
  BY DifficultyAssumption DEF Times
<1>2. Len(h) \in Nat /\ Len(h) >= 1 /\ DOMAIN h = 1..Len(h)
  BY DEF Branches
<1> DEFINE R == [nTime : Times, nBits : 0..ProofOfWorkLimit]
<1>3. \A i \in 1..Len(h) : h[i] \in R
  <2>1. h \in Seq(R)
    BY DEF Branches
  <2> HIDE DEF R
  <2> QED
    BY <2>1
<1> QED
  BY <1>1, <1>2, <1>3

LEMMA LastTime ==
    ASSUME NEW S, S \subseteq Times, S # {}
    PROVE  \E m \in S : \A l \in S : l <= m
<1>1. MaxTime + MaxFuture \in Nat
  BY DifficultyAssumption
<1> QED
  BY <1>1, Greatest DEF Times

\* They are finitely many, and half of them are fewer than all.
LEMMA RecentCounts ==
    ASSUME NEW h \in Branches
    PROVE  /\ IsFiniteSet(Recent(h)) /\ Len(h) \in Recent(h)
           /\ Cardinality(Recent(h)) \in Nat
           /\ Cardinality(Recent(h)) \div 2 \in Nat
           /\ Cardinality(Recent(h)) \div 2 < Cardinality(Recent(h))
           /\ \A t \in Times : /\ IsFiniteSet(Below(h, t)) /\ Cardinality(Below(h, t)) \in Nat
                               /\ IsFiniteSet(UpTo(h, t)) /\ Cardinality(UpTo(h, t)) \in Nat
<1>1. Len(h) \in Nat /\ DOMAIN h = 1..Len(h) /\ Len(h) >= 1
  BY TimesOfBranches
<1>2. Len(h) \in Recent(h) /\ Recent(h) \subseteq 1..Len(h)
  BY <1>1, DifficultyAssumption DEF Recent
<1>3. IsFiniteSet(Recent(h))
  <2>1. IsFiniteSet(1..Len(h))
    BY <1>1, FS_Interval
  <2> QED
    BY <1>2, <2>1, FS_Subset
<1>4. Cardinality(Recent(h)) \in Nat /\ Cardinality(Recent(h)) # 0
  BY <1>2, <1>3, FS_CardinalityType, FS_EmptySet
<1>5. \A t \in Times : Below(h, t) \subseteq Recent(h) /\ UpTo(h, t) \subseteq Recent(h)
  BY DEF Below, UpTo
<1>6. \A t \in Times : IsFiniteSet(Below(h, t)) /\ IsFiniteSet(UpTo(h, t))
  BY <1>3, <1>5, FS_Subset
<1> QED
  BY <1>2, <1>3, <1>4, <1>6, FS_CardinalityType

\* There is a median: it is the time of one of the recent blocks, at most half of
\* them are below it and more than half are not above it.
LEMMA MedianFound ==
    ASSUME NEW h \in Branches
    PROVE  /\ GetMedianTimePast(h) \in Times
           /\ Cardinality(Below(h, GetMedianTimePast(h))) <= Cardinality(Recent(h)) \div 2
           /\ Cardinality(Recent(h)) \div 2 < Cardinality(UpTo(h, GetMedianTimePast(h)))
<1> DEFINE T == {h[i].nTime : i \in Recent(h)}
           middle == Cardinality(Recent(h)) \div 2
           High == {t \in T : middle < Cardinality(UpTo(h, t))}
<1>1. T \subseteq Times /\ T # {} /\ Times \subseteq Nat
  <2>1. Recent(h) \subseteq DOMAIN h
    BY DEF Recent
  <2>2. Len(h) \in Recent(h)
    BY RecentCounts
  <2> QED
    BY <2>1, <2>2, TimesOfBranches
<1>2. \E t \in T : t \in High
  <2>1. PICK t \in T : \A l \in T : l <= t
    <3> HIDE DEF T
    <3> QED
      BY <1>1, LastTime
  <2>2. UpTo(h, t) = Recent(h)
    BY <2>1 DEF UpTo
  <2> QED
    BY <2>1, <2>2, RecentCounts
<1>3. PICK t \in High : \A l \in High : t <= l
  <2>1. High \subseteq Nat /\ High # {}
    BY <1>1, <1>2
  <2> HIDE DEF High
  <2> QED
    BY <2>1, Least
<1>4. Cardinality(Below(h, t)) <= middle
  <2> SUFFICES ASSUME ~(Cardinality(Below(h, t)) <= middle) PROVE FALSE
    OBVIOUS
  <2>1. t \in Times /\ Cardinality(Below(h, t)) \in Nat /\ middle \in Nat
    BY <1>1, <1>3, RecentCounts
  <2>2. Below(h, t) # {}
    BY <2>1, FS_EmptySet
  <2> DEFINE B == {h[i].nTime : i \in Below(h, t)}
  <2>3. B \subseteq T /\ B # {} /\ \A l \in B : l < t
    BY <2>2 DEF Below
  <2>4. PICK p \in B : \A l \in B : l <= p
    <3>1. B \subseteq Times /\ B # {}
      BY <1>1, <2>3
    <3> HIDE DEF B
    <3> QED
      BY <3>1, LastTime
  <2>5. p \in Times /\ p < t /\ p \in T
    BY <1>1, <2>3, <2>4
  <2>6. Below(h, t) \subseteq UpTo(h, p)
    BY <2>4 DEF Below, UpTo
  <2>7. Cardinality(Below(h, t)) <= Cardinality(UpTo(h, p))
    BY <2>5, <2>6, RecentCounts, FS_Subset
  <2>8. middle < Cardinality(UpTo(h, p))
    BY <2>1, <2>5, <2>7, RecentCounts
  <2> QED
    BY <1>1, <1>3, <2>1, <2>5, <2>8
<1>5. \E x \in T : Cardinality(Below(h, x)) <= middle /\ middle < Cardinality(UpTo(h, x))
  BY <1>3, <1>4
<1>6. GetMedianTimePast(h) = CHOOSE x \in T : Cardinality(Below(h, x)) <= middle
                                             /\ middle < Cardinality(UpTo(h, x))
  BY DEF GetMedianTimePast, Recent, Below, UpTo
<1>7. /\ GetMedianTimePast(h) \in T
      /\ Cardinality(Below(h, GetMedianTimePast(h))) <= middle
      /\ middle < Cardinality(UpTo(h, GetMedianTimePast(h)))
  <2> HIDE DEF T, middle
  <2> QED
    BY <1>5, <1>6
<1> QED
  BY <1>1, <1>7

\* A block after the median leaves at most as many recent times below the median
\* as there were, and the middle where it was or later.
LEMMA MedianStep ==
    ASSUME NEW h \in Branches, NEW b \in [nTime : Times, nBits : 0..ProofOfWorkLimit],
           AfterMedian(h, b.nTime)
    PROVE  GetMedianTimePast(Append(h, b)) >= GetMedianTimePast(h)
<1> DEFINE g == Append(h, b)
           m == GetMedianTimePast(h)
           k == GetMedianTimePast(g)
<1>1. /\ Len(h) \in Nat /\ Len(h) >= 1 /\ DOMAIN h = 1..Len(h) /\ Times \subseteq Nat
      /\ \A i \in DOMAIN h : h[i].nTime \in Times
  BY TimesOfBranches
<1>2. /\ g \in Branches /\ Len(g) = Len(h) + 1 /\ DOMAIN g = 1..(Len(h) + 1)
      /\ g[Len(h) + 1] = b /\ \A i \in 1..Len(h) : g[i] = h[i]
  <2> DEFINE R == [nTime : Times, nBits : 0..ProofOfWorkLimit]
  <2>1. h \in Seq(R) /\ b \in R
    BY DEF Branches
  <2>2. /\ g \in Seq(R) /\ Len(g) = Len(h) + 1 /\ DOMAIN g = 1..(Len(h) + 1)
        /\ g[Len(h) + 1] = b /\ \A i \in 1..Len(h) : g[i] = h[i]
    <3> HIDE DEF R
    <3> QED
      BY <2>1
  <2>3. g \in Branches
    BY <1>1, <2>2 DEF Branches
  <2> QED
    BY <2>2, <2>3
<1>3. /\ m \in Times /\ k \in Times
      /\ Cardinality(Below(h, m)) <= Cardinality(Recent(h)) \div 2
      /\ Cardinality(Recent(g)) \div 2 < Cardinality(UpTo(g, k))
  <2> HIDE DEF g
  <2> QED
    BY <1>2, MedianFound
<1>4. Cardinality(Recent(h)) <= Cardinality(Recent(g))
  <2> DEFINE Shifted == [i \in Recent(h) |-> i + 1]
  <2>1. Shifted \in Injection(Recent(h), Recent(g))
    <3>1. \A i \in Recent(h) : i \in 1..Len(h) /\ i + MedianTimeSpan > Len(h)
      BY <1>1 DEF Recent
    <3>2. \A i \in Recent(h) : i + 1 \in Recent(g)
      BY <1>1, <1>2, <3>1, DifficultyAssumption DEF Recent
    <3>3. \A i, j \in Recent(h) : i + 1 = j + 1 => i = j
      BY <1>1, <3>1
    <3> QED
      BY <3>2, <3>3 DEF Injection, IsInjective
  <2>2. IsFiniteSet(Recent(g)) /\ IsFiniteSet(Recent(h))
    <3> HIDE DEF g
    <3> QED
      BY <1>2, RecentCounts
  <2> QED
    BY <2>1, <2>2, FS_Injection
<1>5. k < m => UpTo(g, k) \subseteq Below(h, m)
  <2> SUFFICES ASSUME k < m, NEW i \in UpTo(g, k) PROVE i \in Below(h, m)
    OBVIOUS
  <2>1. i \in 1..(Len(h) + 1) /\ i + MedianTimeSpan > Len(h) + 1 /\ g[i].nTime <= k
    BY <1>2 DEF UpTo, Recent
  <2>2. b.nTime > m /\ b.nTime \in Times
    BY DEF AfterMedian
  <2>3. m \in Nat /\ k \in Nat /\ b.nTime \in Nat /\ Len(h) \in Nat
    BY <1>1, <1>3, <2>2
  <2>4. i # Len(h) + 1
    <3> SUFFICES ASSUME i = Len(h) + 1 PROVE FALSE
      OBVIOUS
    <3>1. b.nTime <= k
      BY <1>2, <2>1
    <3> HIDE DEF m, k
    <3> QED
      BY <2>2, <2>3, <3>1
  <2>5. i \in DOMAIN h /\ g[i] = h[i]
    BY <1>1, <1>2, <2>1, <2>4
  <2>6. h[i].nTime < m
    <3>1. h[i].nTime \in Nat /\ h[i].nTime <= k
      BY <1>1, <2>1, <2>5
    <3> HIDE DEF m, k
    <3> QED
      BY <2>3, <3>1
  <2>7. i + MedianTimeSpan > Len(h)
    BY <2>1, <2>3, DifficultyAssumption
  <2> QED
    BY <2>5, <2>6, <2>7 DEF Below, Recent
<1>6. /\ IsFiniteSet(Below(h, m)) /\ Cardinality(Below(h, m)) \in Nat
      /\ Cardinality(UpTo(g, k)) \in Nat /\ Cardinality(Recent(h)) \in Nat
      /\ Cardinality(Recent(g)) \in Nat
  <2> HIDE DEF g
  <2> QED
    BY <1>2, <1>3, RecentCounts
<1>7. ~(k < m)
  <2> SUFFICES ASSUME k < m PROVE FALSE
    OBVIOUS
  <2>1. Cardinality(UpTo(g, k)) <= Cardinality(Below(h, m))
    BY <1>5, <1>6, FS_Subset
  <2>2. Cardinality(Recent(h)) \div 2 <= Cardinality(Recent(g)) \div 2
    BY <1>4, <1>6
  <2> QED
    BY <1>3, <1>6, <2>1, <2>2
<1>8. m \in Nat /\ k \in Nat
  BY <1>1, <1>3
<1>9. k >= m
  <2> HIDE DEF m, k
  <2> QED
    BY <1>7, <1>8
<1> QED
  BY <1>9

-----------------------------------------------------------------------------
(* Types.                                                                  *)

\* At a boundary the first block of the interval exists.
LEMMA FirstExists ==
    ASSUME NEW h \in Branches, AtBoundary(h)
    PROVE  Len(h) - nInterval + 1 \in DOMAIN h
<1>1. nInterval \in Nat /\ nInterval >= 2
  BY DifficultyAssumption DEF nInterval
<1>2. Len(h) \in Nat /\ Len(h) >= 1 /\ DOMAIN h = 1..Len(h)
  BY TimesOfBranches
<1>3. Len(h) % nInterval = 0
  BY DEF AtBoundary
<1>4. nInterval <= Len(h)
  BY <1>1, <1>2, <1>3
<1> QED
  BY <1>1, <1>2, <1>4

\* The target of the next block never exceeds the easiest one.
LEMMA WorkInRange ==
    ASSUME NEW h \in Branches
    PROVE  GetNextWorkRequired(h) \in 0..ProofOfWorkLimit
<1> DEFINE actual  == Minus(Last(h).nTime, First(h).nTime)
           clamped == IF actual < TargetTimespan \div 4 THEN TargetTimespan \div 4
                      ELSE IF actual > TargetTimespan * 4 THEN TargetTimespan * 4
                      ELSE actual
           bnNew   == (Last(h).nBits * clamped) \div TargetTimespan
           capped  == IF bnNew > ProofOfWorkLimit THEN ProofOfWorkLimit ELSE bnNew
<1>1. Last(h).nBits \in 0..ProofOfWorkLimit /\ Last(h).nTime \in Times /\ Times \subseteq Nat
  BY TimesOfBranches DEF Last
<1>2. CASE ~AtBoundary(h)
  BY <1>1, <1>2 DEF GetNextWorkRequired
<1>3. CASE AtBoundary(h)
  <2>1. First(h).nTime \in Times
    BY <1>3, FirstExists, TimesOfBranches DEF First
  <2>2. actual \in Nat
    <3>1. UInt \in Nat /\ \A t \in Times : t \in Nat /\ t < UInt
      BY DifficultyAssumption DEF Times
    <3>2. \A a, b \in Times : Minus(a, b) \in Nat
      BY <3>1 DEF Minus
    <3> QED
      BY <1>1, <2>1, <3>2
  <2>3. TargetTimespan \in Nat \ {0} /\ ProofOfWorkLimit \in Nat
    BY DifficultyAssumption
  <2>4. clamped \in Nat
    BY <2>2, <2>3
  <2>5. bnNew \in Nat
    <3>1. Last(h).nBits * clamped \in Nat
      BY <1>1, <2>3, <2>4
    <3> QED
      BY <2>3, <3>1
  <2>6. capped \in 0..ProofOfWorkLimit
    BY <2>3, <2>5
  <2>7. GetNextWorkRequired(h) = Compact(capped)
    BY <1>3 DEF GetNextWorkRequired
  <2>8. Compact(capped) \in 0..capped
    BY <2>6, CompactBelow
  <2> QED
    BY <2>3, <2>6, <2>7, <2>8
<1> QED
  BY <1>2, <1>3

\* The branch of a well-typed state.
LEMMA HeadersBranch ==
    ASSUME DifficultyTypeOK
    PROVE  headers \in Branches
BY DEF DifficultyTypeOK, Branches, Times

\* An accepted block has a time and a target of the right kind.
LEMMA AcceptTypes ==
    ASSUME DifficultyTypeOK, NEW t \in Nat, AcceptBlock(t)
    PROVE  DifficultyTypeOK' /\ t \in Times /\ now' = now
<1>1. now \in 0..MaxTime /\ MaxTime \in Nat /\ MaxFuture \in Nat /\ t <= now + MaxFuture
  BY DifficultyAssumption DEF DifficultyTypeOK, AcceptBlock, NotInFuture
<1>2. t \in Times
  BY <1>1 DEF Times
<1>3. GetNextWorkRequired(headers) \in 0..ProofOfWorkLimit
  BY HeadersBranch, WorkInRange
<1> DEFINE R == [nTime : Times, nBits : 0..ProofOfWorkLimit]
           b == [nTime |-> t, nBits |-> GetNextWorkRequired(headers)]
<1>4. b \in R
  BY <1>2, <1>3
<1>5. headers \in Seq(R) /\ Len(headers) \in 1..(MaxHeight + 1) /\ Len(headers) <= MaxHeight
  BY DEF DifficultyTypeOK, Times, AcceptBlock
<1>6. headers' = Append(headers, b) /\ now' = now
  BY DEF AcceptBlock
<1>7. headers' \in Seq(R) /\ Len(headers') = Len(headers) + 1
  <2> HIDE DEF R, b
  <2> QED
    BY <1>4, <1>5, <1>6
<1>8. Len(headers') \in 1..(MaxHeight + 1)
  BY <1>5, <1>7, DifficultyAssumption
<1>9. headers' \in Seq([nTime : 0..(MaxTime + MaxFuture), nBits : 0..ProofOfWorkLimit])
  BY <1>7 DEF Times
<1> QED
  BY <1>1, <1>2, <1>6, <1>8, <1>9 DEF DifficultyTypeOK

\* Every step but that of the clock accepts a block whose time is a natural.
LEMMA StepKinds ==
    ASSUME DifficultyTypeOK, [DifficultyNext]_timeVars
    PROVE  UNCHANGED headers \/ \E t \in Nat : AcceptBlock(t)
<1>1. CASE Receive
  BY <1>1, DifficultyAssumption DEF Receive
<1>2. CASE Mine
  <2>1. GetMedianTimePast(headers) \in Nat /\ now \in Nat
    BY HeadersBranch, MedianFound, TimesOfBranches, DifficultyAssumption DEF DifficultyTypeOK
  <2>2. MinerTime(headers, now) \in Nat
    BY <2>1 DEF MinerTime
  <2> QED
    BY <1>2, <2>2 DEF Mine
<1>3. CASE Tick \/ UNCHANGED timeVars
  BY <1>3 DEF Tick, timeVars
<1> QED
  BY <1>1, <1>2, <1>3 DEF DifficultyNext

\* Types hold throughout: in particular no target ever exceeds the easiest one.
THEOREM DifficultyTypes == DifficultySpec => []DifficultyTypeOK
<1>1. DifficultyInit => DifficultyTypeOK
  <2> SUFFICES ASSUME DifficultyInit PROVE DifficultyTypeOK
    OBVIOUS
  <2>1. Compact(ProofOfWorkLimit) \in 0..ProofOfWorkLimit
    BY CompactBelow, DifficultyAssumption
  <2>2. 0 \in 0..(MaxTime + MaxFuture) /\ 0 \in 0..MaxTime /\ 1 \in 1..(MaxHeight + 1)
    BY DifficultyAssumption
  <2> DEFINE b == [nTime |-> 0, nBits |-> Compact(ProofOfWorkLimit)]
             R == [nTime : 0..(MaxTime + MaxFuture), nBits : 0..ProofOfWorkLimit]
  <2>3. b \in R
    BY <2>1, <2>2
  <2>4. headers = <<b>> /\ now = 0
    BY DEF DifficultyInit
  <2>5. headers \in Seq(R) /\ Len(headers) = 1
    <3> HIDE DEF b, R
    <3> QED
      BY <2>3, <2>4
  <2> QED
    BY <2>2, <2>4, <2>5 DEF DifficultyTypeOK
<1>2. DifficultyTypeOK /\ [DifficultyNext]_timeVars => DifficultyTypeOK'
  <2> SUFFICES ASSUME DifficultyTypeOK, [DifficultyNext]_timeVars PROVE DifficultyTypeOK'
    OBVIOUS
  <2>1. CASE \E t \in Nat : AcceptBlock(t)
    BY <2>1, AcceptTypes
  <2>2. CASE UNCHANGED headers
    <3>1. CASE Tick
      <4>1. now' \in 0..MaxTime
        BY <3>1, DifficultyAssumption DEF Tick, DifficultyTypeOK
      <4> QED
        BY <2>2, <4>1 DEF DifficultyTypeOK
    <3>2. CASE UNCHANGED timeVars
      BY <3>2 DEF DifficultyTypeOK, timeVars
    <3>3. CASE Receive \/ Mine
      <4>1. now' = now
        BY <3>3 DEF Receive, Mine, AcceptBlock
      <4> QED
        BY <2>2, <4>1 DEF DifficultyTypeOK
    <3> QED
      BY <3>1, <3>2, <3>3 DEF DifficultyNext
  <2> QED
    BY <2>1, <2>2, StepKinds
<1> QED
  BY <1>1, <1>2, PTL DEF DifficultySpec

-----------------------------------------------------------------------------
(* The rules.                                                              *)

\* The lower bound on the times of new blocks only moves forward.
THEOREM MedianMonotone == DifficultySpec => MedianAdvances
<1>1. DifficultyTypeOK /\ [DifficultyNext]_timeVars => [GetMedianTimePast(headers') >= GetMedianTimePast(headers)]_timeVars
  <2> SUFFICES ASSUME DifficultyTypeOK, [DifficultyNext]_timeVars
               PROVE  GetMedianTimePast(headers') >= GetMedianTimePast(headers)
    OBVIOUS
  <2>1. headers \in Branches
    BY HeadersBranch
  <2>2. CASE UNCHANGED headers
    <3>1. GetMedianTimePast(headers) \in Nat
      BY <2>1, MedianFound, TimesOfBranches
    <3> QED
      BY <2>2, <3>1
  <2>3. CASE \E t \in Nat : AcceptBlock(t)
    <3>1. PICK t \in Nat : AcceptBlock(t)
      BY <2>3
    <3> DEFINE b == [nTime |-> t, nBits |-> GetNextWorkRequired(headers)]
    <3>2. b \in [nTime : Times, nBits : 0..ProofOfWorkLimit]
      BY <2>1, <3>1, AcceptTypes, WorkInRange
    <3>3. AfterMedian(headers, b.nTime) /\ headers' = Append(headers, b)
      BY <3>1 DEF AcceptBlock, TimeAcceptable
    <3> HIDE DEF b
    <3> QED
      BY <2>1, <3>2, <3>3, MedianStep
  <2> QED
    BY <2>2, <2>3, StepKinds
<1> QED
  BY <1>1, DifficultyTypes, PTL DEF DifficultySpec, MedianAdvances

\* At a boundary the two time-warp rules order the ends of the interval, so their
\* unsigned difference is their distance, and the target shrinks with it.
LEMMA FastStep ==
    ASSUME DifficultyTypeOK, NEW t \in Nat, AcceptBlock(t), Enforced(headers), AtBoundary(headers),
           Last(headers).nTime < First(headers).nTime + TargetTimespan
    PROVE  Last(headers').nBits <= Last(headers).nBits
<1> DEFINE last    == Last(headers).nTime
           first   == First(headers).nTime
           bits    == Last(headers).nBits
           actual  == Minus(last, first)
           clamped == IF actual < TargetTimespan \div 4 THEN TargetTimespan \div 4
                      ELSE IF actual > TargetTimespan * 4 THEN TargetTimespan * 4
                      ELSE actual
           bnNew   == (bits * clamped) \div TargetTimespan
           capped  == IF bnNew > ProofOfWorkLimit THEN ProofOfWorkLimit ELSE bnNew
<1>1. headers \in Branches
  BY HeadersBranch
<1>2. last \in Nat /\ first \in Nat /\ bits \in Nat
  <2>1. Len(headers) \in DOMAIN headers /\ Len(headers) - nInterval + 1 \in DOMAIN headers
    BY <1>1, FirstExists, TimesOfBranches
  <2>2. ProofOfWorkLimit \in Nat
    BY DifficultyAssumption
  <2> QED
    BY <1>1, <2>1, <2>2, TimesOfBranches DEF Last, First
<1>3. /\ TargetTimespan \in Nat \ {0} /\ ProofOfWorkLimit \in Nat
      /\ MaxAhead \in Nat /\ MaxAhead <= TargetTimespan \div 8
  BY DifficultyAssumption
<1>4. t <= last + MaxAhead /\ t >= first + TargetTimespan \div 8
  BY DEF AcceptBlock, TimeAcceptable, NotFarAhead, NotTooShort
<1>5. last >= first
  BY <1>2, <1>3, <1>4
<1>6. actual \in Nat /\ actual <= TargetTimespan
  BY <1>2, <1>3, <1>5 DEF Minus
<1>7. clamped \in Nat /\ clamped <= TargetTimespan
  BY <1>3, <1>6
<1>8. bnNew \in Nat /\ bnNew <= bits
  <2> HIDE DEF clamped, bits
  <2> QED
    BY <1>2, <1>3, <1>7, ScaledDown
<1>9. capped \in Nat /\ capped <= bits
  BY <1>2, <1>3, <1>8
<1>10. GetNextWorkRequired(headers) = Compact(capped)
  BY DEF GetNextWorkRequired
<1>11. GetNextWorkRequired(headers) <= bits
  <2>1. Compact(capped) \in 0..capped
    BY <1>9, CompactBelow
  <2> QED
    BY <1>2, <1>9, <1>10, <2>1
<1>12. Last(headers') = [nTime |-> t, nBits |-> GetNextWorkRequired(headers)]
  BY <1>1, TimesOfBranches DEF AcceptBlock, Last, Branches
<1> QED
  BY <1>11, <1>12

\* After a fast interval mining does not become easier.
THEOREM FastIntervals == DifficultySpec => FastNeverEasier
<1> DEFINE A == /\ Len(headers') > Len(headers)
                /\ Enforced(headers) /\ AtBoundary(headers)
                /\ Last(headers).nTime < First(headers).nTime + TargetTimespan
                => Last(headers').nBits <= Last(headers).nBits
<1>1. DifficultyTypeOK /\ [DifficultyNext]_timeVars => [A]_timeVars
  <2> SUFFICES ASSUME DifficultyTypeOK, [DifficultyNext]_timeVars,
                      Len(headers') > Len(headers), Enforced(headers), AtBoundary(headers),
                      Last(headers).nTime < First(headers).nTime + TargetTimespan
               PROVE  Last(headers').nBits <= Last(headers).nBits
    OBVIOUS
  <2>1. CASE UNCHANGED headers
    BY <2>1, HeadersBranch, TimesOfBranches
  <2>2. CASE \E t \in Nat : AcceptBlock(t)
    BY <2>2, FastStep
  <2> QED
    BY <2>1, <2>2, StepKinds
<1> QED
  BY <1>1, DifficultyTypes, PTL DEF DifficultySpec, FastNeverEasier
=============================================================================
