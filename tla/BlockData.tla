------------------------------ MODULE BlockData ------------------------------
(***************************************************************************)
(* Blocks and transactions as data: their bytes, the places of the         *)
(* transactions in the block files, the hash tree over them, which of two  *)
(* versions of a transaction is the newer, the checks of a transaction     *)
(* that need no context, and the transactions a wallet keeps with one of   *)
(* its own to be able to send it again.                                    *)
(***************************************************************************)
EXTENDS Serial

CONSTANTS
    HashBytes,      \* 32 in the code
    HeaderBytes,    \* 80 in the code
    pchMessageStart,
    FileLimit,      \* 0x7F000000 - MAX_SIZE: no block begins after this
    MAX_MONEY,
    ValueBits,      \* 64: the width of an amount
    UINT_MAX,
    COPY_DEPTH      \* 3 in the code

ASSUME BlockDataAssumption ==
    /\ {HashBytes, HeaderBytes, FileLimit, MAX_MONEY, ValueBits, UINT_MAX, COPY_DEPTH} \subseteq Nat \ {0}
    /\ 2 * MAX_MONEY < 2 ^ (ValueBits - 1)

-----------------------------------------------------------------------------
(* Transactions and blocks as bytes.  The header is taken as it is.        *)

SizeOutPoint(o) == HashBytes + 4
WriteOutPoint(o) == o[1] \o WriteInt(4, o[2])
ReadOutPoint(s) == ReadPair(LAMBDA r : ReadFlat(HashBytes, r), LAMBDA r : ReadInt(4, r), s)

SizeTxIn(i) == SizeOutPoint(i.prevout) + SizeString(i.scriptSig) + 4
WriteTxIn(i) ==
    WriteOutPoint(i.prevout) \o WriteString(i.scriptSig) \o WriteInt(4, i.nSequence)
ReadTxIn(s) ==
    As(ReadPair(ReadOutPoint, LAMBDA r : ReadPair(ReadString, LAMBDA q : ReadInt(4, q), r), s),
       LAMBDA p : [prevout |-> p[1], scriptSig |-> p[2][1], nSequence |-> p[2][2]])

SizeTxOut(o) == 8 + SizeString(o.scriptPubKey)
WriteTxOut(o) == WriteInt(8, o.nValue) \o WriteString(o.scriptPubKey)
ReadTxOut(s) ==
    As(ReadPair(LAMBDA r : ReadInt(8, r), ReadString, s),
       LAMBDA p : [nValue |-> p[1], scriptPubKey |-> p[2]])

SizeTx(t) ==
    4 + SizeVector([i \in 1..Len(t.vin) |-> SizeTxIn(t.vin[i])])
      + SizeVector([i \in 1..Len(t.vout) |-> SizeTxOut(t.vout[i])]) + 4
WriteTx(t) ==
    WriteInt(4, t.nVersion)
        \o WriteVector([i \in 1..Len(t.vin) |-> WriteTxIn(t.vin[i])])
        \o WriteVector([i \in 1..Len(t.vout) |-> WriteTxOut(t.vout[i])])
        \o WriteInt(4, t.nLockTime)
ReadTx(s) ==
    LET Rest(r) == ReadPair(LAMBDA q : ReadVector(ReadTxOut, q), LAMBDA q : ReadInt(4, q), r)
        Lists(r) == ReadPair(LAMBDA q : ReadVector(ReadTxIn, q), Rest, r)
    IN  As(ReadPair(LAMBDA r : ReadInt(4, r), Lists, s),
           LAMBDA p : [nVersion |-> p[1], vin |-> p[2][1], vout |-> p[2][2][1],
                       nLockTime |-> p[2][2][2]])

NullBlock == [header |-> Zeros(HeaderBytes), vtx |-> <<>>]
TxSizes(b) == [i \in 1..Len(b.vtx) |-> SizeTx(b.vtx[i])]
SizeBlock(b) == HeaderBytes + SizeVector(TxSizes(b))
WriteBlock(b) == b.header \o WriteVector([i \in 1..Len(b.vtx) |-> WriteTx(b.vtx[i])])
ReadBlock(s) ==
    As(ReadPair(LAMBDA r : ReadFlat(HeaderBytes, r), LAMBDA r : ReadVector(ReadTx, r), s),
       LAMBDA p : [header |-> p[1], vtx |-> p[2]])

-----------------------------------------------------------------------------
(* The block files                                                         *)

\* Files that the program has begun, and the one it appends to.
NoFiles == [files |-> <<<<>>>>, nCurrentBlockFile |-> 1]

\* The first from here on that is short enough: files are as numbered, one not there is new.
AppendBlockFile(d) ==
    LET long == {i \in d.nCurrentBlockFile..Len(d.files) : Len(d.files[i]) >= FileLimit}
        n    == CHOOSE i \in d.nCurrentBlockFile..(Len(d.files) + 1) :
                    i \notin long /\ \A j \in d.nCurrentBlockFile..(i - 1) : j \in long
    IN  [files |-> IF n > Len(d.files) THEN Append(d.files, <<>>) ELSE d.files,
         nCurrentBlockFile |-> n]

\* CBlock::WriteToDisk, of which the program may not live to write but the first bytes, and
\* starts again.
WriteToDisk(d, b, bytes) ==
    LET all  == pchMessageStart \o WriteInt(4, SizeBlock(b)) \o WriteBlock(b)
        open == AppendBlockFile(d)
        n    == open.nCurrentBlockFile
        done == bytes >= Len(all)
    IN  [files |-> [open.files EXCEPT ![n] = @ \o (IF done THEN all ELSE SubSeq(all, 1, bytes))],
         nCurrentBlockFile |-> IF done THEN n ELSE 1,
         place |-> [nFile |-> n, nBlockPos |-> Len(open.files[n]) + Len(pchMessageStart) + 4]]

OpenAt(d, nFile, pos) == SubSeq(d.files[nFile], pos + 1, Len(d.files[nFile]))

\* Mutant of TxPositions: the number of transactions takes one byte.
TxPositionsShort(b, nBlockPos) ==
    [i \in 1..Len(b.vtx) |->
        nBlockPos + SizeBlock(NullBlock) + Total(SubSeq(TxSizes(b), 1, i - 1))]

\* Where ConnectBlock says that the transactions of a block are.
TxPositions(b, nBlockPos) ==
    [i \in 1..Len(b.vtx) |->
        nBlockPos + SizeBlock(NullBlock) - 1 + GetSizeOfCompactSize(Len(b.vtx))
            + Total(SubSeq(TxSizes(b), 1, i - 1))]

-----------------------------------------------------------------------------
(* The hash tree.  A hash is that of different things only if they are     *)
(* equal: <<left, right>>, or what a leaf is.                              *)

\* The rows of the tree, one above the other; the last of an odd row is its own neighbour.
Above(row) ==
    [i \in 1..((Len(row) + 1) \div 2) |->
        <<row[2 * i - 1], IF 2 * i <= Len(row) THEN row[2 * i] ELSE row[2 * i - 1]>>]
BuildMerkleTree(leaves) ==
    LET rows[k \in 0..Len(leaves)] ==
            IF k = 0 THEN leaves
            ELSE IF Len(rows[k - 1]) > 1 THEN Above(rows[k - 1]) ELSE <<>>
    IN  SelectSeq([k \in 1..(Len(leaves) + 1) |-> rows[k - 1]], LAMBDA row : row # <<>>)
MerkleRoot(leaves) == Head(Last(BuildMerkleTree(leaves)))

\* Indices begin with 0, as in the code: that of the other side, in each row but the last.
Other(i) == IF i % 2 = 0 THEN i + 1 ELSE i - 1
GetMerkleBranch(leaves, nIndex) ==
    LET tree == BuildMerkleTree(leaves)
    IN  [k \in 1..(Len(tree) - 1) |->
            LET last == Len(tree[k]) - 1
                i    == Other(nIndex \div 2 ^ (k - 1))
            IN  tree[k][1 + IF i <= last THEN i ELSE last]]

\* Mutant of CheckMerkleBranch: the leaf is always the left one.
CheckMerkleBranchLeft(hash, branch, nIndex) ==
    FoldLeft(LAMBDA h, other : <<h, other>>, hash, branch)

CheckMerkleBranch(hash, branch, nIndex) ==
    LET h[k \in 0..Len(branch)] ==
            IF k = 0 THEN hash
            ELSE IF (nIndex \div 2 ^ (k - 1)) % 2 = 1 THEN <<branch[k], h[k - 1]>>
            ELSE <<h[k - 1], branch[k]>>
    IN  h[Len(branch)]

\* CMerkleTx::SetMerkleBranch: where the transaction is in the block, and its branch.
SetMerkleBranch(t, leaves) ==
    IF \E i \in 1..Len(leaves) : leaves[i] = t
    THEN LET nIndex == (CHOOSE i \in 1..Len(leaves) :
                            leaves[i] = t /\ \A j \in 1..(i - 1) : leaves[j] # t) - 1
         IN  [nIndex |-> nIndex, vMerkleBranch |-> GetMerkleBranch(leaves, nIndex)]
    ELSE [nIndex |-> -1, vMerkleBranch |-> <<>>]

-----------------------------------------------------------------------------
(* Versions of a transaction, and checks without context                   *)

\* Mutant of Lower: the other's number counts when it is as low.
LowerEqual(lowest, a, b) ==
    IF b <= lowest.n THEN [newer |-> TRUE, n |-> b] ELSE IF a <= lowest.n THEN [newer |-> FALSE, n |-> a]
    ELSE lowest

\* Two sequence numbers that differ: the lowest so far, and whether it is the other's.
Lower(lowest, a, b) ==
    LET mine == IF a <= lowest.n THEN [newer |-> FALSE, n |-> a] ELSE lowest
    IN  IF b < mine.n THEN [newer |-> TRUE, n |-> b] ELSE mine

\* The version is newer that does not have the lowest number of those that differ.
IsNewerThan(t, old) ==
    /\ Len(t.vin) = Len(old.vin)
    /\ \A i \in 1..Len(t.vin) : t.vin[i].prevout = old.vin[i].prevout
    /\ LET number(v, i) == v.vin[i].nSequence
           differ == SelectSeq([i \in 1..Len(t.vin) |-> i],
                               LAMBDA i : number(t, i) # number(old, i))
       IN  FoldLeft(LAMBDA l, i : Lower(l, number(t, i), number(old, i)),
                    [newer |-> FALSE, n |-> UINT_MAX], differ).newer

AsInt64(n) == ((n + 2 ^ (ValueBits - 1)) % 2 ^ ValueBits) - 2 ^ (ValueBits - 1)
MoneyRange(n) == n >= 0 /\ n <= MAX_MONEY

\* Mutant of InRange: the sum is looked at when it is complete.
InRangeAtEnd(values) ==
    /\ \A i \in 1..Len(values) : MoneyRange(values[i])
    /\ MoneyRange(FoldLeft(LAMBDA sum, n : AsInt64(sum + n), 0, values))

\* No amount is out of range, and neither is the sum at any time.
InRange(values) ==
    LET Add(sum, n) ==
            IF sum.ok /\ MoneyRange(n) /\ MoneyRange(AsInt64(sum.n + n))
            THEN [ok |-> TRUE, n |-> AsInt64(sum.n + n)] ELSE [ok |-> FALSE, n |-> 0]
    IN  FoldLeft(Add, [ok |-> TRUE, n |-> 0], values).ok

NullOutPoint == <<Zeros(HashBytes), UINT_MAX>>
IsCoinBase(t) == Len(t.vin) = 1 /\ t.vin[1].prevout = NullOutPoint
CheckTransaction(t) ==
    /\ t.vin # <<>> /\ t.vout # <<>>
    /\ InRange([i \in 1..Len(t.vout) |-> t.vout[i].nValue])
    /\ IF IsCoinBase(t) THEN Len(t.vin[1].scriptSig) \in 2..100
       ELSE \A i \in 1..Len(t.vin) : t.vin[i].prevout # NullOutPoint

-----------------------------------------------------------------------------
(* CWalletTx::AddSupportingTransactions.  w is what the node knows: for    *)
(* every transaction those it spends (vin) and its depth in the chain, 0   *)
(* if it is not in it, those in the wallet, and copies[t]: those that came *)
(* to the wallet together with t.                                          *)

\* Mutant of WorkStep: a transaction is looked for again each time it is met.
WorkStepAgain(w, m) ==
    LET t == Head(m.queue)
        copies == m.copies \cup (IF t \in w.wallet THEN w.copies[t] ELSE {})
    IN  IF t \in w.wallet \cup m.copies \/ w.depth[t] > 0
        THEN [m EXCEPT !.copies = copies, !.vtxPrev = Append(@, t),
                !.queue = Tail(@) \o IF w.depth[t] < COPY_DEPTH THEN w.vin[t] ELSE <<>>]
        ELSE [m EXCEPT !.queue = Tail(@)]

\* The next transaction of the queue: from the wallet, a copy met so far, or the disk.
WorkStep(w, m) ==
    LET t == Head(m.queue)
        copies == m.copies \cup (IF t \in w.wallet THEN w.copies[t] ELSE {})
        rest == [m EXCEPT !.queue = Tail(@), !.done = @ \cup {t}]
    IN  IF t \in m.done THEN rest
        ELSE IF t \in w.wallet \cup m.copies \/ w.depth[t] > 0
        THEN [rest EXCEPT !.copies = copies, !.vtxPrev = Append(@, t),
                !.queue = @ \o IF w.depth[t] < COPY_DEPTH THEN w.vin[t] ELSE <<>>]
        ELSE rest

AddSupportingTransactions(w, t) ==
    LET begin == [queue |-> IF w.depth[t] < COPY_DEPTH THEN w.vin[t] ELSE <<>>,
                  done |-> {}, copies |-> {}, vtxPrev |-> <<>>]
        work(m, k) == IF m.queue = <<>> THEN m ELSE WorkStep(w, m)
    IN  Reverse(FoldLeft(work, begin, [k \in 1..Cardinality(DOMAIN w.vin) ^ 2 |-> k]).vtxPrev)
=============================================================================
