------------------------------ MODULE DataKept ------------------------------
(***************************************************************************)
(* What the functions of BlockData and Clock promise, on families of       *)
(* blocks, transactions, amounts, wallets and samples of the time.  They   *)
(* have no state of their own: they are looked at once, in the state in    *)
(* which the machine of Signatures has nothing to run yet.                 *)
(***************************************************************************)
EXTENDS Signatures, BlockData, Clock

CONSTANTS
    Maps,           \* of numbers to numbers
    Blocks,
    Cut,            \* how many bytes are written before the program ends
    MaxWrites, MaxLeaves,
    Versions,       \* transactions, of which some spend the same
    Amounts,        \* sequences of amounts
    Wallets,        \* what a node may know
    Samples         \* sequences of samples of the time

AtStart == script = <<>> /\ vm = MachineInit /\ edits = 0

\* One value.
Kept(Size(_), Write(_), Read(_), x) ==
    LET bytes == Write(x)
    IN  /\ Len(bytes) = Size(x)
        /\ Read(bytes \o pchMessageStart) = Found(x, pchMessageStart)
        /\ \A k \in 0..(Len(bytes) - 1) : ~Read(SubSeq(bytes, 1, k)).ok

\* What is written (blocks, strings, maps, sets, fields) is read back, with nothing of what
\* follows, in as many bytes as were foreseen; and what is cut short is not taken for
\* something shorter.
StructuresKept == AtStart =>
    /\ \A b \in Blocks : /\ Kept(SizeBlock, WriteBlock, ReadBlock, b)
                         /\ Kept(SizeString, WriteString, ReadString, b.header)
    /\ \A m \in Maps : /\ Kept(SizeMap, WriteMap, ReadMap, m)
                      /\ Kept(SizeSet, WriteSet, ReadSet, DOMAIN m)
    /\ \A b \in Blocks :
          LET str == SubSeq(b.header, 1, FieldLength)
          IN  ReadField(WriteField(str) \o pchMessageStart) = Found(CString(str), pchMessageStart)

\* The files after each write.
AllWritten(writes) ==
    FoldLeft(LAMBDA ds, w : Append(ds, WriteToDisk(Last(ds), w[1], w[2])),
             <<NoFiles>>, writes)

\* Blocks are written to the files one after the other, and now and then the program ends
\* in the middle of one: what was written completely is found at its place, the block and
\* each of its transactions where ConnectBlock puts them, and no block begins in a file
\* that is too long.
BlocksInPlace == AtStart =>
    \A n \in 1..MaxWrites : \A writes \in [1..n -> Blocks \X Cut] :
        LET ds == AllWritten(writes)
            d  == Last(ds)
        IN  \A i \in 1..n :
              LET b == writes[i][1]
                  place == ds[i + 1].place
                  at == place.nBlockPos
                  txs == TxPositions(b, at)
              IN  /\ at < FileLimit + Len(pchMessageStart) + 4
                  /\ writes[i][2] >= Len(pchMessageStart) + 4 + SizeBlock(b) =>
                        /\ ReadBlock(OpenAt(d, place.nFile, at)).n = b
                        /\ \A k \in 1..Len(b.vtx) :
                              ReadTx(OpenAt(d, place.nFile, txs[k])).n = b.vtx[k]

\* The branch of a transaction proves that it is in the block and at its place, and proves
\* this of no other.
BranchProves == AtStart =>
    \A n \in 1..MaxLeaves :
        LET leaves == [i \in 1..n |-> <<i>>]
            root == MerkleRoot(leaves)
        IN  \A i \in 1..n :
              LET merkle == SetMerkleBranch(<<i>>, leaves)
              IN  /\ merkle.nIndex = i - 1
                  /\ \A t \in 1..(n + 1) :
                        CheckMerkleBranch(<<t>>, merkle.vMerkleBranch, merkle.nIndex) = root
                            <=> t = i

\* Whichever of the versions of a transaction came first, and however many replaced each
\* other, no version replaces one that has replaced it: what is newer than a newer one is
\* newer.
NewerIsOrder == AtStart =>
    \A a, b \in Versions :
        IsNewerThan(a, b) =>
            /\ ~IsNewerThan(b, a)
            /\ \A c \in Versions : IsNewerThan(b, c) => IsNewerThan(a, c)

\* A transaction that is let through has outputs whose sum is what a sum without end of the
\* range gives.
SumIsExact == AtStart =>
    \A values \in Amounts :
        InRange(values) =>
            /\ FoldLeft(LAMBDA sum, n : sum + n, 0, values) <= MAX_MONEY
            /\ \A i \in 1..Len(values) : values[i] \in 0..MAX_MONEY

\* The wallet keeps with a transaction, once each, all that it spends and that what it
\* keeps spends, until it is deep enough in the chain, if the wallet or the disk has it, and
\* nothing but these and copies that came to the wallet.
SupportKept == AtStart =>
    \A w \in Wallets : \A t \in w.wallet :
        LET kept == AddSupportingTransactions(w, t)
            has  == {u \in DOMAIN w.vin : u \in w.wallet \/ w.depth[u] > 0}
            open == {u \in {t} \cup Range(kept) : w.depth[u] < COPY_DEPTH}
            spends == UNION {Range(w.vin[u]) : u \in open}
        IN  /\ \A i, j \in 1..Len(kept) : kept[i] = kept[j] => i = j
            /\ spends \cap has \subseteq Range(kept)
            /\ Range(kept) \subseteq spends \cap (has \cup UNION {w.copies[u] : u \in w.wallet})

\* However often and in whatever order the peers tell their time, each has one vote and so
\* has the node: its offset is such that more than half of the votes of the last odd number
\* are at least as high, and more than half at most.
ClockByMajority == AtStart =>
    \A samples \in Samples :
        LET first(i) == \A j \in 1..(i - 1) : samples[j].ip # samples[i].ip
            firsts == SelectSeq([i \in 1..Len(samples) |-> i], first)
            votes == <<0>> \o [k \in 1..Len(firsts) |-> samples[firsts[k]].offset]
            n == IF Len(votes) % 2 = 1 THEN Len(votes) ELSE Len(votes) - 1
            nTimeOffset == FoldLeft(AddTimeData, NoTimeData, samples).nTimeOffset
        IN  IF n < MinSamples THEN nTimeOffset = 0
            ELSE /\ 2 * Cardinality({i \in 1..n : votes[i] >= nTimeOffset}) > n
                 /\ 2 * Cardinality({i \in 1..n : votes[i] <= nTimeOffset}) > n

\* Whatever is written as bytes, digits, words or records of a file is read back.
ValuesKept ==
    /\ NumbersKept /\ CompactKept /\ Base58Kept /\ SizesKept /\ WordsAreNumbers
    /\ ScriptsReadBack /\ StructuresKept /\ BlocksInPlace

\* The algorithms on blocks, transactions and the clock agree with what they are for.
AnswersRight == BranchProves /\ NewerIsOrder /\ SumIsExact /\ SupportKept /\ ClockByMajority
=============================================================================
