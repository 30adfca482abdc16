# A verification of bitcoinOG

This directory holds TLA+ models of the node in `../src`, the TLC
configurations that check them on small instances, and proofs of theorems about
them for the TLA+ proof system. Everything is translated from the C++ source;
line numbers refer to it.

Run `tlc -config fork.cfg MCBlockChain.tla` to check a configuration (each run
of section 4 names its module) and `tlapm BlockChainProofs.tla` to check a
module of proofs.

## 1. The system

| Component | Where | State | Operations | Hard behaviour | What makes it correct |
|---|---|---|---|---|---|
| Block chain | `main.cpp` 86-125, 900-1610; `main.h` 876-1290 | `mapBlockIndex`, `pindexBest`, `hashBestChain`, `nBestHeight`, `pnext` links, `mapOrphanBlocks` | `ProcessBlock`, `AcceptBlock`, `AddToBlockIndex`, `Reorganize`, `ConnectBlock`, `DisconnectBlock` | a reorganization fails half way; branches deleted while others point into them; orphans in any order; crash at any point | the tip, the links, the transaction database and the files always describe one valid branch |
| Transaction database | `bitcoin_db.cpp`, `main.h` 1000-1051 | `blkindex.dat`, `blk0001.dat` | `CTxDB`, `TxnBegin/Commit/Abort`, `WriteToDisk`, `ReadFromDisk`, `LoadBlockIndex` | one transaction around `Reorganize`, writes outside it, reload after a crash | committed state is a function of the best chain |
| Database environment | `bitcoin_db.cpp`, `init.cpp`, `net.cpp` | `mapFileUseCount`, `mapDb`, the log and the data files | opening and closing a `CDB`, `DBFlush`, `CloseDb`, `ThreadFlushWalletDB`, `Shutdown`, `-recover` | flushing while others open; threads that outlive the exit | no handle is closed in use; an orderly exit leaves no log; recovery loses no wallet record |
| Memory pool | `main.cpp` 330-375, 596-708, 2363-2420 | `mapTransactions`, `mapNextTx`, `mapOrphanTransactions` | `AcceptTransaction`, `AddToMemoryPool`, `RemoveFromMemoryPool`, the `tx` message | blocks confirm, conflict with and disconnect pool transactions; replacement | no pointer to a removed transaction; nothing confirmed stays in the pool |
| Wallet | `main.cpp` 180-330, 767-900, 3430-3753; `main.h` 728-808 | `mapWallet` with `fSpent`, keys, `wallet.dat` | `AddToWallet`, `WalletUpdateSpent`, `SelectCoins`, `CreateTransaction`, `CommitTransaction`, `ReacceptWalletTransactions` | spending races blocks; a commit that fails or dies half way; reorganizations; copies of the wallet | a coin is not paid twice, and nothing that others have is lost |
| Difficulty and time | `main.cpp` 927-972, 1472-1518; `main.h` 1175-1200; `util.cpp` | block headers, `nTimeOffset` | `GetNextWorkRequired`, `GetMedianTimePast`, time-warp rules, `AddTimeData` | interval boundaries, mixed signedness | targets stay in bounds; a fast interval never makes mining easier |
| Miner | `main.cpp` 2724-3367, `rpc.cpp` | `pindexPrev` and template of each thread, `mapGetworkBlocks`, `fGenerateBitcoins` | `BitcoinMiner`, `CreateNewBlock`, `getwork`, `getblocktemplate`, `submitblock` | threads read tip, pool and height at different times and locks | what is solved on the tip connects; its key is on disk first |
| Block relay | `main.cpp` 1963-2704, `net.h` | `mapAskFor`, `setInventoryKnown`, `hashContinue` | `inv`, `getdata`, `getblocks`, `block` | lost connections, a peer that stops answering | a node that lags gets to its peers' chain |
| Addresses | `net.cpp`, `main.cpp` 2120-2600, `irc.cpp` | `mapAddresses`, `addr.dat`, `setAddrKnown`, `fGetAddr` | `addr`, `getaddr`, rebroadcast, clean-up, seeding | ages, restamping, what a peer is thought to know | who is there is known, who left is forgotten |
| Connections | `net.cpp`, `net.h` | `vNodes`, `vNodesDisconnected`, reference counts | the socket, connection and message threads, the dialog | threads delete what others hold | no node is used after it is deleted |
| Message streams | `net.h` 560-760, `net.cpp`, `main.cpp` 1990-2090, `serialize.h` | `vSend`, `vRecv` | `BeginMessage` to `EndMessage`, `SocketSend`, `SocketReceive`, `ProcessMessages` | several writers, bytes in any pieces, damage | what arrives is what was pushed, in order |
| Script | `script.cpp`, `script.h`, `key.h` | stacks, conditions | `EvalScript`, `SignatureHash`, `Solver`, `SignSignature`, `VerifySignature` | conditionals, stack underflow, off-by-ones | conditionals nest, failed tests fail, a signature covers what it should |
| Data | `main.h`, `serialize.h`, `bignum.h`, `uint256.h`, `base58.h` | none | encodings, merkle trees, compact targets, `IsNewerThan`, `CheckTransaction` | odd sizes, sign bits, boundaries | what is written is read back; agreement with a reference definition |
| JSON-RPC | `rpc.cpp` | other components' | reports on the wallet, mining calls | several ways to the same sum | the sums agree |
| Graphical interface | `ui.cpp` | the list control, the dialog's flags | the list of transactions, `CSendingDialog` | filled while the wallet changes; two threads without a lock | the list is complete; who is told of a cancel has not paid |
| Start and shutdown | `init.cpp`, `net.cpp` | `fShutdown`, `vnThreadsRunning` | `AppInit2`, `Shutdown`, `StopNode` | threads that do not end | see Wallet, Databases |
| Hashes, JSON library, `db.cpp` | the rest | none | | | not modelled: arithmetic, vendored code; `db.cpp` is built by no makefile |

How they interact: the socket thread moves bytes, the message thread finds the
messages in them and hands `block` and `tx` to the chain and the pool under
`cs_main`; the chain tells the pool (`RemoveFromMemoryPool`,
`AcceptTransaction` of resurrected transactions) and the wallet
(`AddToWalletIfMine`) what it connects; miners and RPC calls read the tip and
the pool and hand blocks to `ProcessBlock`; the window and the RPC calls read
the wallet under its own lock; everything persistent goes through `CTxDB`,
`CWalletDB` and `CAddrDB`, which share one environment.

## 2. The plan

Done: the chain with its database and abstract ledger, the pool composed with
it, difficulty, connections, databases, the wallet, the miner, relay of blocks
and addresses, message streams, scripts and signatures, data, and what the
interfaces show; with proofs about the chain, the pool, difficulty, connections,
databases, the wallet, the miner, the relay, message streams, the list of
transactions with the amounts that are reported, and the dialog.

Left:

1. What a damaged byte can do to the order of delivery, under assumptions on
   what data may contain (section 6).
2. Relay of transactions together with the pools of two nodes; so far the pool
   meets messages in any order, which covers what a relay could do to it.

## 3. The modules

Mutants of a definition stand in front of it, named for what they do wrong: each
property has been seen to fail under at least one of them.

### The chain

**`BlockTree`** is the data of the world: the blocks that may ever be mined,
with parent, height, ancestors, transactions and what their coinbase claims,
and the consensus parameters. A block of the model has passed `CheckBlock`,
which looks at the block and the clock only. Assumptions: the links form a tree
(`TreeAssumption`, as hashes make them), transactions have the shape
`CheckTransaction` asks for (`TxAssumption`), two blocks of one branch do not
share a coinbase (`CoinbaseAssumption`; nothing in `ConnectBlock` enforces that,
miners do, who pay each block to a new key), and parameters have their types.
Signatures, fees and times are the sets `Sound` and `WellTimed`. `Branch` and
`ValidBranch` say what a valid history is: every input names an earlier output,
and no output is spent twice.

**`BlockChain`** is the node. Its variables are the code's:

| Variable | Code |
|---|---|
| `mapBlockIndex`, `pnext`, `pindexBest` | the globals of `main.cpp`; `nBestHeight` and `hashBestChain` follow `pindexBest` |
| `stubs` | entries `InsertBlockIndex` creates for a hash that has no record (`bitcoin_db.cpp` 929) |
| `dangling` | entries whose `pprev` points to an entry that `Reorganize` deleted |
| `txdb`, `view` | `blkindex.dat` as committed, and as the open transaction sees it |
| `blkFile` | the blocks whose bytes are intact in the block file |
| `orphans`, `workQueue` | `mapOrphanBlocks`, `vWorkQueue` |
| `phase`, `pindexNew`, `cursor` | where the handler is within `Reorganize` |

`ProcessBlock(b)` is the disjunction of what `AcceptBlock` and
`AddToBlockIndex` can do with a block: keep it as orphan, refuse it, leave it in
the index after a failed checkpoint test, record it, connect it to the tip, fail
to connect it, or start a reorganization. A reorganization is one step per block
disconnected, connected or deleted, so that a crash (`Restart`, which is
`LoadBlockIndex` on what is on disk) can come between any two. The work queue is
stepped through in the same way. The handler holds `cs_main` from beginning to
end, so no other message is handled between its steps.

Following a dangling `pprev` is undefined behaviour. The model lets the walk
find the old entry intact, find nothing (the block is refused), or crash the
process; it does not let it find another entry.

**`Ledger`** is what the chain promises: a tip, the transactions confirmed and
the outputs spent, which move in one step from one valid branch to a higher one.
`ImplementsLedger` says that the committed database implements it.
**`ChainClaims`** states what a message of the program says and the code does
not do. **`BlockChainInv`** is the inductive invariant. **`MCBlockChain`** has
the trees of the runs, written with the help of **`SmallTrees`**.

### The pool

**`MemPool`** is the pool, as a component that asks two things of the chain,
whether a transaction is confirmed and whether its inputs connect:

| Variable | Code |
|---|---|
| `mapTransactions` | the map of that name, as a set |
| `mapNextTx` | per outpoint, the transaction its `CInPoint` points to |
| `mapOrphanTransactions` | the map of that name; `mapOrphanTransactionsByPrev` is its index |
| `txQueue`, `txAccepted`, `txTried` | where a `tx` message is in its walk: the rest of `vWorkQueue`, all of it, and the held transactions already tried for the current element |

`AcceptTransaction` is `Fits` (the tests that do not look at the chain, with the
replacement of an older version), the two answers of the chain, and
`Acceptance`. A `tx` message is accepted (`TxAccepted`), held (`TxHeld`) or
changes nothing; after an acceptance `TryOrphan` and `NextTx` walk over what was
held, in any order, and `FinishTx` drops what was accepted.

**`NodePool`** composes the two. A block that extends the chain takes its
transactions out of the pool (`ConfirmBlock`), the commit of a reorganization
resurrects and deletes (`SwitchBranch`), and a restart empties the pool and lets
the wallet put back what it holds (`RestartNode`, `ReacceptWalletTransactions`,
with any wallet). Block and transaction messages exclude each other, as
`cs_main` makes them. **`MCNodePool`** has the instance.

### Difficulty and the clock

**`Difficulty`** is one branch growing in time: `headers` are `nTime` and
`nBits` of the blocks from genesis to `pindexPrev`, `now` is
`GetAdjustedTime()`. `AcceptBlock(t)` appends a block with time `t` if the test
of `CheckBlock` (`NotInFuture`) and those of `AcceptBlock` (`AfterMedian`, and
from the activation height on `NotFarAhead` and `NotTooShort`) pass, with the
target `GetNextWorkRequired` asks for. `Receive` takes such a block from
anybody, `Mine` from the node's own miner, who writes `max(median + 1, now)`.
Targets are numbers, rounded as the compact form rounds them, and the difference
of times is the unsigned one of the code. **`Clock`** is `AddTimeData`, an
operator that `DataKept` checks on sequences of samples.

### The wallet

**`Wallet`**: `vin` and `change` say what the transactions spend and pay back,
`mapWallet` and `fSpent` are the code's, `disk` is `wallet.dat`, `chain` is the
list of blocks with their transactions, `mapTransactions` the pool, `relayed`
what others may have. `draft` and `commit` follow the one payment under way from
`CreateTransaction` through the writes of `CommitTransaction` (key, record, one
mark per coin, acceptance by the pool), between any two of which the process
may die. `Coin` are payments to the wallet, `Copy` transactions made with a copy
of it, `Own` those it makes. `Restart` is the graphical build's start, with
`ScanForWalletTransactions` left to its result and `ReacceptWalletTransactions`;
the daemon's `AppInit` never calls the latter (`init.cpp` 558 does so from
`OnInit2` only). Blocks are connected under `cs_main`, which a payment holds, so
that none comes between its writes; only the RPC calls that take no lock could
bring one, and those are left out. Left out, too: maturity, `IsFinal`,
`vtxPrev`, the default key, and that the record of a payment is erased when a
newer version of it is accepted by the pool (`main.cpp` 672-673); which coins
`SelectCoins` takes is any set that suffices. **`MCWallet`** is the
instance.

### Databases, start and shutdown

**`Databases`**: `mapFileUseCount` and `mapDb` are the code's, `cdb` the `CDB`
objects of each thread, innermost last, `log` and `dat` what Berkeley DB has in
the log and in the data files (external: a committed write is in the log, a
checkpoint puts it into the file, opening the environment applies the log).
`stage` follows the process through `-recover`, running, the first `DBFlush`,
`StopNode` and the last `DBFlush(true)`; `Counted` are the threads that
`StopNode` waits for, 20 seconds and 5 (`late` if it gave up). Threads outside
it (`StartNode`, IRC, the window) may be in a database when the environment
closes.

### Connections

**`Nodes`**: places for `CNode` objects with `nRefCount`, `fDisconnect`,
`fNetworkNode`, `fInbound`, and whether `nReleaseTime` is still to come
(`timed`); for each thread (socket, message, opener, the payment dialog) where it
is in its loop and the nodes it has pointers to. `where` tells whether a node is
in `vNodes`, `vNodesDisconnected`, deleted, or in the list of a socket thread
that was cancelled when it hung (`restarted`). Every critical section is one
step; between them anything may come.

### Relay

**`BlockSync`** is one node on a branch of its own and peers on another:
messages as queues on each connection, `setInventoryKnown`, `hashContinue`,
`nAskedForBlocks`, `mapOrphanBlocks`. Blocks of the peers' chain are their
heights. Requests stand by the time they may be sent, as in `net.h` 654-669:
`nRequestTime` is `mapAlreadyAskedFor`, which all connections share, and
`mapAskFor[p][w]` are the blocks that connection `p` asks for in `w` times two
minutes from now, in the order in which they came. A block that was to be asked
for before waits two minutes more than then, whichever peer it was to be asked
of, so that one that is asked for the first time overtakes it; a block that was
taken counts as never asked for (`main.cpp` 2437). `TwoMinutes` may pass in the
middle of anything. `SendGetData` sends whatever is due.

**`Addresses`** has many nodes: what each holds in `mapAddresses` and `addr.dat`
with its age in half days, `fGetAddr`, `setAddrKnown`, `vAddrToSend`; time passes
in half days (`HalfDay`) once the work of one is done. A node starts by trying
what is configured (`TryConfigured`: `-addnode` and anchors once, `-connect`
again and again), asks the DNS seeds (`QueryDNSSeeds`), and then looks for
connections while it has fewer than `MaxConnections` (`Looking`): only then does
it clean up (`Cleanup`), and with fewer than `FewPeers` it tries the hard-coded
seeds, which it first stores as just seen, dead or alive (`TrySeed`). Whatever
is tried, `ConnectNode` notes the time of the attempt under the address's key
(`net.cpp` 480-481), which inserts an entry with no address in it where there is
none: `blank` are those entries, which are in no record, are told to nobody and
are aged and cleaned up like others. Left out: which of the addresses it holds a
node connects to (connections are configured or to seeds; `Situations` gives
those there are in the beginning), what is stored of a blank entry once it is
heard of (a record under the key of no address, which says nothing), the slot
freed of a seed when a node has many connections, the second clause of
`fNeedSeeds`, about connections whose version has not come, what the dialog
connects to, and `addr.txt`.

**`Relay`** runs the one or the other: either there is nobody to tell
addresses, or all blocks have been told. **`MCRelay`** gives the peers and nodes.

### Messages

**`Stream`** is `CDataStream` as operators on a vector and a read position,
**`Messages`** one direction of a connection, byte by byte: threads push
messages into `vSend` under `cs_vSend` (`owner`), the socket threads move any
number of bytes, one of which may be damaged (`Damaged`), and `ProcessMessages`
searches, reads the header, waits by putting it back, and checks the sum. The
header has 5 bytes instead of 24; its change-over at version 209 is left out,
and the checksum is perfect. `MessagesAssumption` says that no message is larger
than `TooLarge`, which the receiver would refuse: `PushMessage` does not look,
its callers push blocks, transactions and lists that are smaller.

### Miner

**`Miner`**: `committed` and `txdb`, `chain` with the pool, and `nBestHeight` are
set one after the other while a block connects (`stage`), as threads that hold
no lock see them. Each thread of `Thread`, and a `getwork` or `submitblock` call
(`Call`), goes through `ReadTip`, `Collect`, `Make`, `Solve` and `Offer` by `pc`
and `template`; `GenerateBitcoins` starts threads, `Leave` and `Gone` end them,
`work` is `mapGetworkBlocks` and `freed` what `ProcessBlock` deleted of it.

The message thread and the miner threads are in `ProcessBlock` with `cs_main`;
`getwork` and `submitblock` enter it without (`rpc.cpp` 736, 566), so any step of
any other thread may come between theirs: `ProcessWork` and `GetBlock(Call)`
look at no lock, nor do `SetBest` and `SetHeight` when the call makes them.
`Connect` starts from what is in the database and in memory at that moment,
which need not agree then. `raced` notes that this has happened: that somebody
entered `ProcessBlock` while another was in it (`Enter`), or that a miner read
the height for its coinbase while a call was between two of its writes (`Make`).
Left out: that `hashBestChain` and `pindexBest` are two writes, that two
Berkeley DB transactions at once may wait for one another, and what two
insertions into one `std::map` at the same time do, which is undefined.

### Scripts, signatures, data

**`Script`** is `EvalScript`: `Execute` takes the machine over one instruction.
A script is a sequence of instructions, of which the last may be cut off
(`CutOff`: an opcode or a push whose bytes are missing, where `GetOp` fails):
`EvalScript` fails when it comes there, in an executed branch or not, and
`Solver`, which compares a script with its templates until neither can be read
on, takes it for the end (`Readable`). **`Signatures`** is `SignatureHash`,
`Solver`, signing and verifying, with a state machine that runs scripts
(`script`, `vm`; `CutShort` is the failure) or lets several people sign and edit
one transaction (`tx`, `signed`). **`Numbers`**, **`Serial`** and
**`BlockData`** are integers, structures, transactions, blocks, hash trees,
`IsNewerThan`, `CheckTransaction` and `AddSupportingTransactions` as operators;
**`DataKept`** says what they promise, **`MCSignatures`** has the families they
are checked on. A byte has 8 values there (`Base`), a hash is its last byte,
`OP_PUSHDATA1` begins at length 2; `OP_4` to `OP_16` and the opcodes on two
bytes are left out, and where the code reads beyond a stack (`OP_2DROP`) or
overflows an `int` (`OP_SUBSTR`) the result is "undefined". An instruction that
is cut off is always the last: the wallet's own `scriptSig`s, which come before
the script of the coin, are whole.

### What users see

**`WalletHistory`** is a wallet's transactions, keys and address book while
blocks come, go and reorganize; **`Reports`** the answers of the RPC calls on it
as operators; **`WalletList`** the list of the main window with its queue
`vWalletUpdated` and the steps of filling and painting it; **`SendingDialog`**
the payment to an IP address, with four plain flags, a worker and a window
(`paid`: the transaction is made; `late`: `fAbort` was set after the worker's
last look at it and before the store that ends cancelling).
A reorganization replaces one block by two, and tests maturity where the code
does, on the chain before it. **`MCInterface`** runs the list, the answers or the
dialog.

## 4. The runs

| Run | Module | Instance | Checks |
|---|---|---|---|
| `fork` | `MCBlockChain` | three branches from a common first block `s`: `a2`, `a3`, `a4`; `z2`, `z3`; and `x1`, which two branches follow, `x2` and `y2`, `y3`. `t` in `a3` and `u` in `z2` spend the same output, `v` is in `a3` and in `z3`, `w` in `z2` spends `u`, `x1` holds both `t` and `u`; coinbases mature after 2 blocks, and `x1` is final only above height 2 | `IndexReplaysChain`, `MainChainLinked`, `BestBranchStored`, `RestartRestores`, `ImplementsLedger`, and under fairness `BranchAdopted` |
| `claim_lockin` | `MCBlockChain` | two branches of two and three blocks and a checkpoint | `CheckpointLockin`, which fails |
| `pool` | `MCNodePool` | after two common blocks, branches of three and three blocks; `t` and `u` spend the same output and `u` is newer, `v` is confirmed by both branches, `w` and `y` spend outputs of `v`; the wallet may hold some of them | `NextTxValid`, `PoolUnconfirmed`, `UnconfirmedKept`, `OrphansProcessed` |
| `retarget` | `Difficulty` | intervals of 3, rules enforced from height 4, 7 blocks, a clock up to 17 | `MedianAdvances`, `FastNeverEasier` |
| `wallet` | `MCWallet` | two coins, a copy of the wallet that has made one transaction, two payments, two blocks | `WalletInv`, `ChainSpentKnown`, `RelayedRecoverable`, `StartRestores` |
| `databases` | `Databases` | two files, two threads, one of them counted, two writes, databases opened within databases | `DatabasesInv`, `OrderlyExit`, `RecoveryKeeps` |
| `nodes` | `MCNodes` | two places for nodes, one address, limits of 1; peers are interchangeable (symmetry) | `NoneDeletedInUse`, `InboundBounded`, `OpenedOnce`, `PeerRefsReleased` |
| `miner` | `MCMiner` | two transactions, one thread, one call at a time, limits 0 and 1, two blocks; once another thread has come between what a call does in `ProcessBlock`, what has begun is followed to its end (`Finishing`) | `MinerInv`, `MinedAccepted` |
| `relay` | `MCRelay` | two peers with five and six of seven blocks, batches of two, a branch of two blocks, one lost connection; or nodes in a ring, nodes connected in a row, a node that starts, with its hard-coded seed there or dead, of which one may leave and one restart | `RelayTypeOK`, and under fairness `CatchesUp`, `Announced`, `DeadForgotten` |
| `messages` | `MCMessages` | two threads, two messages, one damaged byte, a socket of three bytes | `MessagesInv`, and under fairness `AllDelivered` |
| `script` | `MCSignatures` | scripts of a few instructions from the families that matter (conditionals, tests, places on the stack, signatures), whole or cut off in the last instruction; a transaction that spends four coins, two of the wallet, one of somebody else, and one whose script is cut off; and the data of small values | `MachineInv`, `SignaturesSound`, `ValuesKept`, `AnswersRight`, `InstructionEffects` |
| `interface` | `MCInterface` | a wallet of a few transactions that blocks confirm, a list of rows; or the dialog with its two threads | `ListInv`, `AmountsAgree`, `CancelledNotPaid`, `DestroyedOnce` |

Each run takes between some seconds and three minutes with two workers. Type invariants that are
proved (`TypeOK`, `PoolTypeOK`, `NodesTypeOK`, `DifficultyTypeOK`) are not checked again by the runs. Where one property is a conjunction
(`WalletInv`, `DatabasesInv`, `MinerInv`, `MessagesInv`, and the five of
`script`) each conjunct has been seen to fail under a mutant of its own.

**Bounds.** Trees, wallets and sets of transactions are finite, so that orphans,
queues and the database are. In
`fork` the best chain goes from `a2` to `z3` (one block disconnected, two
connected), from there to `a4` (two and three), or straight from `a2` to `a4`:
reorganizations that commit, one back, with `v` on both sides. `u` is too early
in a block after `s`, so `z2` is refused where it extends `s`, and connects only
in a reorganization away from `a2`, where maturity is counted along the old
branch. `x1` spends one output twice: a branch through it always fails, after
blocks have been disconnected, and what is deleted leaves siblings dangling;
while the tip is no higher than 2 `AcceptBlock` refuses it, for it is not final.
Times and targets (`WellTimed` is all blocks) and the subsidy, which each block
claims in full, refuse nothing in this run: for `AcceptBlock` it would be one
more refusal like that of `x1`, for `ConnectBlock` one more block that fails;
the theorems hold with them. In `Difficulty` a unit of time stands for an hour or more: what matters is
how the largest step ahead (`MaxAhead`), the clock's allowance (`MaxFuture`) and
an eighth of the timespan compare, and the run keeps the order the code's values
have; seven blocks and intervals of three cross the boundary before and after
the rules are enforced. `Mantissa` and `Units` make the rounding of targets
visible on small numbers. A limit of 1 is reached by one node and passed by the
second. A socket of three bytes cuts every header and every message in all
ways. Two writes suffice for one that is in the data file and one that is only
in the log. `ListTxs` and `AnswerTxs` bound what the wallet and the blocks have
together: every kind of transaction, with what it spends, and in the list two
that meet at one height. In `relay` a batch of two blocks with five or more to come
makes several batches, so that what is asked for again is overtaken and
`hashContinue` comes in the wrong place; requests wait for at most two times two
minutes there, less than `MaxWait`. A connection is lost before the last block
(`Later`) is found, and the last block comes when the node has settled: see
`CatchesUp` below. In `miner` the height goes to two halvings, one per block, so
that a height read too early shows in what a block pays itself. Every bound is a constant named in its module (`MaxTime`,
`MaxHeight`, `MaxDamaged`, `MaxPushed`, `Top`, `Batch`, ...), and
`CHECK_DEADLOCK FALSE` stands where a run may end: the clock at its bound, a
wallet with everything paid, all bytes delivered.

**Fairness.** `FairSpec` of `BlockChain` asks that the handler, once it has
begun, goes on (`WF_vars(Handler)`); it is one thread that waits for nothing,
and nothing is assumed of peers: a block may never arrive. In the relay the
threads go on, and so does time: weak fairness of `Progress`, which is whatever
node or peer can do, and the passing of two minutes. That asks less than
fairness for each peer, and is enough because what a message, a block or a
connection gives them to do comes to an end, in whatever order it is done; that
a connection is lost is never asked for. For addresses it is the same (`GoesOn`):
the work of a half day ends, in any order, and then time goes on. In `Messages` the
threads that hold a lock go on (weak); the socket threads try the locks again
and again and find them free again and again, hence strong fairness for them.

**The violated claim.** `CheckpointLockin`: `AddToBlockIndex` inserts the entry
before it looks at the checkpoints and leaves it there, so a child of the refused
block is accepted and can become the tip (`main.cpp` 1336, 1348: "rejected by
checkpoint lockin").

**What liveness says.** `CatchesUp`: the node gets all blocks, whatever
connection was lost on the way, if a last block is found after that. Without it
(`Later = 0`) the property is false, and of the code as well: what was asked for
on the lost connection waits for two minutes, blocks that were not come first,
the block of `hashContinue` is asked for in another place and the next
`getblocks` announces what is known; or the one peer that was asked for blocks
has gone, and nobody asks the other (`nAskedForBlocks`, `main.cpp` 2166). The
next block that is announced, being an orphan, makes the node ask for what is
before it. `Announced`: within half a day every node has heard of each that is
online and routable, or has a connection to it that it opened. `DeadForgotten`:
addresses of nodes that are gone are in the end gone from the memory of all that
come to clean up. A node with `-connect`, or with 8 connections, never comes
there, and one with few connections stores the hard-coded seeds again and again,
dead or alive: those are the two exceptions the property makes.

**`MinedAccepted`** says that "block not accepted" (`main.cpp` 3183) takes a call
and another thread that met. Both ways of meeting happen in the run: a call
enters `ProcessBlock` while a thread that holds `cs_main` goes on to offer its
block on the old tip, or a miner reads the height between a call's writes and
pays itself the subsidy of the height before.

### Seen on the way

What the models do as the code does, and a reader of the code may want to know.

*Chain and time.* The last checkpoint is looked up among all indexed blocks, so
going over *to* the checkpointed branch is refused (`main.cpp` 1239). In a
reorganization maturity is counted along the old tip (1066) and the subsidy is
that of its height (922). Only the path to the new block is deleted, siblings
are left with a dangling parent (1283). When a block's
transaction is removed from the pool, a rival of it that stays in the pool loses
its entries in `mapNextTx`, so that two that conflict can both be in the pool
once the block is disconnected (703). Orphans of a block that was
refused after it entered the index are not looked at again (1577), and orphans
are never limited (1567). Three hours after the last block the miner's own
blocks are too far ahead of it (1481, 3128), and after an interval of less than
39 hours the two time-warp rules leave no time for the block at the boundary
(1502). `AddTxIndex` overwrites the record of an equal transaction id
(`bitcoin_db.cpp` 822). A held transaction whose parent arrives in a block is
never tried again (2419).

*Wallet.* `CommitTransaction` may fail after it has marked the coins (3697).
`ConnectInputs` marks coins spent before it finds that they are. A coin received
and spent in one block stays unspent until a restart, `DisconnectBlock` leaves
`fSpent` as it is, and the daemon never puts transactions back
(`ReacceptWalletTransactions` is called by the graphical build only,
`init.cpp` 558). `AddSupportingTransactions` loses a copy that it reaches after
it has looked for its hash in vain.

*Databases.* `-recover` deletes the logs before the wallet's records have been
checkpointed, though it says "wallet.dat preserved" (`bitcoin_db.cpp` 110), and
runs before the test for a second instance. Threads that `StopNode` does not
count may be in a database when `DBFlush(true)` closes the environment; it gives
up after 20 seconds and 5.

*Miner.* `getwork` and `submitblock` call `ProcessBlock` without `cs_main`
(`rpc.cpp` 736, 566): a miner's block on the tip may then be refused, and height,
tip and database need not agree afterwards. A refused block of `getwork` is
deleted but stays in `mapGetworkBlocks` (`rpc.cpp` 736). Two threads over a
lowered limit may both leave (`main.cpp` 3256).

*Connections and relay.* A reference is not given back on one path (`net.cpp`
608). `OpenNetworkConnection` sets `fNetworkNode` when the node is already in
`vNodes`. The opener and the payment dialog may each make a connection to one
address, which `OpenedOnce` does not forbid. A block that was refused is not announced again by those who have it;
the download stops if the peer that was asked leaves, since the count of blocks
asked for stays (`main.cpp` 2165), and `hashContinue` is never answered if the
last block of a batch came from elsewhere. A request that was lost with its connection delays the next one to any other
peer by two minutes (`net.h` 667), and a block never asked for overtakes it.
`AbandonRequests` is never called; an attempt to connect to an address that is
not held leaves an entry with no address in it (480-481), for which there is no
record;
`mapAddresses` is cleaned without its lock, which is held while a seed is
connected to. Seeds by name are stamped three days old, which the clean-up
erases at once; `fGetAddr` is set after "getaddr" is sent (`net.cpp` 1249), and
an answer clears what was still to be told (`main.cpp` 2445). A damaged size
that is still allowed makes the receiver wait for data that never comes
(`main.cpp` 2031).

*Scripts.* `OP_CHECKMULTISIG` takes one value more than its comment says
(`script.cpp` 730, 783-784). An `OP_IF` without an `OP_ENDIF` does not fail.
`Solver` takes a template with an instruction cut off behind it for the template
(938-945), so such an output counts as the wallet's, in its balance and among
its coins, while `EvalScript` fails on it (67-68) and nobody can spend it.
`SIGHASH_SINGLE` beyond the outputs signs the constant 1.

*Interfaces.* `listreceivedbylabel` counts an address twice if the book has two
strings for it; `listtransactions` lists change as a receipt, a coinbase between
depth 100 and 120 with amount 0, and no fee for a payment to oneself. The
window's list does not show a coinbase of a block that became part of the best
chain in a reorganization until it is refreshed, and `RefreshStatusColumn`
skips the row after one that moved. A new
payment to several others that is painted, not filled in, has one line, that of
its last output, since `InsertLine` finds the line it has just made (511); a
payment to three others that is shown anew at another height may have one output
twice and another not at all, which is why `ListSorted` speaks of payments to at
most two. A payment that is cancelled after the worker last looked is told "cancelled"
though it is made ("Last chance to cancel", `ui.cpp` 2310), which
`CancelledNotPaid` leaves aside; and the dialog's two flags for "last one out"
can leave it destroyed by nobody.

## 5. What is proved

Everything here holds for every value of the constants that meets the named
assumptions of the module; TLC evaluates those on the instance of the run.

**The chain** (`BlockChainProofs`). `Spec` implies `[]IInv`, and from it
`[]TypeOK`, `[]IndexReplaysChain`, `[]MainChainLinked`, `[]BestBranchStored`,
`RestartRestores` and `ImplementsLedger`. `IndexReplaysChain` says that the
database is a function of a block: positions, spent marks and forward links are
those of its branch. It is not inductive. To connect a block keeps it only if
the transactions of the block are new to the branch, which holds because a
transaction that spends something would meet its own spent mark
(`ConnectsFresh`); to disconnect a block keeps it only if what the block created
is not spent below it, which holds because the branch is valid
(`SpentWasCreated`). So `IInv` adds that the branch is valid, in memory
(`Settled`) and at the cursor of a reorganization (`Reorganizing`). That the
deletion of an invalid branch spares the main chain (`BestBranchStored`) needs
to know that the block that failed is not in it: were it, the new branch would
reach it through a deleted entry, and such a block cannot be read
(`ConnectFailsInvariant`). That a committed branch is wholly in the index needs
that parent links lead to entries unless they dangle (`LinksLead`) and that a
deleted entry has no bytes (`DeletedErased`). The first parts of the module have
the facts about trees (ancestors of a block are a chain, a chain has one block
per height), each by a lowest counterexample, and those about connecting and
disconnecting.

**The pool** (the second half of `BlockChainProofs`), for every pool, wallet and tree: `ChainPart`,
that the chain of `NodeSpec` behaves as `BlockChain` alone, so that everything
above holds of it; `[]PoolTypeOK`; `[]NextTxValid`, which is inductive because a
replaced transaction spends exactly what its replacement spends (`Replaced`);
`[]PoolUnconfirmed` and `UnconfirmedKept`, which need the chain's invariant: at
the commit of a reorganization the positions before and after are those of the
two branches (`Switched`), so what is confirmed afterwards was confirmed before
or is deleted from the pool, and what no longer is confirmed is resurrected.

`OrphansProcessed` rests on `WalkInv` (`WalkInvariant`, `WalkComplete`): for
each transaction accepted in this `tx` message, all that was held for it and
would be accepted now is still to be tried, in the queue behind the current
element or among those not yet tried for it. That an acceptance keeps this
is `AcceptanceHelpsNoOther`: to accept `u` makes nothing acceptable except what
spends `u`, for rivals of `u` are refused, and what `u` replaced is older than
`u` and so does not come back. That needs `Newer` to be transitive, which
`PoolAssumption` says and `NewerIsOrder` of `DataKept` checks of `IsNewerThan`.

**Difficulty** (the last part of `BlockChainProofs`), for parameters that meet
`DifficultyAssumption` (the largest step ahead is at most an eighth of the
timespan, as 3 hours are of 14 days, and times fit in 32 bits): `[]DifficultyTypeOK`, by
which no retarget leaves the range of targets; `MedianAdvances`, because a new
block adds nothing below the median while the window keeps or loses what was
below it (`MedianStep`; that there is a median at all is `MedianFound`); and
`FastNeverEasier`, because the two time-warp rules together put the last block of
an interval after the first, so the unsigned difference is the true one
(`FastStep`).

**Connections** (`NodesProofs`), for any number of nodes, addresses and any
limits: `NoneDeletedInUse`, from an invariant that counts, for each node, the
holders that will release it and compares them with `nRefCount`
(`RefInvariant`); `[]NodesTypeOK`, by which counts never go below zero;
and `InboundBounded`, `OpenedOnce` and `PeerRefsReleased` from `ConnInvariant`.
`OpenedOnce` is not obvious: the address is looked for twice with no lock held
between, and it holds because one thread opens connections at a time
(`Opening`). `PeersExact` makes the bound of `RefInvariant` an equality for
connections that a peer made.

**Databases** (`DatabasesProofs`), for any files, threads and depth of nesting:
`[]DatabasesInv`, `[]OrderlyExit` and `RecoveryKeeps` from `DbInvariant`: the
use count of a file is the number of objects that threads have of it, added up
over threads and depths, and a flush closes a handle only at count zero.

**The wallet** (`WalletProofs`), for any coins, copies, payments and values:
`[]WalletInv`, `[]ChainSpentKnown`, `[]RelayedRecoverable` and `StartRestores`
from `WalletIInv`. Its parts say that `wallet.dat` has what memory has
(`Stored`), that the wallet knows what it made wherever that went (`OwnKnown`),
that nothing confirmed is in the pool (`PoolLoose`), that the coins of the
payment under way are spent by no committed payment until its own marks are
complete (`Drafted`, `Paid`), and that a coin's spender comes after it in the
chain (`Chained`, `SpentInBlock`). `Drafted` is what carries it through the
writes of a commit, between which the process may die. Change is a sum over a set of coins; the facts about
such sums are proved by induction over finite sets in set form (a least
counterexample under `NatLessThanWellFounded`).

**The list of transactions** (`InterfaceProofs`), for any transactions, keys,
blocks and pages: `ListShown`, that is `[]ListInv`. Its invariant (`ShownInv`)
says of the list that it is sorted, that each line is of an output that its
transaction shows, that the lines of a transaction with at most two to show are
in falling order of the outputs (`Falling`), that what is still to be filled in
has no line yet, and that what does not wait is there, where its block puts it
(`Right`). Filling inserts blindly, so "no line yet" is what keeps doubles out;
`Falling` is what makes it harmless that `InsertLine` reuses the first line it
finds, whichever output that was for: the two insertions of an update leave one
line for each (`OneLine`, `TwoLines`). With three outputs that is false, which
is why `ListInv` is about two. What a step does to a list is said for each
transaction (`From`, `Kept`: which lines come from which, in the same order).
The loops over outputs, updates and rows are recursive functions under a
`CHOOSE`; that they exist is `StepByStep`, and what they keep is proved one
step at a time (`OneByOne`), both from a smallest counterexample.
The other half is why a line may stay when the wallet changes: what kind of
transaction it is depends on whose its coins and outputs are, and that is settled
when it comes in (`Settled`), because a key made later has had no outputs and a
coin of somebody else never becomes ours (`KindStays`); its height changes only
together with its entry in `vWalletUpdated` (`Grows`), also in a reorganization
(`ConnectsChains`).

**The amounts** (`InterfaceProofs`), for any transactions, values, labels and
reorganizations: `AmountsShown`, that is `[]AmountsAgree`. The amounts are sums of
functions over sets; that a sum exists and takes its elements in any order is
proved from the recursive function under a `CHOOSE` (`SumExists`, `SumLess`),
and from it that sums split, nest, and go through one-to-one maps (`SumSplit`,
`SumNested`, `SumMapped`). Three parts of `AmountsAgree` are then about one state:
what the window and `listtransactions` show of a transaction is what it is worth
(`ShownAgrees`, `ListedAgrees`; the fee is shown once because there is a first
output), and each of the four calls on received amounts sums the same coins
(`ReceivedAgrees`). The fourth, that the amounts of the history add up to the
unspent coins, is conservation, and needs an invariant of the history. Each side
is a sum over coins (`HistorySum`, `LeftIs`): what the transactions of the chain
gave to the wallet, less what they took. The difference is what is left only if
everything taken had been given, by a transaction that counts: `CoinsInv` says
that a transaction of the wallet names the block it is in (`Placed`), that the
rest of the chain neither pays nor spends the wallet (`Strangers`), that what a
block spends comes from the chain up to it (`Parents`), and that no transaction
of the wallet spends a coinbase of its own that is too young to count (`Ripe`).
`Ripe` does not follow from what blocks must obey: `ConnectInputs` counts on the
main chain, in a reorganization the one that is being left. It holds because the
wallet waits longer than the network asks (`Buffer`, 20 blocks in the code) and
more than a reorganization here takes back: two blocks or more are required, one
is replaced by two, so a depth once sufficient stays so, for which the chain
being connected must be known to leave at most the tip and be longer (`Ahead`).
In the code the same needs reorganizations of fewer than 120 blocks.
`CoinsInv` is about the chain that a call of `ProcessBlock` is connecting
(`Best`), because transactions get their blocks one by one and the main chain
changes at the end; while blocks are being connected the sums differ, and
`HistoryAddsUp` says nothing then. That `HistoryAssumption` lists finitely many
transactions, each with finitely many coins that only it spends, and natural
values, is used throughout.

**The dialog** (`InterfaceProofs`, at the end). `DialogInvariant` relates the place
of the worker, the flags and the window: while the worker may still be
cancelled nothing is paid, and whoever is told that it is cancelled has not paid
and is not about to, unless the abort was `late`. From it `[]CancelledNotPaid`
and `[]DestroyedOnce`. `late` is as small as it can be: it is the step between a
test of `fAbort` and the store of `fCanCancel` behind it.

**The miner** (`MinerProofs`), for any threads, transactions and limits, and
calls that enter `ProcessBlock` without a lock, in every interleaving.
`OwnedAlways` (each thread's template, key and lock are its own, and a call's
are not disturbed by those) gives `KeysSaved`: the key that a block pays is in
`wallet.dat` before anybody sees the block. `MinerInvariant` adds to it that a
refusal takes threads that met (`refused => raced`), and that until they have
met two things hold (`raced \/ (Agrees /\ Drafts)`). `Agrees`: at most one
thread is in `ProcessBlock`, and while none is, database, tip and height belong
together; in one they differ as its `stage` says. `Drafts`: what was put together
for the present tip was collected when they agreed with it. Chains only get
longer while nobody meets, so a tip that was left never comes back. From these
`SolvedIsAccepted`, that is `[]MinedAccepted`, and `MinerSound`, `[]MinerInv`.

**The relay** (`RelayProofs`), for any peers, heights, batches and lost
connections (`SyncAssumption`), and any nodes, addresses, connections and
restarts (`AddressesAssumption`): `RelayInvariant`, from which `[]RelayTypeOK`.
Of blocks it says that what a node holds is a beginning of its peers' chain, no
orphan waits for a block that is there (`Held`; `LinkedHeld` is that taking the
orphans behind a block keeps it), and that whatever a peer queues, knows,
announces or sends, or is asked for, is in its own chain as it then is
(`InChain`), in the queues of requests at whatever time they wait for. Of
addresses: what a node holds of one, blank entries apart, is in `addr.dat` with
the same time, the own address is in neither (`Books`), and whatever belongs to a
connection, messages, notes and queues, goes when it closes (`Links`). A message is a join of sequences
(`FlattenSeq`, a recursive function under a `CHOOSE`); that there is such a
function is proved by a least counterexample (`JoinExists`), then that it joins
sequences over a set to one over that set (`FlattenTyped`).

**Message streams** (`MessagesProofs`), for any threads, arguments, sockets and
bounds. First that `CDataStream` is a queue: whatever an operation does to the
vector and the position, `Unread` gains bytes behind, loses them in front, or
gets back in front what was read (`WriteIs`, `IgnoreIs`, `InsertIs`, `CompactIs`,
`TruncateIs`, `PutIs`). Then `FramingInvariant`: as long as no byte has been
damaged, the bytes on their way (`Coming`: the header that was read, `vRecv`,
the socket, and what in `vSend` lies before the open message) are the messages
that were ended and not yet handled, one frame each (`Whole`). `Frames`, which
relates bytes to messages, is stated as the least relation closed under one more
frame behind, so that its first frame can be found without induction over
sequences (`FirstOf`). By it the search for the start string finds it at once
(`FoundAtOnce`), no header that was read is refused (`HeaderValid`), and what
the loop drops when it has too few bytes for a header is nothing. So
`DeliveredWhole`: until the first byte is damaged `MessagesInv` holds, that is,
what was delivered is a beginning of what was sent. After damage the invariant
says nothing; see the next section.

## 6. What is only model-checked, and what is not modelled

Only model-checked, because it is liveness under fairness: `BranchAdopted`,
`CatchesUp`, `Announced`, `DeadForgotten`, `AllDelivered`. Because it is about
what recursive definitions compute on data: the properties of `script`.
That what is delivered after a byte was damaged is still part of what was sent,
in its order, is checked on the instance and is not true for every one: once a
header is refused the search goes on inside its data, and data that contains a
whole frame with its checksum would be taken for a message.

Not modelled: hash functions and elliptic curves (external), the JSON library,
the HTTP server and the calls that only format, widgets and options, `db.cpp`,
which no makefile builds, damage of database files, full disks (a crash stands
for them), `fClient` mode, which nothing switches on, and argument parsing. In
the chain: proof of work, and the times and targets of a tree's blocks, which are
constants there and are in `Difficulty` on one branch. In the wallet: maturity,
finality, the default key. In the miner: fees, and the time-warp rule, which
`Difficulty` has. In scripts: opcodes on two bytes and byte widths. In the data:
the header's fields are bytes; `MinSamples` and `FileLimit` are scaled; negative
zero counts as zero. In relay: transactions, which go the way blocks go, and
`nTime` of addresses as told to others. A crash while a block is written
leaves a part of it in the file, which the next start does not read.
