-------------------------------- MODULE Miner --------------------------------
(***************************************************************************)
(* Miner threads, and calls that ask for work and hand it in: how a block  *)
(* is put together while the chain moves on, what becomes of it when it is *)
(* solved, its key, and how many threads there are.                        *)
(***************************************************************************)
EXTENDS Naturals, Sequences, FiniteSets, SequencesExt

CONSTANTS
    Tx, Needs,    \* transactions, and which others each spends from
    Thread,       \* places for miner threads
    Limits,       \* values of the processor limit
    MaxCalls,     \* bound on the calls of GenerateBitcoins
    MaxHeight,    \* bound on the height of the chain
    Halving,      \* blocks between two halvings
    MaxWork       \* entries that mapGetworkBlocks keeps

Free == "free"
Message == "message"
Call == "call"

ASSUME MinerAssumption ==
    /\ Needs \in [Tx -> SUBSET Tx] /\ Limits \subseteq Nat
    /\ {Free, Message, Call} \cap Thread = {}
    /\ {MaxCalls, MaxHeight, MaxWork} \subseteq Nat /\ Halving \in Nat \ {0}

VARIABLES
    chain,        \* the main chain as hashBestChain and pindexBest have it
    nBestHeight,  \* set after them
    txdb,         \* transactions the database has in blocks
    committed,    \* its best chain
    mapTransactions,
    cs_main,      \* who holds it
    new, stage,   \* the chain that ProcessBlock makes in a thread, and how far it is
    pc, template, \* of each thread, and of the call
    fGenerateBitcoins, nLimitProcessors, calls,
    work,         \* mapGetworkBlocks, with their keys
    freed,        \* blocks in it that ProcessBlock deleted
    refused,      \* whether a block was not accepted that a thread solved for the tip
    raced         \* whether another thread came between what a call does in ProcessBlock

chainVars == <<chain, nBestHeight, txdb, committed, mapTransactions>>
making == <<pc, template>>
control == <<fGenerateBitcoins, nLimitProcessors, calls>>
minerVars == <<chainVars, cs_main, new, stage, making, control, work, freed, refused, raced>>

Maker == Thread \cup {Call}
\* Of a block the program makes, "saved" says whether its key is in wallet.dat.
NoTemplate == [prev |-> <<>>, txs |-> {}, value |-> 0, saved |-> FALSE]
Same(b, c) == [b EXCEPT !.saved = TRUE] = [c EXCEPT !.saved = TRUE]
Other(txs) == [txs |-> txs, saved |-> TRUE]

Confirmed(ch) == UNION {ch[i].txs : i \in DOMAIN ch}
\* Miner threads that vnThreadsRunning counts.
Running == {m \in Thread : pc[m] \notin {"off", "created"}}

\* GetBlockValue without fees, in some unit: it goes by nBestHeight.
GetBlockValue == 2 ^ (MaxHeight - nBestHeight \div Halving)

MinerTypeOK ==
    /\ nBestHeight <= MaxHeight /\ Len(chain) <= MaxHeight
    /\ mapTransactions \cup txdb \subseteq Tx
    /\ cs_main \in Maker \cup {Free, Message}
    /\ stage \in [Maker \cup {Message} -> {"no", "connected", "best"}]
    /\ \A t \in Thread \cup {Message} : stage[t] # "no" => cs_main = t
    /\ pc \in [Maker -> {"off", "created", "begin", "read", "collected", "made", "keyed", "process", "leave"}]
    /\ freed \subseteq work /\ Cardinality(work) <= MaxWork
    /\ raced \/ /\ nBestHeight <= Len(chain) /\ txdb = Confirmed(committed)
                /\ (\A t \in DOMAIN stage : stage[t] = "no") => committed = chain

Init ==
    /\ chain = <<>> /\ nBestHeight = 0 /\ txdb = {} /\ committed = <<>> /\ mapTransactions = {}
    /\ cs_main = Free
    /\ new = [t \in Maker \cup {Message} |-> <<>>] /\ stage = [t \in Maker \cup {Message} |-> "no"]
    /\ fGenerateBitcoins = TRUE /\ nLimitProcessors \in Limits /\ calls = 0
    /\ \E S \in {T \in SUBSET Thread : Cardinality(T) = nLimitProcessors} :
         pc = [m \in Maker |-> IF m \in S THEN "created" ELSE "off"]
    /\ template = [m \in Maker |-> NoTemplate]
    /\ work = {} /\ freed = {} /\ refused = FALSE /\ raced = FALSE

-----------------------------------------------------------------------------
(* ProcessBlock in a thread                                                *)

\* Mutant of Connect: what a branch confirmed stays in the database.
ConnectOnly(t, ch) ==
    /\ txdb' = txdb \cup Confirmed(ch) /\ committed' = ch
    /\ new' = [new EXCEPT ![t] = ch]
    /\ stage' = [stage EXCEPT ![t] = "connected"]
\* ConnectBlock, or Reorganize from pindexBest, in the database, and its commit: spent marks
\* go by transactions.
Connect(t, ch) ==
    /\ txdb' = (txdb \ Confirmed(chain)) \cup Confirmed(ch) /\ committed' = ch
    /\ new' = [new EXCEPT ![t] = ch]
    /\ stage' = [stage EXCEPT ![t] = "connected"]

\* Only a block that is higher than the best is connected; others become branches.
Higher(b) == Len(b.prev) + 1 > nBestHeight

\* It connects if, its branch being connected, what it spends is there and unspent, and it
\* pays itself no more than it may.
Connects(b) ==
    LET have == (txdb \ Confirmed(chain)) \cup Confirmed(b.prev)
    IN  /\ b.txs \cap have = {} /\ \A t \in b.txs : Needs[t] \subseteq have \cup b.txs
        /\ b.value <= GetBlockValue

Occupied == \E t \in DOMAIN stage : stage[t] # "no"
\* ProcessBlock takes no lock: a call that enters it, or another thread while a call is in it,
\* may not be alone there.
Enter == raced' = (raced \/ Occupied)

\* hashBestChain and pindexBest, with the pool, ...
SetBest(t) ==
    /\ stage[t] = "connected"
    /\ chain' = new[t]
    /\ mapTransactions' = (mapTransactions \cup Confirmed(chain)) \ Confirmed(new[t])
    /\ stage' = [stage EXCEPT ![t] = "best"]
    /\ UNCHANGED <<nBestHeight, txdb, committed, cs_main, new, making, control, work, freed, refused, raced>>

\* ... and nBestHeight, that of pindexBest as it was set or as it is by now, after which the
\* thread lets go.
SetHeight(t) ==
    /\ stage[t] = "best"
    /\ nBestHeight' \in {Len(new[t]), Len(chain)}
    /\ stage' = [stage EXCEPT ![t] = "no"] /\ new' = [new EXCEPT ![t] = <<>>]
    /\ cs_main' = IF cs_main = t THEN Free ELSE cs_main
    /\ IF t = Message THEN UNCHANGED <<making, work, freed>>
       ELSE /\ pc' = [pc EXCEPT ![t] = IF t = Call THEN "off" ELSE "begin"]
            /\ template' = [template EXCEPT ![t] = NoTemplate]
            /\ work' = {w \in work : t # Call \/ ~Same(w, template[Call])} /\ freed' = freed \cap work'
    /\ UNCHANGED <<chain, txdb, committed, mapTransactions, control, refused, raced>>

\* Sets of transactions that fit on a chain.
Fitting(ts, have) == {S \in SUBSET (ts \ have) : \A t \in S : Needs[t] \subseteq have \cup S}

\* Blocks of others on the tip, beside it, or a longer branch beside it.
Branches ==
    LET base == Front(chain)
    IN  {Append(chain, Other(B)) : B \in Fitting(Tx, txdb)}
        \cup IF chain = <<>> THEN {}
             ELSE UNION {{base \o <<Other(B)>>, base \o <<Other(B), Other({})>>} :
                           B \in Fitting(Tx, Confirmed(base))}

\* The message thread gets one, or a call hands it in with submitblock, without cs_main.
GetBlock(t) ==
    /\ IF t = Message THEN cs_main = Free /\ cs_main' = Message /\ UNCHANGED pc
       ELSE pc[Call] = "off" /\ pc' = [pc EXCEPT ![Call] = "process"] /\ UNCHANGED cs_main
    /\ \E br \in Branches \ {chain} : /\ nBestHeight < Len(br) /\ Len(br) <= MaxHeight
                                     /\ Connect(t, br)
    /\ Enter
    /\ UNCHANGED <<chain, nBestHeight, mapTransactions, template, control, work, freed, refused>>

GetTx(t) ==
    /\ cs_main = Free
    /\ t \notin txdb \cup mapTransactions /\ Needs[t] \subseteq txdb \cup mapTransactions
    /\ mapTransactions' = mapTransactions \cup {t}
    /\ UNCHANGED <<chain, nBestHeight, txdb, committed, cs_main, new, stage, making, control>>
    /\ UNCHANGED <<work, freed, refused, raced>>

-----------------------------------------------------------------------------
(* Putting a block together: BitcoinMiner and CreateNewBlock               *)

\* pindexBest is read without cs_main.
ReadTip(m) ==
    /\ pc[m] = IF m = Call THEN "off" ELSE "begin"
    /\ m \in Thread => fGenerateBitcoins
    /\ m = Call => MaxWork > 0
    /\ pc' = [pc EXCEPT ![m] = "read"]
    /\ template' = [template EXCEPT ![m] = [NoTemplate EXCEPT !.prev = chain]]
    /\ UNCHANGED <<chainVars, cs_main, new, stage, control, work, freed, refused, raced>>

\* Mutant of Collectable: a transaction need not come after what it spends from.
CollectableAnyhow == SUBSET (mapTransactions \ txdb)
Collectable == Fitting(mapTransactions, txdb)

\* Transactions of the pool that connect, under cs_main, until the block is half full.
Collect(m) ==
    /\ pc[m] = "read" /\ cs_main = Free
    /\ \E S \in Collectable : template' = [template EXCEPT ![m].txs = S]
    /\ pc' = [pc EXCEPT ![m] = "collected"]
    /\ UNCHANGED <<chainVars, cs_main, new, stage, control, work, freed, refused, raced>>

\* What the coinbase pays, read without cs_main.
Made(m) == [template[m] EXCEPT !.value = GetBlockValue]
Make(m) ==
    /\ pc[m] = "collected" /\ m \in Thread
    /\ pc' = [pc EXCEPT ![m] = "made"]
    /\ template' = [template EXCEPT ![m] = Made(m)]
    /\ raced' = (raced \/ stage[Call] # "no")
    /\ UNCHANGED <<chainVars, cs_main, new, stage, control, work, freed, refused>>

OnTip(b) == b.prev = chain

Block(b) == [txs |-> b.txs, saved |-> b.saved]

\* Mutant of AddKey: the key stays in memory until the block is accepted.
AddKeyLater(b) == b
AddKey(b) == [b EXCEPT !.saved = TRUE]

\* A thread solves its block.  On a tip that has moved it is dropped.
Solve(m) ==
    /\ pc[m] = "made" /\ m \in Thread /\ cs_main = Free /\ Len(template[m].prev) < MaxHeight
    /\ IF OnTip(template[m])
       THEN /\ template' = [template EXCEPT ![m] = AddKey(@)]
            /\ cs_main' = m /\ pc' = [pc EXCEPT ![m] = "keyed"]
       ELSE /\ pc' = [pc EXCEPT ![m] = "begin"] /\ template' = [template EXCEPT ![m] = NoTemplate]
            /\ UNCHANGED cs_main
    /\ UNCHANGED <<chainVars, new, stage, control, work, freed, refused, raced>>

\* ProcessBlock of it.  The tip may have moved since, by a call.
Offer(m) ==
    /\ pc[m] = "keyed" /\ m \in Thread
    /\ LET b == template[m]
       IN  IF Higher(b) /\ Connects(b)
           THEN /\ Connect(m, Append(b.prev, Block(b)))
                /\ pc' = [pc EXCEPT ![m] = "process"] /\ UNCHANGED <<template, cs_main, refused>>
           ELSE /\ refused' = (refused \/ Higher(b)) /\ cs_main' = Free
                /\ pc' = [pc EXCEPT ![m] = "begin"] /\ template' = [template EXCEPT ![m] = NoTemplate]
                /\ UNCHANGED <<txdb, committed, new, stage>>
    /\ Enter
    /\ UNCHANGED <<chain, nBestHeight, mapTransactions, control, work, freed>>

\* The tip moved, the pool changed, there are no nodes or no nonces any more.
Rebuild(m) ==
    /\ pc[m] = "made" /\ m \in Thread /\ fGenerateBitcoins /\ Cardinality(Running) <= nLimitProcessors
    /\ pc' = [pc EXCEPT ![m] = "begin"] /\ template' = [template EXCEPT ![m] = NoTemplate]
    /\ UNCHANGED <<chainVars, cs_main, new, stage, control, work, freed, refused, raced>>

-----------------------------------------------------------------------------
(* Calls: getwork                                                          *)

\* CreateNewBlock is done; the block is kept with its key, and if they are too many now, the
\* one with the smallest hash is deleted.
KeepWork ==
    /\ pc[Call] = "collected"
    /\ LET all == work \cup {Made(Call)}
       IN  \E w \in all : work' = IF Cardinality(all) > MaxWork THEN all \ {w} ELSE all
    /\ freed' = freed \cap work'
    /\ pc' = [pc EXCEPT ![Call] = "off"] /\ template' = [template EXCEPT ![Call] = NoTemplate]
    /\ UNCHANGED <<chainVars, cs_main, new, stage, control, refused, raced>>

\* Work comes back solved: with cs_main its tip is checked and the key is saved, ...  What
\* happens with a block that was deleted is undefined, and left out.
SubmitWork(w) ==
    /\ pc[Call] = "off" /\ cs_main = Free /\ w \notin freed /\ OnTip(w) /\ Len(chain) < MaxHeight
    /\ pc' = [pc EXCEPT ![Call] = "keyed"] /\ template' = [template EXCEPT ![Call] = AddKey(w)]
    /\ UNCHANGED <<chainVars, cs_main, new, stage, control, work, freed, refused, raced>>

\* ... and without it ProcessBlock is called.  A block that is not higher than the best any
\* more becomes a branch; one that does not connect, or whose time the caller changed too
\* much, is deleted but not taken from the map.
ProcessWork ==
    /\ pc[Call] = "keyed"
    /\ LET w == template[Call]
       IN  \/ /\ Higher(w) /\ Connects(w)
              /\ Connect(Call, Append(w.prev, Block(w)))
              /\ pc' = [pc EXCEPT ![Call] = "process"] /\ UNCHANGED <<template, work, freed>>
           \/ /\ ~Higher(w)
              /\ work' = {u \in work : ~Same(u, w)} /\ freed' = freed \cap work'
              /\ pc' = [pc EXCEPT ![Call] = "off"] /\ template' = [template EXCEPT ![Call] = NoTemplate]
              /\ UNCHANGED <<txdb, committed, new, stage>>
           \/ /\ freed' = freed \cup {u \in work : Same(u, w)}
              /\ pc' = [pc EXCEPT ![Call] = "off"] /\ template' = [template EXCEPT ![Call] = NoTemplate]
              /\ UNCHANGED <<txdb, committed, new, stage, work>>
    /\ Enter
    /\ UNCHANGED <<chain, nBestHeight, mapTransactions, cs_main, control, refused>>

-----------------------------------------------------------------------------
(* Threads                                                                 *)

\* Threads that are to be started so that there are as many as the limit says.
Started(n) == {S \in SUBSET {m \in Thread : pc[m] = "off"} :
    Cardinality(S) + Cardinality(Running) = n \/ (S = {} /\ Cardinality(Running) >= n)}

GenerateBitcoins(on, n) ==
    /\ calls < MaxCalls /\ calls' = calls + 1
    /\ fGenerateBitcoins' = on /\ nLimitProcessors' = n
    /\ \E S \in IF on THEN Started(n) ELSE {{}} :
         pc' = [m \in Maker |-> IF m \in S THEN "created" ELSE pc[m]]
    /\ UNCHANGED <<chainVars, cs_main, new, stage, template, work, freed, refused, raced>>

\* ThreadBitcoinMiner counts itself, ...
Begin(m) ==
    /\ pc[m] = "created"
    /\ pc' = [pc EXCEPT ![m] = "begin"]
    /\ UNCHANGED <<chainVars, cs_main, new, stage, template, control, work, freed, refused, raced>>

Surplus == Cardinality(Running) > nLimitProcessors

\* ... leaves when mining is off or it is one too many, ...
Leave(m) ==
    /\ m \in Thread
    /\ \/ pc[m] \in {"begin", "made"} /\ ~fGenerateBitcoins
       \/ pc[m] = "made" /\ Surplus
    /\ pc' = [pc EXCEPT ![m] = "leave"] /\ template' = [template EXCEPT ![m] = NoTemplate]
    /\ UNCHANGED <<chainVars, cs_main, new, stage, control, work, freed, refused, raced>>

\* ... and is counted no more.
Gone(m) ==
    /\ pc[m] = "leave"
    /\ pc' = [pc EXCEPT ![m] = "off"]
    /\ UNCHANGED <<chainVars, cs_main, new, stage, template, control, work, freed, refused, raced>>

\* The program stops anywhere and starts again, with what was committed.
Restart ==
    /\ chain' = committed /\ nBestHeight' = Len(chain') /\ mapTransactions' = {}
    /\ cs_main' = Free
    /\ new' = [t \in DOMAIN new |-> <<>>] /\ stage' = [t \in DOMAIN stage |-> "no"]
    /\ template' = [m \in Maker |-> NoTemplate]
    /\ \E S \in {T \in SUBSET Thread : Cardinality(T) = IF fGenerateBitcoins THEN nLimitProcessors ELSE 0} :
         pc' = [m \in Maker |-> IF m \in S THEN "created" ELSE "off"]
    /\ work' = {} /\ freed' = {}
    /\ UNCHANGED <<txdb, committed, control, refused, raced>>

-----------------------------------------------------------------------------
Mine(m) ==
    \/ Begin(m) \/ ReadTip(m) \/ Collect(m) \/ Make(m) \/ Solve(m) \/ Offer(m) \/ Rebuild(m)
    \/ SetBest(m) \/ SetHeight(m) \/ Leave(m) \/ Gone(m)

Work ==
    \/ ReadTip(Call) \/ Collect(Call) \/ KeepWork \/ ProcessWork \/ GetBlock(Call)
    \/ SetBest(Call) \/ SetHeight(Call) \/ \E w \in work : SubmitWork(w)

Node == GetBlock(Message) \/ SetBest(Message) \/ SetHeight(Message) \/ \E t \in Tx : GetTx(t)

Next ==
    \/ \E m \in Thread : Mine(m)
    \/ Node
    \/ Work \/ Restart
    \/ \E on \in BOOLEAN, n \in Limits : GenerateBitcoins(on, n)

Spec == Init /\ [][Next]_minerVars

-----------------------------------------------------------------------------
\* "ERROR in BitcoinMiner, ProcessBlock, block not accepted" (main.cpp:3183) takes a call in
\* ProcessBlock, which holds no lock there, and another thread that meanwhile enters it or
\* computes what its block may pay.  But for that, the block a thread solved for the tip
\* connects, though the tip, the pool and the height were read at three times, one under
\* cs_main, while blocks came from everywhere.  Whether its time is acceptable is in Difficulty.
MinedAccepted == refused => raced

\* Whoever solved it and wherever a crash came, the key that a block of the main chain pays to
\* is in wallet.dat.
KeySaved == \A i \in DOMAIN chain : chain[i].saved

\* The types, and keys that are on disk before they are paid to.
MinerInv == MinerTypeOK /\ KeySaved
=============================================================================
