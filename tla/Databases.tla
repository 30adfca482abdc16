------------------------------ MODULE Databases ------------------------------
(***************************************************************************)
(* The databases as the threads share them: one environment, one handle    *)
(* for each file, a count of users; flushing, shutdown, crash and the      *)
(* recovery that -recover asks for.  Berkeley DB is external: a write is   *)
(* in the log when it is committed, in the data file after a checkpoint,   *)
(* and opening the environment applies what the log has.                   *)
(***************************************************************************)
EXTENDS Naturals, Sequences, FiniteSets, SequencesExt

CONSTANTS
    File,         \* data files, Wallet among them
    Wallet,
    Thread,       \* threads that use the databases
    Counted,      \* those that vnThreadsRunning counts; not StartNode, IRC and the window
    MaxWrites,    \* bound on what is written to a file
    MaxOpen       \* bound on the CDBs of a thread, one inside the other

ASSUME DatabasesAssumption ==
    /\ Wallet \in File /\ Counted \subseteq Thread /\ IsFiniteSet(Thread)
    /\ MaxWrites \in Nat /\ MaxOpen \in Nat \ {0}

VARIABLES
    stage,        \* of the process: see Stages
    fDbEnvInit, fShutdown,
    mapFileUseCount,      \* users of each file that has an entry
    mapDb,        \* files with an open handle
    doing,        \* threads: "awake", "asleep" (not counted) or "gone"
    cdb,          \* CDBs of each thread, innermost last
    late,         \* whether a wait of StopNode ended by time
    log, dat,     \* records in the log, and in the data files
    old,          \* records of wallet_old.dat, if there is one
    found,        \* keys RecoverWalletKeys has still to write
    committed     \* every record ever committed

shared == <<fDbEnvInit, mapFileUseCount, mapDb>>
disk == <<log, dat, old>>
databaseVars == <<stage, fShutdown, shared, doing, cdb, late, disk, found, committed>>

Stages == {"off", "cleaned", "renamed", "copying", "up", "flushed", "stopped", "closed"}
Records(f) == {r \in log \cup dat : r[1] = f}
Kept == log \cup dat \cup old
Using == \E f \in DOMAIN mapFileUseCount : mapFileUseCount[f] > 0

DatabasesTypeOK ==
    /\ stage \in Stages
    /\ fDbEnvInit \in BOOLEAN /\ fShutdown \in BOOLEAN /\ late \in BOOLEAN
    /\ DOMAIN mapFileUseCount \subseteq File /\ mapDb \subseteq File
    /\ \A f \in File : Cardinality({x \in Thread \X (1 .. MaxOpen) :
            /\ x[2] \in DOMAIN cdb[x[1]] /\ cdb[x[1]][x[2]].file = f}) =
          IF f \in DOMAIN mapFileUseCount THEN mapFileUseCount[f] ELSE 0
    /\ doing \in [Thread -> {"awake", "asleep", "gone"}]
    /\ Kept \subseteq committed /\ found \subseteq committed
    /\ stage = "off" => ~fDbEnvInit /\ mapDb = {}

Init ==
    /\ stage = "off" /\ fDbEnvInit = FALSE /\ fShutdown = FALSE /\ late = FALSE
    /\ mapFileUseCount = <<>> /\ mapDb = {}
    /\ doing = [t \in Thread |-> "gone"] /\ cdb = [t \in Thread |-> <<>>]
    /\ log = {} /\ dat = {<<Wallet, 0>>} /\ old = {} /\ found = {}
    /\ committed = {<<Wallet, 0>>}

-----------------------------------------------------------------------------
(* A CDB in a thread                                                        *)

\* What a checkpoint leaves: all that is in the log is in the data files.
Checkpoint == dat' = dat \cup log

UseCount(f) == IF f \in DOMAIN mapFileUseCount THEN mapFileUseCount[f] ELSE 0
Counting(f, n) == [g \in DOMAIN mapFileUseCount \cup {f} |->
                      IF g = f THEN n ELSE mapFileUseCount[g]]

\* Mutant of MayOpen: the environment is opened again by whoever comes.
MayOpenAgain == TRUE
MayOpen == fDbEnvInit \/ ~fShutdown

\* The constructor, which opens the environment if nobody did, which recovers it.
OpenCDB(t, f) ==
    /\ doing[t] = "awake" /\ Len(cdb[t]) < MaxOpen
    /\ MayOpen
    /\ fDbEnvInit' = TRUE
    /\ IF fDbEnvInit THEN UNCHANGED dat ELSE Checkpoint
    /\ mapFileUseCount' = Counting(f, UseCount(f) + 1)
    /\ mapDb' = mapDb \cup {f}
    /\ cdb' = [cdb EXCEPT ![t] = Append(@, [file |-> f, state |-> "live"])]
    /\ UNCHANGED <<stage, fShutdown, doing, late, log, old, found, committed>>

\* Mutant of AfterFailure: the count is not taken back.
AfterFailureCounted(f) == UseCount(f) + 1
AfterFailure(f) == UseCount(f)

\* The file cannot be opened: its entry stays, with the count as it was.
OpenFails(t, f) ==
    /\ doing[t] = "awake" /\ f \notin mapDb
    /\ MayOpen
    /\ fDbEnvInit' = TRUE
    /\ IF fDbEnvInit THEN UNCHANGED dat ELSE Checkpoint
    /\ mapFileUseCount' = Counting(f, AfterFailure(f))
    /\ UNCHANGED <<stage, fShutdown, mapDb, doing, cdb, late, log, old, found, committed>>

\* A write that commits, alone or with the transaction it is in.
WriteCDB(t) ==
    /\ cdb[t] # <<>> /\ Last(cdb[t]).state = "live"
    /\ LET f == Last(cdb[t]).file
           n == Cardinality({r \in committed : r[1] = f})
       IN  /\ n < MaxWrites
           /\ log' = log \cup {<<f, n>>} /\ committed' = committed \cup {<<f, n>>}
    /\ UNCHANGED <<stage, fShutdown, shared, doing, cdb, late, dat, old, found>>

\* Close: open transactions are aborted and a checkpoint taken, outside the lock, ...
CloseCDB(t) ==
    /\ cdb[t] # <<>> /\ Last(cdb[t]).state = "live"
    /\ Checkpoint
    /\ cdb' = [cdb EXCEPT ![t][Len(cdb[t])].state = "closing"]
    /\ UNCHANGED <<stage, fShutdown, shared, doing, late, log, old, found, committed>>

\* ... and then the count goes down.
ReleaseCDB(t) ==
    /\ cdb[t] # <<>> /\ Last(cdb[t]).state = "closing"
    /\ LET f == Last(cdb[t]).file IN mapFileUseCount' = Counting(f, UseCount(f) - 1)
    /\ cdb' = [cdb EXCEPT ![t] = Front(@)]
    /\ UNCHANGED <<stage, fShutdown, fDbEnvInit, mapDb, doing, late, disk, found, committed>>

\* A thread sleeps, or blocks in a call, between rounds of its loop, and is not counted then;
\* it ends when it sees fShutdown.
Sleep(t) ==
    /\ doing[t] = "awake" /\ cdb[t] = <<>>
    /\ doing' = [doing EXCEPT ![t] = IF fShutdown THEN "gone" ELSE "asleep"]
    /\ UNCHANGED <<stage, fShutdown, shared, cdb, late, disk, found, committed>>

\* Mutant of Wakes: what woke it is handled first.
WakesAnyhow == "awake"
Wakes == IF fShutdown THEN "gone" ELSE "awake"
Wake(t) ==
    /\ doing[t] = "asleep"
    /\ doing' = [doing EXCEPT ![t] = Wakes]
    /\ UNCHANGED <<stage, fShutdown, shared, cdb, late, disk, found, committed>>

-----------------------------------------------------------------------------
(* Flushing and shutdown                                                    *)

\* CDBs of closed handles are of no use any more.
Stale(files) ==
    cdb' = [t \in Thread |-> [i \in DOMAIN cdb[t] |->
        IF cdb[t][i].file \in files /\ cdb[t][i].state = "live"
        THEN [cdb[t][i] EXCEPT !.state = "stale"] ELSE cdb[t][i]]]

\* CloseDb, a checkpoint and the end of the entry.
Flushed(files) ==
    /\ Stale(files)
    /\ mapDb' = mapDb \ files
    /\ mapFileUseCount' = [f \in DOMAIN mapFileUseCount \ files |-> mapFileUseCount[f]]
    /\ IF files = {} THEN UNCHANGED dat ELSE Checkpoint

\* Mutant of Idle: a file is idle when nobody writes to it.
IdleNow == {f \in DOMAIN mapFileUseCount : \A t \in Thread : cdb[t] # <<>> => Last(cdb[t]).file # f}
Idle == {f \in DOMAIN mapFileUseCount : mapFileUseCount[f] = 0}

\* ThreadFlushWalletDB, if the lock is free.
FlushWallet ==
    /\ stage = "up" /\ ~fShutdown /\ ~Using
    /\ Wallet \in DOMAIN mapFileUseCount
    /\ Flushed({Wallet})
    /\ UNCHANGED <<stage, fShutdown, fDbEnvInit, doing, late, log, old, found, committed>>

\* Shutdown, the first caller: DBFlush(false), ...
ShutdownBegins ==
    /\ stage = "up" /\ fShutdown' = TRUE
    /\ stage' = "flushed"
    /\ IF fDbEnvInit THEN Flushed(Idle) ELSE UNCHANGED <<cdb, mapDb, mapFileUseCount, dat>>
    /\ UNCHANGED <<fDbEnvInit, doing, late, log, old, found, committed>>

\* ... StopNode, which waits for the counted threads, but not for ever, ...
StopNode ==
    /\ stage = "flushed" /\ stage' = "stopped"
    /\ late' = \E t \in Counted : doing[t] = "awake"
    /\ UNCHANGED <<fShutdown, shared, doing, cdb, disk, found, committed>>

\* ... and DBFlush(true), which closes the environment and, if every file is flushed,
\* removes the log.
DBFlush ==
    /\ stage = "stopped" /\ stage' = "closed"
    /\ fDbEnvInit' = FALSE
    /\ IF fDbEnvInit
       THEN /\ mapFileUseCount' = [f \in DOMAIN mapFileUseCount \ Idle |-> mapFileUseCount[f]]
            /\ mapDb' = mapDb \ Idle
            /\ Stale(File)
            /\ IF Idle = {} THEN UNCHANGED dat ELSE Checkpoint
            /\ IF DOMAIN mapFileUseCount \ Idle = {} THEN log' = {} ELSE UNCHANGED log
       ELSE UNCHANGED <<mapFileUseCount, mapDb, cdb, dat, log>>
    /\ UNCHANGED <<fShutdown, doing, late, old, found, committed>>

\* The process ends, after its shutdown or at any point by a crash.
Exit ==
    /\ stage # "off" /\ stage' = "off"
    /\ fDbEnvInit' = FALSE /\ fShutdown' = FALSE /\ late' = FALSE
    /\ mapFileUseCount' = <<>> /\ mapDb' = {}
    /\ doing' = [t \in Thread |-> "gone"] /\ cdb' = [t \in Thread |-> <<>>]
    /\ found' = {}
    /\ UNCHANGED <<disk, committed>>

-----------------------------------------------------------------------------
(* Start and recovery                                                       *)

\* The data files are loaded, which opens the environment and closes them again, and the
\* threads begin.
Begun ==
    /\ stage' = "up"
    /\ fDbEnvInit' = TRUE /\ mapFileUseCount' = [f \in File |-> 0] /\ mapDb' = File
    /\ doing' = [t \in Thread |-> "awake"]
    /\ UNCHANGED <<fShutdown, cdb, late, log, old, committed>>

Start ==
    /\ stage = "off" /\ Begun /\ Checkpoint
    /\ UNCHANGED found

\* -recover: RecoverDatabaseEnvironment removes the log and every data file but the wallet.
RecoverDatabaseEnvironment ==
    /\ stage = "off" /\ stage' = "cleaned"
    /\ log' = {} /\ dat' = {r \in dat : r[1] = Wallet}
    /\ UNCHANGED <<fShutdown, shared, doing, cdb, late, old, found, committed>>

\* Mutant of MayRename: an older wallet_old.dat is overwritten.
MayRenameOver == TRUE
MayRename == old = {}

\* RecoverWalletKeys, if there is a wallet, moves it away, unless one has been moved before, ...
RenameWallet ==
    /\ stage = "cleaned"
    /\ CASE Records(Wallet) = {} -> stage' = "copying" /\ UNCHANGED <<old, dat>>
         [] Records(Wallet) # {} /\ ~MayRename -> stage' = "off" /\ UNCHANGED <<old, dat>>
         [] OTHER -> stage' = "renamed" /\ old' = Records(Wallet) /\ dat' = dat \ Records(Wallet)
    /\ UNCHANGED <<fShutdown, shared, doing, cdb, late, log, found, committed>>

\* ... and back if no key can be read from it.
NothingFound ==
    /\ stage = "renamed" /\ stage' = "off"
    /\ dat' = dat \cup old /\ old' = {}
    /\ UNCHANGED <<fShutdown, shared, doing, cdb, late, log, found, committed>>

\* A damaged file yields some of its keys.
ExtractKeys ==
    /\ stage = "renamed" /\ stage' = "copying"
    /\ found' \in SUBSET old \ {{}}
    /\ UNCHANGED <<fShutdown, shared, doing, cdb, late, disk, committed>>

\* Each key is written to a new wallet.dat; a write that fails is passed over.
CopyKey ==
    /\ stage = "copying"
    /\ \E r \in found :
         /\ found' = found \ {r}
         /\ log' \in {log, log \cup {r}}
    /\ UNCHANGED <<stage, fShutdown, shared, doing, cdb, late, dat, old, committed>>

CopyDone ==
    /\ stage = "copying" /\ found = {} /\ Begun /\ Checkpoint
    /\ UNCHANGED found

-----------------------------------------------------------------------------
UseCDB(t) ==
    \/ \E f \in File : OpenCDB(t, f) \/ OpenFails(t, f)
    \/ WriteCDB(t) \/ CloseCDB(t) \/ ReleaseCDB(t) \/ Sleep(t) \/ Wake(t)

Recover == RecoverDatabaseEnvironment \/ RenameWallet \/ NothingFound \/ ExtractKeys \/ CopyKey \/ CopyDone

Next ==
    \/ \E t \in Thread : UseCDB(t)
    \/ FlushWallet \/ ShutdownBegins \/ StopNode \/ DBFlush \/ Exit \/ Start \/ Recover

Spec == Init /\ [][Next]_databaseVars

-----------------------------------------------------------------------------
\* No CDB is left with a handle that a flush closed under it: neither by the flush of the
\* wallet nor by the first one of the shutdown, and the last one closes the environment under
\* a thread only when StopNode gave up on it or does not count it.
HandlesLive ==
    \A t \in Thread : (\E i \in DOMAIN cdb[t] : cdb[t][i].state = "stale") =>
        stage = "closed" /\ (late \/ t \notin Counted)

\* Once the last flush closed the environment nobody opens it again.
StaysClosed == stage = "closed" => ~fDbEnvInit /\ \A t \in Thread : \A i \in DOMAIN cdb[t] : cdb[t][i].state # "live"

\* When everyone has let go in time the shutdown leaves all there is in the data files, each
\* of which then stands alone, and no log.
OrderlyExit ==
    [][DBFlush /\ ~late /\ (\A t \in Thread \ Counted : cdb[t] = <<>>) =>
           log' = {} /\ log \subseteq dat']_databaseVars

\* -recover loses no record of wallet.dat and wallet_old.dat, wherever it stops or fails, and
\* however often it is tried again.
RecoveryKeeps ==
    [][Recover => {r \in dat : r[1] = Wallet} \cup old \subseteq Kept']_databaseVars

\* The types, and handles that live as long as they are used and no longer than the
\* environment.
DatabasesInv == DatabasesTypeOK /\ HandlesLive /\ StaysClosed
=============================================================================
