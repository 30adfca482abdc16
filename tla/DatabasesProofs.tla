--------------------------- MODULE DatabasesProofs ---------------------------
(***************************************************************************)
(* For any files, threads and limits: the counts of users are right, no    *)
(* handle is closed under a thread that StopNode waited for, an orderly    *)
(* exit leaves everything in the data files, and -recover loses nothing of *)
(* the wallet.                                                             *)
(***************************************************************************)
EXTENDS Databases, FiniteSetTheorems, SequenceTheorems, TLAPS

Handle == [file : File, state : {"live", "closing", "stale"}]

\* The CDBs that have file f open, by thread and place.
Users(f) ==
    {x \in Thread \X (1 .. MaxOpen) : x[2] \in DOMAIN cdb[x[1]] /\ cdb[x[1]][x[2]].file = f}

Types ==
    /\ stage \in Stages
    /\ fDbEnvInit \in BOOLEAN /\ fShutdown \in BOOLEAN /\ late \in BOOLEAN
    /\ DOMAIN mapFileUseCount \subseteq File /\ mapDb \subseteq File
    /\ doing \in [Thread -> {"awake", "asleep", "gone"}]
    /\ cdb \in [Thread -> Seq(Handle)]
    /\ \A t \in Thread : Len(cdb[t]) <= MaxOpen
    /\ Kept \subseteq committed /\ found \subseteq committed

\* The count of a file is that of its users.
CountsRight == \A f \in File : Cardinality(Users(f)) = UseCount(f)

\* Before the process is up nothing is open.
NothingOpen ==
    stage \in {"off", "cleaned", "renamed", "copying"} =>
        /\ ~fDbEnvInit /\ mapDb = {} /\ DOMAIN mapFileUseCount = {}
        /\ \A t \in Thread : doing[t] = "gone"

\* What is known of the process by its stage; a thread that is not at work has nothing open.
Progress ==
    /\ stage \in {"flushed", "stopped", "closed"} => fShutdown
    /\ stage \in {"up", "flushed", "stopped"} => fDbEnvInit
    /\ \A t \in Thread : doing[t] # "awake" => cdb[t] = <<>>
    /\ stage = "stopped" /\ ~late => \A t \in Counted : doing[t] # "awake"

\* A file has an entry as long as the log has what its data file has not.
LogCovered ==
    stage \in {"up", "flushed", "stopped"} /\ DOMAIN mapFileUseCount = {} => log \subseteq dat

DbInv ==
    /\ Types /\ CountsRight /\ NothingOpen /\ Progress /\ LogCovered
    /\ HandlesLive /\ StaysClosed

-----------------------------------------------------------------------------
(* The users of a file                                                     *)

LEMMA UsersFinite == ASSUME NEW f PROVE IsFiniteSet(Users(f))
<1>1. IsFiniteSet(1 .. MaxOpen)
  <2>1. MaxOpen \in Int
    BY DatabasesAssumption
  <2> QED
    BY <2>1, FS_Interval
<1>2. IsFiniteSet(Thread \X (1 .. MaxOpen))
  BY <1>1, DatabasesAssumption, FS_Product
<1> QED
  BY <1>2, FS_Subset DEF Users

\* A file that no count is kept of, or none but zero, has no users, and no CDB is open on it.
LEMMA NobodyUses ==
    ASSUME Types, CountsRight, NEW f \in File, UseCount(f) = 0,
           NEW t \in Thread, NEW i \in DOMAIN cdb[t]
    PROVE  cdb[t][i].file # f
<1>1. Users(f) = {}
  BY UsersFinite, FS_EmptySet DEF CountsRight
<1>2. i \in 1 .. MaxOpen
  <2>1. cdb[t] \in Seq(Handle) /\ Len(cdb[t]) <= MaxOpen
    BY DEF Types
  <2>2. i \in 1 .. Len(cdb[t]) /\ Len(cdb[t]) \in Nat
    BY <2>1, LenProperties
  <2> QED
    BY <2>1, <2>2, DatabasesAssumption
<1>3. <<t, i>> \notin Users(f)
  BY <1>1
<1> QED
  BY <1>2, <1>3 DEF Users

\* Where the files of the CDBs stay as they are, so do the users.
LEMMA SameUsers ==
    ASSUME \A t \in Thread : DOMAIN cdb'[t] = DOMAIN cdb[t]
              /\ \A i \in DOMAIN cdb[t] : cdb'[t][i].file = cdb[t][i].file,
           NEW f
    PROVE  Users(f)' = Users(f)
  BY DEF Users

LEMMA InitDb == Init => DbInv
<1> SUFFICES ASSUME Init PROVE DbInv
  OBVIOUS
<1>1. Types
  <2>1. <<>> \in Seq(Handle) /\ Len(<<>>) = 0
    BY EmptySeq
  <2>2. cdb \in [Thread -> Seq(Handle)] /\ \A t \in Thread : Len(cdb[t]) <= MaxOpen
    BY <2>1, DatabasesAssumption DEF Init
  <2>3. DOMAIN mapFileUseCount = {}
    BY DEF Init
  <2> QED
    BY <2>2, <2>3 DEF Init, Types, Stages, Kept
<1>2. CountsRight
  <2> SUFFICES ASSUME NEW f \in File PROVE Cardinality(Users(f)) = UseCount(f)
    BY DEF CountsRight
  <2>1. Users(f) = {}
    BY DEF Init, Users
  <2> QED
    BY <2>1, FS_EmptySet DEF Init, UseCount
<1>3. NothingOpen /\ Progress /\ LogCovered
  BY DEF Init, NothingOpen, Progress, LogCovered
<1>4. HandlesLive /\ StaysClosed
  BY DEF Init, HandlesLive, StaysClosed
<1> QED
  BY <1>1, <1>2, <1>3, <1>4 DEF DbInv

-----------------------------------------------------------------------------
(* What is done to the CDBs of one thread                                  *)

LEMMA CDBShape ==
    ASSUME Types, NEW t \in Thread
    PROVE  /\ cdb[t] \in Seq(Handle) /\ Len(cdb[t]) \in Nat /\ Len(cdb[t]) <= MaxOpen
           /\ DOMAIN cdb[t] = 1 .. Len(cdb[t])
           /\ \A i \in 1 .. Len(cdb[t]) : cdb[t][i] \in Handle
<1>1. cdb[t] \in Seq(Handle) /\ Len(cdb[t]) <= MaxOpen
  BY DEF Types
<1> QED
  BY <1>1, LenProperties, ElementOfSeq

\* One more CDB is one more user of its file.
LEMMA Opened ==
    ASSUME Types, NEW t \in Thread, NEW h \in Handle, Len(cdb[t]) < MaxOpen,
           cdb' = [cdb EXCEPT ![t] = Append(@, h)]
    PROVE  /\ cdb' \in [Thread -> Seq(Handle)]
           /\ \A u \in Thread : Len(cdb'[u]) <= MaxOpen
           /\ \A u \in Thread : \A i \in DOMAIN cdb'[u] :
                 cdb'[u][i] = h \/ (i \in DOMAIN cdb[u] /\ cdb'[u][i] = cdb[u][i])
           /\ Cardinality(Users(h.file)') = Cardinality(Users(h.file)) + 1
           /\ \A f \in File \ {h.file} : Users(f)' = Users(f)
<1> DEFINE n == Len(cdb[t])
           x == <<t, n + 1>>
<1>1. cdb[t] \in Seq(Handle) /\ n \in Nat /\ DOMAIN cdb[t] = 1 .. n
  BY CDBShape
<1>2. cdb'[t] = Append(cdb[t], h) /\ \A u \in Thread \ {t} : cdb'[u] = cdb[u]
  BY DEF Types
<1>3. /\ cdb'[t] \in Seq(Handle) /\ Len(cdb'[t]) = n + 1 /\ DOMAIN cdb'[t] = 1 .. (n + 1)
      /\ cdb'[t][n + 1] = h /\ \A i \in 1 .. n : cdb'[t][i] = cdb[t][i]
  BY <1>1, <1>2, AppendProperties, LenProperties
<1>4. cdb' \in [Thread -> Seq(Handle)] /\ \A u \in Thread : Len(cdb'[u]) <= MaxOpen
  BY <1>1, <1>2, <1>3, DatabasesAssumption DEF Types
<1>5. \A u \in Thread : \A i \in DOMAIN cdb'[u] :
         cdb'[u][i] = h \/ (i \in DOMAIN cdb[u] /\ cdb'[u][i] = cdb[u][i])
  BY <1>1, <1>2, <1>3
<1>6. n + 1 \in 1 .. MaxOpen /\ n + 1 \notin DOMAIN cdb[t] /\ x \in Thread \X (1 .. MaxOpen)
  BY <1>1, DatabasesAssumption
<1>7. \A u \in Thread : \A i \in 1 .. MaxOpen : <<u, i>> # x =>
         /\ i \in DOMAIN cdb'[u] <=> i \in DOMAIN cdb[u]
         /\ i \in DOMAIN cdb[u] => cdb'[u][i] = cdb[u][i]
  BY <1>1, <1>2, <1>3
<1>8. Users(h.file)' = Users(h.file) \cup {x} /\ x \notin Users(h.file)
  BY <1>3, <1>6, <1>7 DEF Users
<1>9. \A f \in File \ {h.file} : Users(f)' = Users(f)
  BY <1>3, <1>6, <1>7 DEF Users
<1>10. Cardinality(Users(h.file)') = Cardinality(Users(h.file)) + 1
  BY <1>8, UsersFinite, FS_AddElement
<1> QED
  BY <1>4, <1>5, <1>9, <1>10

\* One CDB less is one user less of its file.
LEMMA Released ==
    ASSUME Types, NEW t \in Thread, cdb[t] # <<>>, NEW h \in Handle, h = Last(cdb[t]),
           cdb' = [cdb EXCEPT ![t] = Front(@)]
    PROVE  /\ cdb' \in [Thread -> Seq(Handle)]
           /\ \A u \in Thread : Len(cdb'[u]) <= MaxOpen
           /\ \A u \in Thread : \A i \in DOMAIN cdb'[u] :
                 i \in DOMAIN cdb[u] /\ cdb'[u][i] = cdb[u][i]
           /\ Cardinality(Users(h.file)') = Cardinality(Users(h.file)) - 1
           /\ \A f \in File \ {h.file} : Users(f)' = Users(f)
<1> DEFINE n == Len(cdb[t])
           x == <<t, n>>
<1>1. cdb[t] \in Seq(Handle) /\ n \in Nat \ {0} /\ n <= MaxOpen /\ DOMAIN cdb[t] = 1 .. n
  BY CDBShape, EmptySeq
<1>2. h = cdb[t][n]
  BY <1>1 DEF Last
<1>3. cdb'[t] = SubSeq(cdb[t], 1, n - 1) /\ \A u \in Thread \ {t} : cdb'[u] = cdb[u]
  BY DEF Types, Front
<1>4. /\ cdb'[t] \in Seq(Handle) /\ Len(cdb'[t]) = n - 1
      /\ \A i \in 1 .. (n - 1) : cdb'[t][i] = cdb[t][i]
  <2>1. \A i \in 1 .. (n - 1) : cdb[t][i] \in Handle
    BY <1>1, CDBShape
  <2>2. 1 \in Int /\ n - 1 \in Int
    BY <1>1
  <2>3. /\ SubSeq(cdb[t], 1, n - 1) \in Seq(Handle)
        /\ Len(SubSeq(cdb[t], 1, n - 1)) = IF 1 <= n - 1 THEN n - 1 - 1 + 1 ELSE 0
        /\ \A i \in 1 .. (n - 1 - 1 + 1) : SubSeq(cdb[t], 1, n - 1)[i] = cdb[t][1 + i - 1]
    BY <2>1, <2>2, SubSeqProperties
  <2> QED
    BY <1>1, <1>3, <2>3
<1>5. DOMAIN cdb'[t] = 1 .. (n - 1)
  BY <1>4, LenProperties
<1>6. cdb' \in [Thread -> Seq(Handle)] /\ \A u \in Thread : Len(cdb'[u]) <= MaxOpen
  BY <1>1, <1>3, <1>4, DatabasesAssumption DEF Types
<1>7. \A u \in Thread : \A i \in DOMAIN cdb'[u] : i \in DOMAIN cdb[u] /\ cdb'[u][i] = cdb[u][i]
  BY <1>1, <1>3, <1>4, <1>5
<1>8. x \in Thread \X (1 .. MaxOpen) /\ n \in DOMAIN cdb[t] /\ n \notin DOMAIN cdb'[t]
  BY <1>1, <1>5, DatabasesAssumption
<1>9. \A u \in Thread : \A i \in 1 .. MaxOpen : <<u, i>> # x =>
         /\ i \in DOMAIN cdb'[u] <=> i \in DOMAIN cdb[u]
         /\ i \in DOMAIN cdb[u] => cdb'[u][i] = cdb[u][i]
  BY <1>1, <1>3, <1>4, <1>5
<1>10. Users(h.file)' = Users(h.file) \ {x} /\ x \in Users(h.file)
  BY <1>2, <1>8, <1>9 DEF Users
<1>11. \A f \in File \ {h.file} : Users(f)' = Users(f)
  BY <1>2, <1>8, <1>9 DEF Users
<1>12. Cardinality(Users(h.file)') = Cardinality(Users(h.file)) - 1
  BY <1>10, UsersFinite, FS_RemoveElement
<1> QED
  BY <1>6, <1>7, <1>11, <1>12

\* A CDB that is being closed changes its state only.
LEMMA Closing ==
    ASSUME Types, NEW t \in Thread, NEW i \in DOMAIN cdb[t], i = Len(cdb[t]), CloseCDB(t)
    PROVE  /\ cdb' \in [Thread -> Seq(Handle)]
           /\ \A u \in Thread : Len(cdb'[u]) <= MaxOpen /\ DOMAIN cdb'[u] = DOMAIN cdb[u]
           /\ \A u \in Thread : \A j \in DOMAIN cdb[u] :
                 /\ cdb'[u][j].file = cdb[u][j].file
                 /\ cdb'[u][j].state = IF u = t /\ j = i THEN "closing" ELSE cdb[u][j].state
<1> DEFINE h == [cdb[t][i] EXCEPT !.state = "closing"]
<1>1. cdb[t] \in Seq(Handle) /\ i \in 1 .. Len(cdb[t]) /\ cdb[t][i] \in Handle
  BY CDBShape
<1>2. h \in Handle /\ h.file = cdb[t][i].file /\ h.state = "closing"
  BY <1>1 DEF Handle
<1>3. cdb'[t] = [cdb[t] EXCEPT ![i] = h] /\ \A u \in Thread \ {t} : cdb'[u] = cdb[u]
  BY DEF Types, CloseCDB
<1>4. /\ cdb'[t] \in Seq(Handle) /\ Len(cdb'[t]) = Len(cdb[t])
      /\ \A j \in 1 .. Len(cdb[t]) : cdb'[t][j] = IF j = i THEN h ELSE cdb[t][j]
  <2>1. h \in Handle
    BY <1>2
  <2> HIDE DEF h
  <2>2. /\ [cdb[t] EXCEPT ![i] = h] \in Seq(Handle)
        /\ Len([cdb[t] EXCEPT ![i] = h]) = Len(cdb[t])
        /\ \A j \in 1 .. Len(cdb[t]) : [cdb[t] EXCEPT ![i] = h][j] = IF j = i THEN h ELSE cdb[t][j]
    BY <1>1, <2>1, ExceptSeq
  <2> QED
    BY <1>3, <2>2
<1>5. DOMAIN cdb'[t] = 1 .. Len(cdb[t]) /\ DOMAIN cdb[t] = 1 .. Len(cdb[t])
  BY <1>1, <1>4, LenProperties
<1>6. cdb' \in [Thread -> Seq(Handle)]
  BY <1>3, <1>4 DEF Types, CloseCDB
<1>7. \A u \in Thread : Len(cdb'[u]) <= MaxOpen /\ DOMAIN cdb'[u] = DOMAIN cdb[u]
  BY <1>3, <1>4, <1>5 DEF Types
<1>8. \A u \in Thread : \A j \in DOMAIN cdb[u] :
         /\ cdb'[u][j].file = cdb[u][j].file
         /\ cdb'[u][j].state = IF u = t /\ j = i THEN "closing" ELSE cdb[u][j].state
  <2> HIDE DEF h
  <2> QED
    BY <1>2, <1>3, <1>4, <1>5
<1> QED
  BY <1>6, <1>7, <1>8

\* Live CDBs of some files get stale, and nothing else changes.
LEMMA Staled ==
    ASSUME Types, NEW files, Stale(files)
    PROVE  /\ cdb' \in [Thread -> Seq(Handle)]
           /\ \A u \in Thread : Len(cdb'[u]) <= MaxOpen /\ DOMAIN cdb'[u] = DOMAIN cdb[u]
           /\ \A u \in Thread : \A j \in DOMAIN cdb[u] :
                 /\ cdb'[u][j].file = cdb[u][j].file
                 /\ cdb'[u][j].state = IF cdb[u][j].file \in files /\ cdb[u][j].state = "live"
                                       THEN "stale" ELSE cdb[u][j].state
<1> SUFFICES ASSUME NEW u \in Thread
             PROVE  /\ cdb'[u] \in Seq(Handle)
                    /\ Len(cdb'[u]) <= MaxOpen /\ DOMAIN cdb'[u] = DOMAIN cdb[u]
                    /\ \A j \in DOMAIN cdb[u] :
                          /\ cdb'[u][j].file = cdb[u][j].file
                          /\ cdb'[u][j].state =
                                IF cdb[u][j].file \in files /\ cdb[u][j].state = "live"
                                THEN "stale" ELSE cdb[u][j].state
  BY DEF Stale
<1> DEFINE n == Len(cdb[u])
<1>1. /\ n \in Nat /\ n <= MaxOpen /\ DOMAIN cdb[u] = 1 .. n
      /\ \A i \in 1 .. n : cdb[u][i] \in Handle
  BY CDBShape
<1>2. cdb'[u] = [i \in 1 .. n |-> IF cdb[u][i].file \in files /\ cdb[u][i].state = "live"
                                 THEN [cdb[u][i] EXCEPT !.state = "stale"] ELSE cdb[u][i]]
  BY <1>1 DEF Stale
<1>3. \A i \in 1 .. n : [cdb[u][i] EXCEPT !.state = "stale"] \in Handle
  BY <1>1 DEF Handle
<1>4. DOMAIN cdb'[u] = 1 .. n /\ \A i \in 1 .. n : cdb'[u][i] \in Handle
  BY <1>1, <1>2, <1>3
<1>5. cdb'[u] \in Seq(Handle) /\ Len(cdb'[u]) = n
  <2>1. n \in Nat /\ cdb'[u] \in [1 .. n -> Handle]
    BY <1>1, <1>2, <1>4
  <2> HIDE DEF n
  <2> QED
    BY <2>1
<1>6. \A j \in 1 .. n :
         /\ cdb'[u][j].file = cdb[u][j].file
         /\ cdb'[u][j].state = IF cdb[u][j].file \in files /\ cdb[u][j].state = "live"
                               THEN "stale" ELSE cdb[u][j].state
  BY <1>1, <1>2 DEF Handle
<1> QED
  BY <1>1, <1>4, <1>5, <1>6

-----------------------------------------------------------------------------
(* The steps of a thread                                                   *)

LEMMA OpenStep ==
    ASSUME DbInv, NEW t \in Thread, NEW f \in File, OpenCDB(t, f)
    PROVE  DbInv'
<1> DEFINE h == [file |-> f, state |-> "live"]
<1>1. h \in Handle
  BY DEF Handle
<1>2. /\ cdb' \in [Thread -> Seq(Handle)]
      /\ \A u \in Thread : Len(cdb'[u]) <= MaxOpen
      /\ \A u \in Thread : \A i \in DOMAIN cdb'[u] :
            cdb'[u][i] = h \/ (i \in DOMAIN cdb[u] /\ cdb'[u][i] = cdb[u][i])
      /\ Cardinality(Users(h.file)') = Cardinality(Users(h.file)) + 1
      /\ \A g \in File \ {h.file} : Users(g)' = Users(g)
  <2>1. Types /\ Len(cdb[t]) < MaxOpen /\ cdb' = [cdb EXCEPT ![t] = Append(@, h)]
    BY DEF DbInv, OpenCDB
  <2> QED
    BY <1>1, <2>1, Opened
<1>3. Types'
  <2>1. DOMAIN mapFileUseCount' \subseteq File /\ mapDb' \subseteq File
    BY DEF DbInv, Types, OpenCDB, Counting
  <2>2. Kept' \subseteq committed' /\ found' \subseteq committed'
    BY DEF DbInv, Types, OpenCDB, Checkpoint, Kept
  <2> QED
    BY <1>2, <2>1, <2>2 DEF DbInv, Types, OpenCDB
<1>4. CountsRight'
  <2> SUFFICES ASSUME NEW g \in File PROVE Cardinality(Users(g)') = UseCount(g)'
    BY DEF CountsRight
  <2>1. Cardinality(Users(g)) = UseCount(g)
    BY DEF DbInv, CountsRight
  <2>2. UseCount(g)' = IF g = f THEN UseCount(f) + 1 ELSE UseCount(g)
    BY DEF OpenCDB, UseCount, Counting
  <2> QED
    BY <1>2, <2>1, <2>2
<1>5. doing[t] = "awake" /\ fDbEnvInit' /\ stage' = stage /\ stage # "closed"
  BY DEF DbInv, Progress, StaysClosed, OpenCDB, MayOpen
<1>6. NothingOpen' /\ Progress' /\ LogCovered'
  <2>1. stage \notin {"off", "cleaned", "renamed", "copying"}
    BY <1>5 DEF DbInv, NothingOpen
  <2>2. f \in DOMAIN mapFileUseCount'
    BY DEF OpenCDB, Counting
  <2>3. \A u \in Thread : doing[u] # "awake" => cdb'[u] = <<>>
    BY <1>5 DEF DbInv, Types, Progress, OpenCDB
  <2> QED
    BY <1>5, <2>1, <2>2, <2>3 DEF DbInv, NothingOpen, Progress, LogCovered, OpenCDB
<1>7. HandlesLive' /\ StaysClosed'
  BY <1>2, <1>5 DEF DbInv, HandlesLive, StaysClosed, OpenCDB
<1> QED
  BY <1>3, <1>4, <1>6, <1>7 DEF DbInv

LEMMA OpenFailsStep ==
    ASSUME DbInv, NEW t \in Thread, NEW f \in File, OpenFails(t, f)
    PROVE  DbInv'
<1>1. Types'
  <2>1. DOMAIN mapFileUseCount' \subseteq File
    BY DEF DbInv, Types, OpenFails, Counting
  <2>2. Kept' \subseteq committed' /\ found' \subseteq committed'
    BY DEF DbInv, Types, OpenFails, Checkpoint, Kept
  <2> QED
    BY <2>1, <2>2 DEF DbInv, Types, OpenFails
<1>2. CountsRight'
  <2> SUFFICES ASSUME NEW g \in File PROVE Cardinality(Users(g)') = UseCount(g)'
    BY DEF CountsRight
  <2>1. Users(g)' = Users(g) /\ UseCount(g)' = UseCount(g)
    BY DEF OpenFails, Users, UseCount, Counting, AfterFailure
  <2> QED
    BY <2>1 DEF DbInv, CountsRight
<1>3. doing[t] = "awake" /\ fDbEnvInit' /\ stage' = stage /\ stage # "closed"
  BY DEF DbInv, Progress, StaysClosed, OpenFails, MayOpen
<1>4. NothingOpen' /\ Progress' /\ LogCovered'
  <2>1. stage \notin {"off", "cleaned", "renamed", "copying"}
    BY <1>3 DEF DbInv, NothingOpen
  <2>2. f \in DOMAIN mapFileUseCount'
    BY DEF OpenFails, Counting
  <2> QED
    BY <1>3, <2>1, <2>2 DEF DbInv, NothingOpen, Progress, LogCovered, OpenFails
<1>5. HandlesLive' /\ StaysClosed'
  BY <1>3 DEF DbInv, HandlesLive, StaysClosed, OpenFails
<1> QED
  BY <1>1, <1>2, <1>4, <1>5 DEF DbInv

LEMMA LastCDB ==
    ASSUME Types, NEW t \in Thread, cdb[t] # <<>>
    PROVE  /\ Len(cdb[t]) \in DOMAIN cdb[t]
           /\ Last(cdb[t]) = cdb[t][Len(cdb[t])] /\ Last(cdb[t]) \in Handle
<1>1. cdb[t] \in Seq(Handle) /\ Len(cdb[t]) \in Nat \ {0} /\ DOMAIN cdb[t] = 1 .. Len(cdb[t])
  BY CDBShape, EmptySeq
<1> QED
  BY <1>1, CDBShape DEF Last

\* Whoever has a CDB is at work, in a process that is up, and its file is counted.
LEMMA InUse ==
    ASSUME DbInv, NEW t \in Thread, cdb[t] # <<>>
    PROVE  /\ doing[t] = "awake"
           /\ stage \notin {"off", "cleaned", "renamed", "copying"}
           /\ Last(cdb[t]).file \in DOMAIN mapFileUseCount
<1>1. doing[t] = "awake" /\ stage \notin {"off", "cleaned", "renamed", "copying"}
  BY DEF DbInv, Progress, NothingOpen
<1>2. /\ Len(cdb[t]) \in DOMAIN cdb[t] /\ Last(cdb[t]) = cdb[t][Len(cdb[t])]
      /\ Last(cdb[t]).file \in File
  BY LastCDB DEF DbInv, Handle
<1>3. UseCount(Last(cdb[t]).file) # 0
  BY <1>2, NobodyUses DEF DbInv
<1> QED
  BY <1>1, <1>3 DEF UseCount

LEMMA WriteStep ==
    ASSUME DbInv, NEW t \in Thread, WriteCDB(t)
    PROVE  DbInv'
<1>1. DOMAIN mapFileUseCount # {} /\ stage \notin {"off", "cleaned", "renamed", "copying"}
  BY InUse DEF WriteCDB
<1>2. Types'
  BY DEF DbInv, Types, WriteCDB, shared, Kept
<1>3. CountsRight'
  BY DEF DbInv, CountsRight, Users, UseCount, WriteCDB, shared
<1>4. NothingOpen' /\ Progress' /\ LogCovered'
  BY <1>1 DEF DbInv, NothingOpen, Progress, LogCovered, WriteCDB, shared
<1>5. HandlesLive' /\ StaysClosed'
  BY DEF DbInv, HandlesLive, StaysClosed, WriteCDB, shared
<1> QED
  BY <1>2, <1>3, <1>4, <1>5 DEF DbInv

LEMMA CloseStep ==
    ASSUME DbInv, NEW t \in Thread, CloseCDB(t)
    PROVE  DbInv'
<1>0. PICK i \in DOMAIN cdb[t] : i = Len(cdb[t])
  BY LastCDB DEF DbInv, CloseCDB
<1>1. Types /\ cdb[t] # <<>>
  BY DEF DbInv, CloseCDB
<1>2. /\ cdb' \in [Thread -> Seq(Handle)]
      /\ \A u \in Thread : Len(cdb'[u]) <= MaxOpen /\ DOMAIN cdb'[u] = DOMAIN cdb[u]
      /\ \A u \in Thread : \A j \in DOMAIN cdb[u] :
            /\ cdb'[u][j].file = cdb[u][j].file
            /\ cdb'[u][j].state = IF u = t /\ j = i THEN "closing" ELSE cdb[u][j].state
  BY <1>0, <1>1, Closing
<1>3. doing[t] = "awake" /\ stage \notin {"off", "cleaned", "renamed", "copying"}
  BY <1>1, InUse
<1>4. Types'
  BY <1>2 DEF DbInv, Types, CloseCDB, shared, Kept, Checkpoint
<1>5. CountsRight'
  <2>1. \A f \in File : Users(f)' = Users(f)
    BY <1>2, SameUsers
  <2> QED
    BY <2>1 DEF DbInv, CountsRight, UseCount, CloseCDB, shared
<1>6. NothingOpen' /\ Progress' /\ LogCovered'
  <2>1. \A u \in Thread \ {t} : cdb'[u] = cdb[u]
    BY DEF DbInv, Types, CloseCDB
  <2> QED
    BY <1>3, <2>1 DEF DbInv, NothingOpen, Progress, LogCovered, CloseCDB, shared, Checkpoint
<1>7. HandlesLive' /\ StaysClosed'
  BY <1>2 DEF DbInv, HandlesLive, StaysClosed, CloseCDB, shared
<1> QED
  BY <1>4, <1>5, <1>6, <1>7 DEF DbInv

LEMMA ReleaseStep ==
    ASSUME DbInv, NEW t \in Thread, ReleaseCDB(t)
    PROVE  DbInv'
<1>1. PICK h \in Handle : h = Last(cdb[t])
  BY LastCDB DEF DbInv, ReleaseCDB
<1>2. h.file \in File /\ h.file \in DOMAIN mapFileUseCount
  BY <1>1, InUse DEF ReleaseCDB, Handle
<1>3. /\ cdb' \in [Thread -> Seq(Handle)]
      /\ \A u \in Thread : Len(cdb'[u]) <= MaxOpen
      /\ \A u \in Thread : \A i \in DOMAIN cdb'[u] :
            i \in DOMAIN cdb[u] /\ cdb'[u][i] = cdb[u][i]
      /\ Cardinality(Users(h.file)') = Cardinality(Users(h.file)) - 1
      /\ \A f \in File \ {h.file} : Users(f)' = Users(f)
  BY <1>1, Released DEF DbInv, ReleaseCDB
<1>4. doing[t] = "awake" /\ stage \notin {"off", "cleaned", "renamed", "copying"}
  BY InUse DEF ReleaseCDB
<1>5. Types'
  <2>1. DOMAIN mapFileUseCount' \subseteq File
    BY <1>1, <1>2 DEF DbInv, Types, ReleaseCDB, Counting
  <2> QED
    BY <1>3, <2>1 DEF DbInv, Types, ReleaseCDB, disk, Kept
<1>6. CountsRight'
  <2> SUFFICES ASSUME NEW g \in File PROVE Cardinality(Users(g)') = UseCount(g)'
    BY DEF CountsRight
  <2>1. Cardinality(Users(g)) = UseCount(g)
    BY DEF DbInv, CountsRight
  <2>2. UseCount(g)' = IF g = h.file THEN UseCount(h.file) - 1 ELSE UseCount(g)
    BY <1>1 DEF ReleaseCDB, UseCount, Counting
  <2> QED
    BY <1>3, <2>1, <2>2
<1>7. NothingOpen' /\ Progress' /\ LogCovered'
  <2>1. \A u \in Thread \ {t} : cdb'[u] = cdb[u]
    BY DEF DbInv, Types, ReleaseCDB
  <2>2. DOMAIN mapFileUseCount' # {}
    BY <1>1, <1>2 DEF ReleaseCDB, Counting
  <2> QED
    BY <1>4, <2>1, <2>2 DEF DbInv, NothingOpen, Progress, LogCovered, ReleaseCDB, disk
<1>8. HandlesLive' /\ StaysClosed'
  BY <1>3 DEF DbInv, HandlesLive, StaysClosed, ReleaseCDB
<1> QED
  BY <1>5, <1>6, <1>7, <1>8 DEF DbInv

LEMMA RestStep ==
    ASSUME DbInv, NEW t \in Thread, Sleep(t) \/ Wake(t)
    PROVE  DbInv'
<1>1. doing' \in [Thread -> {"awake", "asleep", "gone"}] /\ doing[t] # "gone"
  BY DEF DbInv, Types, Sleep, Wake, Wakes
<1>2. Types'
  BY <1>1 DEF DbInv, Types, Sleep, Wake, shared, disk, Kept
<1>3. CountsRight'
  BY ZenonT(60) DEF DbInv, CountsRight, Users, UseCount, Sleep, Wake, shared
<1>4. NothingOpen' /\ LogCovered'
  BY <1>1 DEF DbInv, NothingOpen, LogCovered, Sleep, Wake, shared, disk
<1>5. Progress'
  <2>1. \A u \in Thread \ {t} : doing'[u] = doing[u]
    BY DEF DbInv, Types, Sleep, Wake
  <2>2. doing'[t] # "awake" => cdb[t] = <<>>
    BY DEF DbInv, Types, Progress, Sleep, Wake
  <2>3. fShutdown => doing'[t] # "awake"
    BY DEF DbInv, Types, Sleep, Wake, Wakes
  <2> QED
    BY <2>1, <2>2, <2>3, DatabasesAssumption DEF DbInv, Progress, Sleep, Wake, shared
<1>6. HandlesLive' /\ StaysClosed'
  BY DEF DbInv, HandlesLive, StaysClosed, Sleep, Wake, shared
<1> QED
  BY <1>2, <1>3, <1>4, <1>5, <1>6 DEF DbInv

-----------------------------------------------------------------------------
(* Flushing and shutdown                                                   *)

\* To flush files that nobody uses is not seen by any CDB.
LEMMA FlushedUnseen ==
    ASSUME DbInv, NEW files \in SUBSET File, \A f \in files : UseCount(f) = 0, Flushed(files)
    PROVE  /\ cdb' \in [Thread -> Seq(Handle)]
           /\ \A u \in Thread : Len(cdb'[u]) <= MaxOpen /\ DOMAIN cdb'[u] = DOMAIN cdb[u]
           /\ \A u \in Thread : \A j \in DOMAIN cdb[u] : cdb'[u][j].state = cdb[u][j].state
           /\ \A u \in Thread : cdb[u] = <<>> => cdb'[u] = <<>>
           /\ DOMAIN mapFileUseCount' \subseteq File /\ mapDb' \subseteq File
           /\ CountsRight'
           /\ dat' \in {dat, dat \cup log} /\ (files # {} => dat' = dat \cup log)
<1>1. Types /\ Stale(files) /\ CountsRight
  BY DEF DbInv, Flushed
<1>2. /\ cdb' \in [Thread -> Seq(Handle)]
      /\ \A u \in Thread : Len(cdb'[u]) <= MaxOpen /\ DOMAIN cdb'[u] = DOMAIN cdb[u]
      /\ \A u \in Thread : \A j \in DOMAIN cdb[u] :
            /\ cdb'[u][j].file = cdb[u][j].file
            /\ cdb'[u][j].state = IF cdb[u][j].file \in files /\ cdb[u][j].state = "live"
                                  THEN "stale" ELSE cdb[u][j].state
  BY <1>1, Staled
<1>3. \A u \in Thread : \A j \in DOMAIN cdb[u] : cdb[u][j].file \notin files
  BY <1>1, NobodyUses
<1>4. \A u \in Thread : cdb[u] = <<>> => cdb'[u] = <<>>
  <2> SUFFICES ASSUME NEW u \in Thread, cdb[u] = <<>> PROVE cdb'[u] = <<>>
    OBVIOUS
  <2>1. cdb'[u] = [i \in DOMAIN <<>> |-> <<>>[i]]
    BY <1>1 DEF Stale
  <2> QED
    BY <2>1
<1>5. CountsRight'
  <2> SUFFICES ASSUME NEW f \in File PROVE Cardinality(Users(f)') = UseCount(f)'
    BY DEF CountsRight
  <2>1. Users(f)' = Users(f)
    BY <1>2, SameUsers
  <2>2. UseCount(f)' = UseCount(f)
    BY DEF Flushed, UseCount
  <2> QED
    BY <1>1, <2>1, <2>2 DEF CountsRight
<1>6. DOMAIN mapFileUseCount' \subseteq File /\ mapDb' \subseteq File
  BY DEF DbInv, Types, Flushed
<1>7. dat' \in {dat, dat \cup log} /\ (files # {} => dat' = dat \cup log)
  BY DEF Flushed, Checkpoint
<1> QED
  BY <1>2, <1>3, <1>4, <1>5, <1>6, <1>7

LEMMA FlushWalletStep == ASSUME DbInv, FlushWallet PROVE DbInv'
<1>1. \A f \in {Wallet} : UseCount(f) = 0
  <2>1. Cardinality(Users(Wallet)) = UseCount(Wallet) /\ Cardinality(Users(Wallet)) \in Nat
    BY DatabasesAssumption, UsersFinite, FS_CardinalityType DEF DbInv, CountsRight
  <2>2. ~(UseCount(Wallet) > 0)
    BY DEF FlushWallet, Using, UseCount
  <2> QED
    BY <2>1, <2>2
<1>2. {Wallet} \in SUBSET File /\ Flushed({Wallet})
  BY DatabasesAssumption DEF FlushWallet
<1>3. /\ cdb' \in [Thread -> Seq(Handle)]
      /\ \A u \in Thread : Len(cdb'[u]) <= MaxOpen /\ DOMAIN cdb'[u] = DOMAIN cdb[u]
      /\ \A u \in Thread : \A j \in DOMAIN cdb[u] : cdb'[u][j].state = cdb[u][j].state
      /\ \A u \in Thread : cdb[u] = <<>> => cdb'[u] = <<>>
      /\ DOMAIN mapFileUseCount' \subseteq File /\ mapDb' \subseteq File
      /\ CountsRight' /\ dat' = dat \cup log
  BY <1>1, <1>2, FlushedUnseen
<1>4. Types'
  BY <1>3 DEF DbInv, Types, FlushWallet, Kept
<1>5. NothingOpen' /\ Progress' /\ LogCovered'
  BY <1>3 DEF DbInv, NothingOpen, Progress, LogCovered, FlushWallet
<1>6. HandlesLive' /\ StaysClosed'
  BY <1>3 DEF DbInv, HandlesLive, StaysClosed, FlushWallet
<1> QED
  BY <1>3, <1>4, <1>5, <1>6 DEF DbInv

LEMMA ShutdownStep == ASSUME DbInv, ShutdownBegins PROVE DbInv'
<1>1. fDbEnvInit /\ Flushed(Idle)
  BY DEF DbInv, Progress, ShutdownBegins
<1>2. PICK files \in SUBSET File : files = Idle
  BY DEF DbInv, Types, Idle
<1>3. \A f \in files : UseCount(f) = 0
  BY <1>2 DEF Idle, UseCount
<1>4. /\ cdb' \in [Thread -> Seq(Handle)]
      /\ \A u \in Thread : Len(cdb'[u]) <= MaxOpen /\ DOMAIN cdb'[u] = DOMAIN cdb[u]
      /\ \A u \in Thread : \A j \in DOMAIN cdb[u] : cdb'[u][j].state = cdb[u][j].state
      /\ \A u \in Thread : cdb[u] = <<>> => cdb'[u] = <<>>
      /\ DOMAIN mapFileUseCount' \subseteq File /\ mapDb' \subseteq File
      /\ CountsRight'
      /\ dat' \in {dat, dat \cup log} /\ (files # {} => dat' = dat \cup log)
  BY <1>1, <1>2, <1>3, FlushedUnseen
<1>5. Types'
  BY <1>4 DEF DbInv, Types, ShutdownBegins, Kept, Stages
<1>6. LogCovered'
  <2>1. files = {} => DOMAIN mapFileUseCount' = DOMAIN mapFileUseCount
    BY <1>1, <1>2 DEF Flushed
  <2> QED
    BY <1>4, <2>1 DEF DbInv, LogCovered, ShutdownBegins
<1>7. NothingOpen' /\ Progress'
  BY <1>1, <1>4 DEF DbInv, NothingOpen, Progress, ShutdownBegins
<1>8. HandlesLive' /\ StaysClosed'
  BY <1>4 DEF DbInv, HandlesLive, StaysClosed, ShutdownBegins
<1> QED
  BY <1>4, <1>5, <1>6, <1>7, <1>8 DEF DbInv

LEMMA StopNodeStep == ASSUME DbInv, StopNode PROVE DbInv'
<1>1. Types'
  <2>1. late' \in BOOLEAN
    BY DEF StopNode
  <2> QED
    BY <2>1 DEF DbInv, Types, StopNode, shared, disk, Kept, Stages
<1>2. CountsRight'
  BY DEF DbInv, CountsRight, Users, UseCount, StopNode, shared
<1>3. NothingOpen' /\ LogCovered'
  BY DEF DbInv, NothingOpen, LogCovered, StopNode, shared, disk
<1>4. Progress'
  BY DEF DbInv, Progress, StopNode, shared, disk
<1>5. HandlesLive' /\ StaysClosed'
  BY DEF DbInv, HandlesLive, StaysClosed, StopNode, shared
<1> QED
  BY <1>1, <1>2, <1>3, <1>4, <1>5 DEF DbInv

LEMMA DBFlushStep == ASSUME DbInv, DBFlush PROVE DbInv'
<1>1. /\ fDbEnvInit /\ Stale(File)
      /\ mapFileUseCount' = [f \in DOMAIN mapFileUseCount \ Idle |-> mapFileUseCount[f]]
      /\ mapDb' = mapDb \ Idle
      /\ log' \in {log, {}} /\ dat' \in {dat, dat \cup log}
  BY DEF DbInv, Progress, DBFlush, Checkpoint
<1>2. /\ cdb' \in [Thread -> Seq(Handle)]
      /\ \A u \in Thread : Len(cdb'[u]) <= MaxOpen /\ DOMAIN cdb'[u] = DOMAIN cdb[u]
      /\ \A u \in Thread : \A j \in DOMAIN cdb[u] :
            /\ cdb'[u][j].file = cdb[u][j].file
            /\ cdb'[u][j].state = IF cdb[u][j].file \in File /\ cdb[u][j].state = "live"
                                  THEN "stale" ELSE cdb[u][j].state
  BY <1>1, Staled DEF DbInv
<1>3. \A u \in Thread : cdb[u] = <<>> => cdb'[u] = <<>>
  <2> SUFFICES ASSUME NEW u \in Thread, cdb[u] = <<>> PROVE cdb'[u] = <<>>
    OBVIOUS
  <2>1. cdb'[u] = [i \in DOMAIN <<>> |-> <<>>[i]]
    BY <1>1 DEF Stale
  <2> QED
    BY <2>1
<1>4. Types'
  BY <1>1, <1>2 DEF DbInv, Types, DBFlush, Kept, Stages
<1>5. CountsRight'
  <2> SUFFICES ASSUME NEW f \in File PROVE Cardinality(Users(f)') = UseCount(f)'
    BY DEF CountsRight
  <2>1. Users(f)' = Users(f)
    BY <1>2, SameUsers
  <2>2. UseCount(f)' = UseCount(f)
    BY <1>1 DEF Idle, UseCount
  <2> QED
    BY <2>1, <2>2 DEF DbInv, CountsRight
<1>6. NothingOpen' /\ LogCovered' /\ Progress'
  BY <1>3 DEF DbInv, NothingOpen, LogCovered, Progress, DBFlush
<1>7. StaysClosed'
  <2>1. \A u \in Thread : \A i \in DOMAIN cdb[u] : cdb[u][i].file \in File
    BY CDBShape DEF DbInv, Handle
  <2> QED
    BY <1>2, <2>1 DEF StaysClosed, DBFlush
<1>8. HandlesLive'
  <2> SUFFICES ASSUME NEW t \in Thread, NEW i \in DOMAIN cdb'[t], t \in Counted, ~late
               PROVE  FALSE
    BY DEF HandlesLive, DBFlush
  <2>1. cdb[t] = <<>>
    BY DEF DbInv, Progress, DBFlush
  <2>2. DOMAIN cdb[t] = 1 .. 0
    BY <2>1, EmptySeq, CDBShape DEF DbInv
  <2> QED
    BY <1>2, <2>2
<1> QED
  BY <1>4, <1>5, <1>6, <1>7, <1>8 DEF DbInv

-----------------------------------------------------------------------------
(* The end of the process, start and recovery                              *)

LEMMA ExitStep == ASSUME DbInv, Exit PROVE DbInv'
<1>1. <<>> \in Seq(Handle) /\ Len(<<>>) = 0
  BY EmptySeq
<1>2. cdb' \in [Thread -> Seq(Handle)] /\ \A t \in Thread : Len(cdb'[t]) <= MaxOpen
  BY <1>1, DatabasesAssumption DEF Exit
<1>3. DOMAIN mapFileUseCount' = {}
  BY DEF Exit
<1>4. Types'
  BY <1>2, <1>3 DEF DbInv, Types, Exit, disk, Kept, Stages
<1>5. CountsRight'
  <2> SUFFICES ASSUME NEW f \in File PROVE Cardinality(Users(f)') = UseCount(f)'
    BY DEF CountsRight
  <2>1. Users(f)' = {}
    BY DEF Exit, Users
  <2> QED
    BY <1>3, <2>1, FS_EmptySet DEF UseCount
<1>6. NothingOpen' /\ Progress' /\ LogCovered'
  BY <1>3 DEF NothingOpen, Progress, LogCovered, Exit
<1>7. HandlesLive' /\ StaysClosed'
  BY DEF HandlesLive, StaysClosed, Exit
<1> QED
  BY <1>4, <1>5, <1>6, <1>7 DEF DbInv

\* Where nothing is open there are no users.
LEMMA NoUsers ==
    ASSUME DbInv, stage \in {"off", "cleaned", "renamed", "copying"}
    PROVE  /\ \A t \in Thread : cdb[t] = <<>>
           /\ \A f \in File : UseCount(f) = 0
  BY DEF DbInv, NothingOpen, Progress, UseCount

LEMMA BegunStep ==
    ASSUME DbInv, stage \in {"off", "copying"}, Begun, Checkpoint, UNCHANGED found
    PROVE  DbInv'
<1>1. /\ \A t \in Thread : cdb'[t] = <<>>
      /\ \A f \in File : UseCount(f) = 0 /\ UseCount(f)' = 0
  BY NoUsers DEF Begun, UseCount
<1>2. Types'
  BY DEF DbInv, Types, Begun, Kept, Stages, Checkpoint
<1>3. CountsRight'
  <2>1. \A f \in File : Users(f)' = Users(f)
    BY DEF Users, Begun
  <2> QED
    BY <1>1, <2>1 DEF DbInv, CountsRight
<1>4. NothingOpen' /\ Progress' /\ LogCovered'
  BY <1>1 DEF NothingOpen, Progress, LogCovered, Begun, Checkpoint
<1>5. HandlesLive' /\ StaysClosed'
  BY <1>1 DEF HandlesLive, StaysClosed, Begun
<1> QED
  BY <1>2, <1>3, <1>4, <1>5 DEF DbInv

\* The steps of a recovery change the files only, and the keys that are found.
LEMMA RecoveryStep ==
    ASSUME DbInv,
           RecoverDatabaseEnvironment \/ RenameWallet \/ NothingFound \/ ExtractKeys \/ CopyKey
    PROVE  DbInv'
<1>1. /\ stage \in {"off", "cleaned", "renamed", "copying"}
      /\ stage' \in {"off", "cleaned", "renamed", "copying"}
      /\ UNCHANGED <<fShutdown, shared, doing, cdb, late, committed>>
  BY DEF RecoverDatabaseEnvironment, RenameWallet, NothingFound, ExtractKeys, CopyKey
<1>2. Kept' \subseteq committed /\ found' \subseteq committed
  <2>1. log \cup dat \cup old \subseteq committed /\ found \subseteq committed
    BY DEF DbInv, Types, Kept
  <2>2. CASE RecoverDatabaseEnvironment
    BY <2>1, <2>2 DEF RecoverDatabaseEnvironment, Kept
  <2>3. CASE RenameWallet
    BY <2>1, <2>3 DEF RenameWallet, Records, Kept
  <2>4. CASE NothingFound
    BY <2>1, <2>4 DEF NothingFound, Kept
  <2>5. CASE ExtractKeys
    BY <2>1, <2>5 DEF ExtractKeys, disk, Kept
  <2>6. CASE CopyKey
    BY <2>1, <2>6 DEF CopyKey, Kept
  <2> QED
    BY <2>2, <2>3, <2>4, <2>5, <2>6
<1>3. Types'
  BY <1>1, <1>2 DEF DbInv, Types, shared, Stages
<1>4. CountsRight'
  BY <1>1 DEF DbInv, CountsRight, Users, UseCount, shared
<1>5. NothingOpen' /\ Progress' /\ LogCovered'
  BY <1>1 DEF DbInv, NothingOpen, Progress, LogCovered, shared
<1>6. HandlesLive' /\ StaysClosed'
  BY <1>1, NoUsers DEF DbInv, HandlesLive, StaysClosed, shared
<1> QED
  BY <1>3, <1>4, <1>5, <1>6 DEF DbInv

-----------------------------------------------------------------------------
LEMMA DbStutter == ASSUME DbInv, UNCHANGED databaseVars PROVE DbInv'
<1>1. Types' /\ CountsRight'
  BY DEF DbInv, Types, CountsRight, Users, UseCount, Kept, databaseVars, shared, disk
<1>2. NothingOpen' /\ Progress' /\ LogCovered' /\ HandlesLive' /\ StaysClosed'
  BY DEF DbInv, NothingOpen, Progress, LogCovered, HandlesLive, StaysClosed, databaseVars,
         shared, disk
<1> QED
  BY <1>1, <1>2 DEF DbInv

LEMMA DbStep == DbInv /\ [Next]_databaseVars => DbInv'
<1> SUFFICES ASSUME DbInv, [Next]_databaseVars PROVE DbInv'
  OBVIOUS
<1>1. CASE \E t \in Thread : UseCDB(t)
  <2> PICK t \in Thread : UseCDB(t)
    BY <1>1
  <2>1. CASE \E f \in File : OpenCDB(t, f) \/ OpenFails(t, f)
    BY <2>1, OpenStep, OpenFailsStep
  <2>2. CASE WriteCDB(t) \/ CloseCDB(t) \/ ReleaseCDB(t)
    BY <2>2, WriteStep, CloseStep, ReleaseStep
  <2>3. CASE Sleep(t) \/ Wake(t)
    BY <2>3, RestStep
  <2> QED
    BY <2>1, <2>2, <2>3 DEF UseCDB
<1>2. CASE FlushWallet \/ ShutdownBegins \/ StopNode \/ DBFlush \/ Exit
  BY <1>2, FlushWalletStep, ShutdownStep, StopNodeStep, DBFlushStep, ExitStep
<1>3. CASE Start \/ CopyDone
  BY <1>3, BegunStep DEF Start, CopyDone
<1>4. CASE RecoverDatabaseEnvironment \/ RenameWallet \/ NothingFound \/ ExtractKeys \/ CopyKey
  BY <1>4, RecoveryStep
<1>5. CASE UNCHANGED databaseVars
  BY <1>5, DbStutter
<1> QED
  BY <1>1, <1>2, <1>3, <1>4, <1>5 DEF Next, Recover

\* What the invariant says holds in every reachable state.
THEOREM DbInvariant == Spec => []DbInv
<1> QED
  BY InitDb, DbStep, PTL DEF Spec

LEMMA DbInvGives == DbInv => DatabasesInv
<1> SUFFICES ASSUME DbInv PROVE DatabasesInv
  OBVIOUS
<1>1. \A f \in File : Cardinality({x \in Thread \X (1 .. MaxOpen) :
            /\ x[2] \in DOMAIN cdb[x[1]] /\ cdb[x[1]][x[2]].file = f}) =
          IF f \in DOMAIN mapFileUseCount THEN mapFileUseCount[f] ELSE 0
  BY DEF DbInv, CountsRight, Users, UseCount
<1>2. DatabasesTypeOK
  BY <1>1 DEF DbInv, Types, NothingOpen, DatabasesTypeOK
<1> QED
  BY <1>2 DEF DbInv, DatabasesInv

\* A database's count is that of its users, no handle is closed under a thread that StopNode
\* waited for, and nobody opens the environment that the last flush closed.
THEOREM CountsAndHandles == Spec => []DatabasesInv
<1> QED
  BY DbInvariant, DbInvGives, PTL

LEMMA OrderlyStep ==
    ASSUME DbInv, DBFlush, ~late, \A t \in Thread \ Counted : cdb[t] = <<>>
    PROVE  log' = {} /\ log \subseteq dat'
<1>1. \A t \in Thread : cdb[t] = <<>>
  BY DEF DbInv, Progress, DBFlush
<1>2. \A f \in File : UseCount(f) = 0
  <2> SUFFICES ASSUME NEW f \in File PROVE UseCount(f) = 0
    OBVIOUS
  <2>1. Users(f) = {}
    BY <1>1 DEF Users
  <2> QED
    BY <2>1, FS_EmptySet DEF DbInv, CountsRight
<1>3. Idle = DOMAIN mapFileUseCount
  BY <1>2 DEF DbInv, Types, Idle, UseCount
<1>4. fDbEnvInit
  BY DEF DbInv, Progress, DBFlush
<1>5. log' = {}
  BY <1>3, <1>4 DEF DBFlush
<1>6. log \subseteq dat'
  BY <1>3, <1>4 DEF DbInv, LogCovered, DBFlush, Checkpoint
<1> QED
  BY <1>5, <1>6

\* When everyone let go in time, DBFlush(true) leaves every record in the data files and no
\* log.
THEOREM OrderlyExits == Spec => OrderlyExit
<1>1. DbInv => (DBFlush /\ ~late /\ (\A t \in Thread \ Counted : cdb[t] = <<>>) =>
                   log' = {} /\ log \subseteq dat')
  BY OrderlyStep
<1> QED
  BY <1>1, DbInvariant, PTL DEF OrderlyExit

\* No step of -recover loses a record of the wallet's files.
THEOREM RecoveryLosesNothing == Spec => RecoveryKeeps
<1>1. Recover => {r \in dat : r[1] = Wallet} \cup old \subseteq Kept'
  <2>1. RecoverDatabaseEnvironment => {r \in dat : r[1] = Wallet} \cup old \subseteq Kept'
    BY DEF RecoverDatabaseEnvironment, Kept
  <2>2. RenameWallet => {r \in dat : r[1] = Wallet} \cup old \subseteq Kept'
    BY DEF RenameWallet, MayRename, Records, Kept
  <2>3. NothingFound => {r \in dat : r[1] = Wallet} \cup old \subseteq Kept'
    BY DEF NothingFound, Kept
  <2>4. ExtractKeys \/ CopyKey => {r \in dat : r[1] = Wallet} \cup old \subseteq Kept'
    BY DEF ExtractKeys, CopyKey, disk, Kept
  <2>5. CopyDone => {r \in dat : r[1] = Wallet} \cup old \subseteq Kept'
    BY DEF CopyDone, Begun, Checkpoint, Kept
  <2> QED
    BY <2>1, <2>2, <2>3, <2>4, <2>5 DEF Recover
<1> QED
  BY <1>1, PTL DEF Spec, RecoveryKeeps
=============================================================================
