------------------------------ MODULE Difficulty ------------------------------
(***************************************************************************)
(* One branch of blocks growing in time: the rules for nTime and nBits     *)
(* (CheckBlock, AcceptBlock, GetNextWorkRequired) and the clock of a node  *)
(* that mines.  Blocks of the BlockChain module outside WellTimed are      *)
(* those that break these rules.                                           *)
(***************************************************************************)
EXTENDS Naturals, Sequences, FiniteSets

CONSTANTS
    TargetTimespan,     \* nTargetTimespan, 14 * 24 * 60 * 60
    TargetSpacing,      \* nTargetSpacing, 10 * 60
    MedianTimeSpan,     \* nMedianTimeSpan, 11
    MaxAhead,           \* nMaxTimestampDrift + nTargetSpacing * 6
    MaxFuture,          \* 2 * 60 * 60
    ActivationHeight,   \* TIMEWARP_ACTIVATION_HEIGHT
    ProofOfWorkLimit,   \* bnProofOfWorkLimit
    Mantissa,           \* 2^23, the bound of the mantissa of a compact number
    Units,              \* the powers of 256, smaller ones in the runs
    UInt,               \* 2^32
    MaxTime,            \* bound on the clock
    MaxHeight           \* bound on the branch

VARIABLES
    headers,    \* the branch: headers[i] is the block of height i - 1
    now         \* GetAdjustedTime()

timeVars == <<headers, now>>

nInterval == TargetTimespan \div TargetSpacing

\* The shortest timespan the rule allows is longer than the largest step ahead.
ASSUME DifficultyAssumption ==
    /\ TargetTimespan \in Nat /\ TargetSpacing \in Nat \ {0}
    /\ TargetTimespan >= 2 * TargetSpacing
    /\ MedianTimeSpan \in Nat \ {0}
    /\ MaxAhead \in Nat /\ MaxAhead <= TargetTimespan \div 8
    /\ MaxFuture \in Nat
    /\ ActivationHeight \in Nat
    /\ ProofOfWorkLimit \in Nat
    /\ Mantissa \in Nat \ {0} /\ Units \subseteq Nat /\ 1 \in Units
    /\ UInt \in Nat /\ 4 * TargetTimespan < UInt
    /\ MaxTime \in Nat /\ MaxTime + MaxFuture + MaxAhead < UInt
    /\ MaxHeight \in Nat /\ MaxHeight <= MaxTime

-----------------------------------------------------------------------------
(* GetMedianTimePast and GetNextWorkRequired, of a branch h.               *)

Last(h) == h[Len(h)]

\* pmedian, sorted, at index n / 2, of the last n <= MedianTimeSpan blocks.
GetMedianTimePast(h) ==
    LET recent == {i \in DOMAIN h : i + MedianTimeSpan > Len(h)}
        Below(t)  == Cardinality({i \in recent : h[i].nTime < t})
        UpTo(t)   == Cardinality({i \in recent : h[i].nTime <= t})
        middle    == Cardinality(recent) \div 2
    IN  CHOOSE t \in {h[i].nTime : i \in recent} : Below(t) <= middle /\ middle < UpTo(t)

\* GetCompact and SetCompact: n rounded down to a number that has three
\* significant bytes, the first below 128.
Representable(m) == \E b \in 0..(Mantissa - 1), u \in Units : m = b * u
Compact(n) == CHOOSE m \in 0..n : /\ Representable(m)
                                  /\ \A l \in 0..n : Representable(l) => l <= m

\* Unsigned subtraction.
Minus(a, b) == IF a >= b THEN a - b ELSE a + (UInt - b)

\* The interval that ends with the last block of h begins one block late.
AtBoundary(h) == Len(h) % nInterval = 0
First(h) == h[Len(h) - nInterval + 1]

\* Mutant of GetNextWorkRequired: the easiest target is no limit.
GetNextWorkRequiredUncapped(h) ==
    LET actual  == Minus(Last(h).nTime, First(h).nTime)
        clamped == IF actual > TargetTimespan * 4 THEN TargetTimespan * 4 ELSE actual
    IN  IF AtBoundary(h) THEN Compact((Last(h).nBits * clamped) \div TargetTimespan)
        ELSE Last(h).nBits

\* nActualTimespan is unsigned: a negative one would count as very long.
GetNextWorkRequired(h) ==
    LET nActualTimespan == Minus(Last(h).nTime, First(h).nTime)
        clamped == IF nActualTimespan < TargetTimespan \div 4 THEN TargetTimespan \div 4
                   ELSE IF nActualTimespan > TargetTimespan * 4 THEN TargetTimespan * 4
                   ELSE nActualTimespan
        bnNew   == (Last(h).nBits * clamped) \div TargetTimespan
    IN  IF ~AtBoundary(h) THEN Last(h).nBits
        ELSE Compact(IF bnNew > ProofOfWorkLimit THEN ProofOfWorkLimit ELSE bnNew)

-----------------------------------------------------------------------------
(* The time rules of AcceptBlock, for a block with time t on the branch h. *)

\* The next height is Len(h).
Enforced(h) == Len(h) >= ActivationHeight

\* Mutants of AfterMedian and NotFarAhead: the rule is gone; the distance is
\* taken from the clock's allowance.
AfterAnything(h, t) == TRUE
NotFarAheadOfClock(h, t) == t <= now + MaxFuture

\* The test of CheckBlock.
NotInFuture(t) == t <= now + MaxFuture

AfterMedian(h, t)  == t > GetMedianTimePast(h)
NotFarAhead(h, t)  == Enforced(h) => t <= Last(h).nTime + MaxAhead
NotTooShort(h, t)  == Enforced(h) /\ AtBoundary(h) => t >= First(h).nTime + TargetTimespan \div 8

TimeAcceptable(h, t) == AfterMedian(h, t) /\ NotFarAhead(h, t) /\ NotTooShort(h, t)

AcceptBlock(t) ==
    /\ Len(headers) <= MaxHeight
    /\ NotInFuture(t)
    /\ TimeAcceptable(headers, t)
    /\ headers' = Append(headers, [nTime |-> t, nBits |-> GetNextWorkRequired(headers)])
    /\ UNCHANGED now

\* What the node's own miner writes into a block it finds when the clock says c.
MinerTime(h, c) == IF GetMedianTimePast(h) + 1 > c THEN GetMedianTimePast(h) + 1 ELSE c

\* A block of another miner, who may choose any time the rules allow; the bound
\* leaves room below MaxTime for MaxHeight blocks a second apart.
Receive == \E t \in 0..(MaxTime - MaxHeight) : AcceptBlock(t)

Mine == AcceptBlock(MinerTime(headers, now))

Tick ==
    /\ now < MaxTime
    /\ now' = now + 1
    /\ UNCHANGED headers

DifficultyTypeOK ==
    /\ headers \in Seq([nTime : 0..(MaxTime + MaxFuture), nBits : 0..ProofOfWorkLimit])
    /\ Len(headers) \in 1..(MaxHeight + 1)
    /\ now \in 0..MaxTime

DifficultyInit ==
    /\ headers = <<[nTime |-> 0, nBits |-> Compact(ProofOfWorkLimit)]>>
    /\ now = 0

DifficultyNext == Receive \/ Mine \/ Tick

DifficultySpec == DifficultyInit /\ [][DifficultyNext]_timeVars

-----------------------------------------------------------------------------
(* Properties.                                                             *)

\* The median never falls, so the lower bound on times only moves forward,
\* though the times themselves may go back.
MedianAdvances == [][GetMedianTimePast(headers') >= GetMedianTimePast(headers)]_timeVars

\* The first block after an interval that took less than the target timespan is
\* not easier than those in it: the unsigned difference of times does not wrap,
\* because the time-warp rules tie the last block of the interval to the first.
FastNeverEasier ==
    [][/\ Len(headers') > Len(headers)
       /\ Enforced(headers) /\ AtBoundary(headers)
       /\ Last(headers).nTime < First(headers).nTime + TargetTimespan
       => Last(headers').nBits <= Last(headers).nBits]_timeVars
=============================================================================
