------------------------------- MODULE Numbers -------------------------------
(***************************************************************************)
(* Numbers as bytes: what a CBigNum is as bytes and as a compact target,   *)
(* base 58, the sizes that come before lists, and the words of a uint256.  *)
(* A byte has Base values; a word has 2^WordBits.                          *)
(***************************************************************************)
EXTENDS Integers, Sequences, SequencesExt

CONSTANTS
    Base,       \* 256 in the code
    Radix,      \* 58 in the code
    MaxBytes,   \* bound on the size of numbers
    WordBits,   \* 32 in the code
    WIDTH       \* words of a base_uint

ASSUME NumbersAssumption ==
    /\ {Base, Radix, MaxBytes, WordBits, WIDTH} \subseteq Nat \ {0}
    /\ Base % 2 = 0 /\ Radix < Base /\ Radix > 1 /\ WIDTH > 1

Byte == 0..(Base - 1)
Half == Base \div 2

\* The value of digits, the least significant first.
ValueIn(radix, v) ==
    LET s[i \in 0..Len(v)] == IF i = 0 THEN 0 ELSE s[i - 1] + v[i] * radix ^ (i - 1)
    IN  s[Len(v)]
Value(v) == ValueIn(Base, v)

Fixed(radix, n, size) == [i \in 1..size |-> (n \div radix ^ (i - 1)) % radix]
Digits(radix, n) ==
    Fixed(radix, n, CHOOSE k \in 0..(3 * MaxBytes) :
                        n < radix ^ k /\ \A j \in 0..(k - 1) : radix ^ j <= n)
Magnitude(n) == IF n < 0 THEN -n ELSE n
Zeros(n) == [i \in 1..n |-> 0]

-----------------------------------------------------------------------------
(* CBigNum                                                                 *)

\* Little endian, and the top bit is the sign.
setvch(v) ==
    IF v = <<>> THEN 0
    ELSE LET m == Value([v EXCEPT ![Len(v)] = @ % Half])
         IN  IF Last(v) >= Half THEN -m ELSE m

\* Mutant of getvch: no byte is added for the sign when the top bit is taken.
getvchTight(n) ==
    LET m == Digits(Base, Magnitude(n))
    IN  IF n < 0 THEN [m EXCEPT ![Len(m)] = (@ + Half) % Base] ELSE m

getvch(n) ==
    LET m    == Digits(Base, Magnitude(n))
        sign == IF n < 0 THEN Half ELSE 0
    IN  IF m = <<>> THEN <<>>
        ELSE IF Last(m) >= Half THEN Append(m, sign)
        ELSE [m EXCEPT ![Len(m)] = @ + sign]

\* The bytes setint64 hands on, from the bytes of -n when n is negative.
setint64(n) ==
    LET bytes == Reverse(Fixed(Base, Magnitude(n), MaxBytes))
        Put(s, c) ==
            IF s # <<>> THEN Append(s, c)
            ELSE IF c = 0 THEN <<>>
            ELSE IF c >= Half THEN <<IF n < 0 THEN Half ELSE 0, c>>
            ELSE <<IF n < 0 THEN c + Half ELSE c>>
    IN  FoldLeft(Put, <<>>, bytes)

\* Mutant of GetCompact: the bytes of the magnitude, as if it had no sign.
GetCompactTight(n) ==
    LET v == Reverse(getvchTight(n))
    IN  [nSize |-> Len(v), word |-> [i \in 1..3 |-> IF i <= Len(v) THEN v[i] ELSE 0]]

\* The size and the three most significant bytes.
GetCompact(n) ==
    LET v == Reverse(getvch(n))
    IN  [nSize |-> Len(v), word |-> [i \in 1..3 |-> IF i <= Len(v) THEN v[i] ELSE 0]]
SetCompact(c) ==
    setvch(Reverse([i \in 1..c.nSize |-> IF i <= 3 THEN c.word[i] ELSE 0]))

-----------------------------------------------------------------------------
(* Base 58                                                                 *)

Leading(v) == CHOOSE k \in 0..Len(v) :
    (\A i \in 1..k : v[i] = 0) /\ (k < Len(v) => v[k + 1] # 0)

\* Bytes, the most significant first; a leading zero is a character of its own.
EncodeBase58(d) ==
    Zeros(Leading(d)) \o Reverse(Digits(Radix, Value(Reverse(d))))

\* Mutant of DecodeBase58: the sign byte stays.
DecodeBase58Signed(t) ==
    Zeros(Leading(t)) \o Reverse(getvch(ValueIn(Radix, Reverse(t))))

DecodeBase58(t) ==
    LET v   == getvch(ValueIn(Radix, Reverse(t)))
        tmp == IF Len(v) >= 2 /\ Last(v) = 0 /\ v[Len(v) - 1] >= Half THEN Front(v) ELSE v
    IN  Zeros(Leading(t)) \o Reverse(tmp)

-----------------------------------------------------------------------------
(* Compact sizes.  A short has two bytes, an int four, an int64 eight.     *)

GetSizeOfCompactSize(n) ==
    CASE n < Base - 3 -> 1
      [] n >= Base - 3 /\ n < Base ^ 2 -> 3
      [] n >= Base ^ 2 /\ n < Base ^ 4 -> 5
      [] OTHER -> 9

\* Mutant of WriteCompactSize: the first marker is a size, too.
WriteCompactSizeOver(n) ==
    IF n <= Base - 3 THEN <<n>> ELSE <<Base - 3>> \o Fixed(Base, n, 2)

WriteCompactSize(n) ==
    CASE n < Base - 3 -> <<n>>
      [] n >= Base - 3 /\ n < Base ^ 2 -> <<Base - 3>> \o Fixed(Base, n, 2)
      [] n >= Base ^ 2 /\ n < Base ^ 4 -> <<Base - 2>> \o Fixed(Base, n, 4)
      [] OTHER -> <<Base - 1>> \o Fixed(Base, n, 8)

\* What is read from the front of s, and what is left; a failure at the end of the data or
\* when the size is more than an int holds.
Failed == [ok |-> FALSE, n |-> 0, rest |-> <<>>]
ReadCompactSize(s) ==
    IF s = <<>> THEN Failed
    ELSE LET ch   == Head(s)
             size == CASE ch < Base - 3 -> 0 [] ch = Base - 3 -> 2 [] ch = Base - 2 -> 4
                       [] OTHER -> 8
             n    == IF size = 0 THEN ch ELSE Value(SubSeq(s, 2, 1 + size))
         IN  IF Len(s) < 1 + size \/ n >= Base ^ 4 \div 2 THEN Failed
             ELSE [ok |-> TRUE, n |-> n, rest |-> SubSeq(s, 2 + size, Len(s))]

-----------------------------------------------------------------------------
(* base_uint: WIDTH words, the least significant first                     *)

WordBase == 2 ^ WordBits
Words == [1..WIDTH -> 0..(WordBase - 1)]
WordsValue(a) == ValueIn(WordBase, a)
FromUInt64(n) == [i \in 1..WIDTH |-> IF i <= 2 THEN Fixed(WordBase, n, 2)[i] ELSE 0]

Not(a) == [i \in 1..WIDTH |-> WordBase - 1 - a[i]]

\* A word is incremented when all below it have become zero, decremented when all below were.
Increment(a) ==
    [i \in 1..WIDTH |-> IF \A j \in 1..(i - 1) : a[j] = WordBase - 1
                        THEN (a[i] + 1) % WordBase ELSE a[i]]
Decrement(a) ==
    [i \in 1..WIDTH |-> IF \A j \in 1..(i - 1) : a[j] = 0
                        THEN (a[i] + WordBase - 1) % WordBase ELSE a[i]]

\* Mutant of Plus: the carry does not take the carry before it into account.
PlusShort(a, b) ==
    [i \in 1..WIDTH |->
        (a[i] + b[i] + IF i > 1 /\ a[i - 1] + b[i - 1] >= WordBase THEN 1 ELSE 0) % WordBase]

Plus(a, b) ==
    LET carry[i \in 1..WIDTH] ==
            IF i = 1 THEN 0 ELSE (carry[i - 1] + a[i - 1] + b[i - 1]) \div WordBase
    IN  [i \in 1..WIDTH |-> (carry[i] + a[i] + b[i]) % WordBase]

Negative(a) == Increment(Not(a))
Minus(a, b) == Plus(a, Negative(b))

\* Each word gets the low bits of one word and the high bits of its neighbour.
LeftShift(a, shift) ==
    LET k    == shift \div WordBits
        s    == shift % WordBits
        w(i) == IF i \in 1..WIDTH THEN a[i] ELSE 0
    IN  [i \in 1..WIDTH |->
            ((w(i - k) * 2 ^ s) % WordBase) + (w(i - k - 1) \div 2 ^ (WordBits - s))]
RightShift(a, shift) ==
    LET k    == shift \div WordBits
        s    == shift % WordBits
        w(i) == IF i \in 1..WIDTH THEN a[i] ELSE 0
    IN  [i \in 1..WIDTH |->
            (w(i + k) \div 2 ^ s) + ((w(i + k + 1) * 2 ^ (WordBits - s)) % WordBase)]

\* The most significant word that differs decides.
Less(a, b) == \E i \in 1..WIDTH : a[i] < b[i] /\ \A j \in (i + 1)..WIDTH : a[j] = b[j]
=============================================================================
